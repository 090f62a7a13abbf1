------------------------------- MODULE Wiring -------------------------------
(***************************************************************************)
(* What a builder of circuits promises, without its tables and flags: a    *)
(* set of parts and a set of wires between their pins, at most one wire    *)
(* into any pin, and a part that is removed takes along what is below it   *)
(* and every wire that ends there, and nothing else.                       *)
(***************************************************************************)
EXTENDS Naturals

CONSTANTS Component, Clock, Pin, Owner, Ancestors, Sim

VARIABLES
  parts,    \* the Components and Clocks there are
  wires,    \* pairs of a source, a pin or a Clock, and the pin it drives
  refused   \* a request has been refused, and the refusal reported

vars == <<parts, wires, refused>>

PartOf(s) == IF s \in Clock THEN s ELSE Owner[s]
Below(x) == {y \in Component : x \in Ancestors[y]} \cup {x}

Init == parts = {Sim} /\ wires = {} /\ refused = FALSE

\* A part is added, or refused although it is added: a Gate with one input.
Add(x) ==
  /\ x \notin parts /\ parts' = parts \cup {x}
  /\ refused' \in {refused, TRUE} /\ UNCHANGED wires

Connect(s, q) ==
  /\ PartOf(s) \in parts /\ Owner[q] \in parts
  /\ UNCHANGED <<parts, refused>>
  /\ \A w \in wires : w[2] # q
  /\ wires' = wires \cup {<<s, q>>}

Refuse == refused' = TRUE /\ UNCHANGED <<parts, wires>>

Remove(x) ==
  /\ x \in parts /\ parts' = parts \ Below(x)
  /\ wires' = {w \in wires : PartOf(w[1]) \notin Below(x) /\ Owner[w[2]] \notin Below(x)}
  /\ UNCHANGED refused

Next ==
  \/ Refuse
  \/ \E x \in Component \cup Clock : Add(x) \/ Remove(x)
  \/ \E s \in Pin \cup Clock, q \in Pin : Connect(s, q)

Spec == Init /\ [][Next]_vars

=============================================================================
