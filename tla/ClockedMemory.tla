---------------------------- MODULE ClockedMemory ----------------------------
(***************************************************************************)
(* What memories on a clock promise.  An edge of a clock is one step for   *)
(* all of them: each reads or writes what was stored, with the levels that *)
(* were there before the edge, whatever the others put out meanwhile: that *)
(* arrives later, for all of them at once.                                 *)
(***************************************************************************)
EXTENDS Naturals, Sequences

CONSTANTS Ram, Rom, AddressWidth, DataWidth, Source, Target

Memory == Ram \cup Rom
Address(m) == SUBSET (0 .. AddressWidth[m] - 1)
Word(m) == SUBSET (0 .. DataWidth[m] - 1)
\* d_out of a RAM, d of a ROM.
OutPins(m) == {<<m, "d_out", i>> : i \in 0 .. DataWidth[m] - 1}
OutPin == UNION {OutPins(m) : m \in Memory}

VARIABLES
  level,    \* of every source outside
  shown,    \* the out pins that are high
  stored,   \* the word at each address of each memory
  fed       \* the out pins that are high as the pins they drive have it

vars == <<level, shown, stored, fed>>

High == {s \in Source : level[s]} \cup fed

\* The pin p of m when the edge of the source s gets to m: s may have set it already, if
\* it comes before clk among the pins that s drives.
Seen(s, m, p) ==
  \/ \E x \in High \ {s} : \E i \in DOMAIN Target[x] : Target[x][i] = p
  \/ \E i, j \in DOMAIN Target[s] :
       /\ Target[s][i] = p /\ Target[s][j] = <<m, "clk">>
       /\ level[s] # (i < j)
Bus(s, m, name, n) == {i \in 0 .. n - 1 : Seen(s, m, <<m, name, i>>)}
Edge(s, m) == \E i \in DOMAIN Target[s] : Target[s][i] = <<m, "clk">>

Reads(s, m) ==
  /\ Edge(s, m) /\ Seen(s, m, <<m, "read">>)
  /\ IF m \in Ram THEN ~level[s] /\ ~Seen(s, m, <<m, "write">>) ELSE level[s]
Writes(s, m) ==
  /\ Edge(s, m) /\ m \in Ram /\ ~level[s]
  /\ Seen(s, m, <<m, "write">>) /\ ~Seen(s, m, <<m, "read">>)
At(s, m) == Bus(s, m, "a", AddressWidth[m])

Move(s) ==
  /\ level' = [level EXCEPT ![s] = ~@]
  /\ shown' = {o \in OutPin : IF Reads(s, o[1]) THEN o[3] \in stored[o[1]][At(s, o[1])] ELSE o \in shown}
  /\ stored' = [m \in Memory |->
       IF Writes(s, m) THEN [stored[m] EXCEPT ![At(s, m)] = Bus(s, m, "d_in", DataWidth[m])]
       ELSE stored[m]]
  /\ UNCHANGED fed

\* What the memories put out arrives where it leads.
Feed == fed' = shown /\ UNCHANGED <<level, shown, stored>>

Init ==
  /\ level = [s \in Source |-> FALSE] /\ shown = {} /\ fed = {}
  /\ stored \in [Memory -> UNION {[Address(m) -> Word(m)] : m \in Memory}]
  /\ \A m \in Ram : stored[m] = [a \in Address(m) |-> {}]

Next == (\E s \in Source : Move(s)) \/ Feed
Spec == Init /\ [][Next]_vars
=============================================================================
