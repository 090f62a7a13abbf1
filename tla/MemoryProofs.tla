---------------------------- MODULE MemoryProofs ----------------------------
(***************************************************************************)
(* Theorems about Memory, for any RAMs, ROMs and widths, and any wiring    *)
(* that MemoryAssumption allows.                                           *)
(***************************************************************************)
EXTENDS Memory, QueueLemmas

-----------------------------------------------------------------------------
(* Pins.                                                                   *)

\* An out pin is one of d_out_0, d_out_1 and so on of a memory.
LEMMA OutPinShape ==
  ASSUME NEW o \in OutPin
  PROVE  /\ o[1] \in Memory /\ o[2] = "d_out" /\ o[3] \in 0 .. DataWidth[o[1]] - 1
         /\ o = <<o[1], "d_out", o[3]>>
<1>1. PICK m \in Memory : o \in {<<m, "d_out", i>> : i \in 0 .. DataWidth[m] - 1}
  BY DEF OutPin
<1>2. PICK i \in 0 .. DataWidth[m] - 1 : o = <<m, "d_out", i>>
  BY <1>1
<1>. QED
  BY <1>1, <1>2

\* An in pin is not an out pin, and the only one called clk of its memory is that.
LEMMA InPinShape ==
  ASSUME NEW p \in InPin
  PROVE  /\ p[1] \in Memory /\ p[2] # "d_out" /\ p \notin OutPin
         /\ p[2] = "clk" => p = <<p[1], "clk">>
<1>1. PICK m \in Memory :
        p \in {<<m, "clk">>, <<m, "read">>, <<m, "write">>} \cup
              {<<m, "a", i>> : i \in 0 .. AddressWidth[m] - 1} \cup
              {<<m, "d_in", i>> : i \in 0 .. DataWidth[m] - 1}
  BY DEF InPin
<1>2. /\ p[1] = m
      /\ p[2] # "d_out"
      /\ p[2] = "clk" => p = <<m, "clk">>
  <2>1. CASE p \in {<<m, "clk">>, <<m, "read">>, <<m, "write">>}
    BY <2>1
  <2>2. CASE p \in {<<m, "a", i>> : i \in 0 .. AddressWidth[m] - 1}
    BY <2>2
  <2>3. CASE p \in {<<m, "d_in", i>> : i \in 0 .. DataWidth[m] - 1}
    BY <2>3
  <2>. QED
    BY <1>1, <2>1, <2>2, <2>3
<1>3. p \notin OutPin
  BY <1>2, OutPinShape
<1>. QED
  BY <1>1, <1>2, <1>3

\* The pins of a memory that its engine looks at.
LEMMA EnginePins ==
  ASSUME NEW m \in Memory
  PROVE  /\ <<m, "clk">> \in InPin /\ <<m, "read">> \in InPin /\ <<m, "write">> \in InPin
         /\ \A i \in 0 .. AddressWidth[m] - 1 : <<m, "a", i>> \in InPin
         /\ \A i \in 0 .. DataWidth[m] - 1 : <<m, "d_in", i>> \in InPin
         /\ \A i \in 0 .. DataWidth[m] - 1 : <<m, "d_out", i>> \in OutPin
<1>1. /\ <<m, "clk">> \in InPin /\ <<m, "read">> \in InPin /\ <<m, "write">> \in InPin
  BY DEF InPin
<1>2. /\ \A i \in 0 .. AddressWidth[m] - 1 : <<m, "a", i>> \in InPin
      /\ \A i \in 0 .. DataWidth[m] - 1 : <<m, "d_in", i>> \in InPin
  BY DEF InPin
<1>3. \A i \in 0 .. DataWidth[m] - 1 : <<m, "d_out", i>> \in OutPin
  BY DEF OutPin
<1>. QED
  BY <1>1, <1>2, <1>3

\* What a source or an out pin drives.
LEMMA TargetTypes ==
  ASSUME NEW x \in Source \cup OutPin
  PROVE  /\ Target[x] \in Seq(InPin) /\ Len(Target[x]) \in Nat
         /\ DOMAIN Target[x] = 1 .. Len(Target[x])
         /\ \A i \in DOMAIN Target[x] : Target[x][i] \in InPin
<1>1. Target[x] \in Seq(InPin)
  BY MemoryAssumption
<1>. QED
  BY <1>1

\* A pin has one driver and one place among its connections.
LEMMA SingleDriver ==
  ASSUME NEW x \in Source \cup OutPin, NEW y \in Source \cup OutPin,
         NEW i \in DOMAIN Target[x], NEW j \in DOMAIN Target[y], Target[x][i] = Target[y][j]
  PROVE  x = y /\ i = j
<1>1. DOMAIN Target = Source \cup OutPin
  BY MemoryAssumption
<1>. QED
  BY <1>1, MemoryAssumption

\* No memory drives a clock.
LEMMA NoClock ==
  ASSUME NEW o \in OutPin, NEW i \in DOMAIN Target[o]
  PROVE  Target[o][i][2] # "clk"
<1>1. Target[o][i] \in InPin
  BY TargetTypes
<1>2. Target[o][i] \in Drives(o)
  BY DEF Drives
<1>. QED
  BY <1>1, <1>2, InPinShape, MemoryAssumption

-----------------------------------------------------------------------------
(* The magic engines.                                                      *)

\* What a memory does at an edge of its clock: a RAM reads or writes when clk goes high,
\* a ROM reads when it goes low.
LEMMA Fired ==
  ASSUME NEW m \in Memory, NEW state \in BOOLEAN
  PROVE  /\ "read" \in Incantations(m, state) <=>
              /\ <<m, "read">> \in high
              /\ IF m \in Ram THEN state /\ <<m, "write">> \notin high ELSE ~state
         /\ "write" \in Incantations(m, state) <=>
              m \in Ram /\ state /\ <<m, "write">> \in high /\ <<m, "read">> \notin high
<1>. DEFINE T == Traps(m)
            met == {i \in DOMAIN T : Met(T[i], m, state)}
<1>0. Incantations(m, state) = {T[i].incantation : i \in {i \in met : \A j \in met : i <= j}}
  BY DEF Incantations
<1>1. CASE m \in Ram
  <2>1. /\ DOMAIN T = {1, 2}
        /\ T[1].incantation = "read" /\ T[2].incantation = "write"
        /\ Met(T[1], m, state) <=> state /\ <<m, "read">> \in high /\ <<m, "write">> \notin high
        /\ Met(T[2], m, state) <=> state /\ <<m, "write">> \in high /\ <<m, "read">> \notin high
    <3>. DEFINE r == [state |-> TRUE, on |-> {"read"}, off |-> {"write"}, incantation |-> "read"]
                w == [state |-> TRUE, on |-> {"write"}, off |-> {"read"}, incantation |-> "write"]
    <3>1. T = <<r, w>>
      BY <1>1 DEF Traps
    <3>2. /\ Met(r, m, state) <=> state /\ <<m, "read">> \in high /\ <<m, "write">> \notin high
          /\ Met(w, m, state) <=> state /\ <<m, "write">> \in high /\ <<m, "read">> \notin high
      BY DEF Met
    <3>3. r.incantation = "read" /\ w.incantation = "write"
      OBVIOUS
    <3>. HIDE DEF T, r, w
    <3>4. DOMAIN T = {1, 2} /\ T[1] = r /\ T[2] = w
      BY <3>1
    <3>. QED
      BY <3>2, <3>3, <3>4
  <2>. HIDE DEF T
  <2>2. CASE Met(T[1], m, state)
    <3>1. met = {1}
      BY <2>1, <2>2
    <3>2. Incantations(m, state) = {"read"}
      BY <1>0, <2>1, <3>1
    <3>. QED
      BY <1>1, <2>1, <2>2, <3>2
  <2>3. CASE Met(T[2], m, state)
    <3>1. met = {2}
      BY <2>1, <2>3
    <3>2. Incantations(m, state) = {"write"}
      BY <1>0, <2>1, <3>1
    <3>. QED
      BY <1>1, <2>1, <2>3, <3>2
  <2>4. CASE ~Met(T[1], m, state) /\ ~Met(T[2], m, state)
    <3>1. met = {}
      BY <2>1, <2>4
    <3>2. Incantations(m, state) = {}
      BY <1>0, <3>1
    <3>. QED
      BY <1>1, <2>1, <2>4, <3>2
  <2>. QED
    BY <2>2, <2>3, <2>4
<1>2. CASE m \notin Ram
  <2>1. /\ DOMAIN T = {1} /\ T[1].incantation = "read"
        /\ Met(T[1], m, state) <=> ~state /\ <<m, "read">> \in high
    <3>. DEFINE r == [state |-> FALSE, on |-> {"read"}, off |-> {}, incantation |-> "read"]
    <3>1. T = <<r>>
      BY <1>2 DEF Traps
    <3>2. Met(r, m, state) <=> ~state /\ <<m, "read">> \in high
      BY DEF Met
    <3>3. r.incantation = "read"
      OBVIOUS
    <3>. HIDE DEF T, r
    <3>4. DOMAIN T = {1} /\ T[1] = r
      BY <3>1
    <3>. QED
      BY <3>2, <3>3, <3>4
  <2>. HIDE DEF T
  <2>2. CASE Met(T[1], m, state)
    <3>1. met = {1}
      BY <2>1, <2>2
    <3>2. Incantations(m, state) = {"read"}
      BY <1>0, <2>1, <3>1
    <3>. QED
      BY <1>2, <2>1, <2>2, <3>2
  <2>3. CASE ~Met(T[1], m, state)
    <3>1. met = {}
      BY <2>1, <2>3
    <3>2. Incantations(m, state) = {}
      BY <1>0, <3>1
    <3>. QED
      BY <1>2, <2>1, <2>3, <3>2
  <2>. QED
    BY <2>2, <2>3
<1>. QED
  BY <1>1, <1>2

\* A read puts the word at the address on the out pins; what is no read leaves them.
LEMMA PutOut ==
  ASSUME NEW m \in Memory, NEW incantations, NEW o \in OutPin, o[1] = m
  PROVE  o \in Put(m, incantations) <=>
           IF "read" \in incantations THEN o[3] \in m_data[m][At(m)] ELSE o \in high
<1>1. o = <<m, "d_out", o[3]>>
  BY OutPinShape
<1>2. CASE "read" \in incantations
  <2>1. o \in Put(m, incantations) <=> \E i \in m_data[m][At(m)] : o = <<m, "d_out", i>>
    BY <1>2 DEF Put
  <2>. QED
    BY <1>1, <1>2, <2>1
<1>3. CASE "read" \notin incantations
  BY <1>3 DEF Put, Outputs
<1>. QED
  BY <1>2, <1>3

\* What a memory holds after a write.
Written(m) == [m_data[m] EXCEPT ![At(m)] = Bus(m, "d_in", DataWidth[m])]

\* A write stores the data at the address, in that memory alone.
LEMMA Stored ==
  ASSUME TypeOK, NEW m \in Memory, NEW incantations
  PROVE  /\ Store(m, incantations) \in [Memory -> AnyContent]
         /\ \A n \in Memory : Store(m, incantations)[n] \in Content(n)
         /\ \A n \in Memory : Store(m, incantations)[n] =
              IF n = m /\ "write" \in incantations
              THEN Written(n) ELSE m_data[n]
<1>. DEFINE word == Bus(m, "d_in", DataWidth[m])
<1>1. /\ m_data \in [Memory -> AnyContent]
      /\ \A n \in Memory : m_data[n] \in Content(n)
  BY DEF TypeOK
<1>2. word \in SUBSET (0 .. DataWidth[m] - 1)
  BY DEF Bus
<1>3. [m_data[m] EXCEPT ![At(m)] = word] \in Content(m)
  <2>1. m_data[m] \in [Address(m) -> SUBSET (0 .. DataWidth[m] - 1)]
    BY <1>1 DEF Content
  <2>. HIDE DEF word
  <2>2. [m_data[m] EXCEPT ![At(m)] = word] \in [Address(m) -> SUBSET (0 .. DataWidth[m] - 1)]
    BY <1>2, <2>1
  <2>. QED
    BY <2>2 DEF Content
<1>4. CASE "write" \in incantations
  <2>1. Store(m, incantations) = [m_data EXCEPT ![m] = Written(m)]
    BY <1>1, <1>4 DEF Store, Written
  <2>2. Written(m) \in Content(m)
    BY <1>3 DEF Written
  <2>3. Written(m) \in AnyContent
    BY <2>2 DEF AnyContent
  <2>4. /\ Store(m, incantations) \in [Memory -> AnyContent]
        /\ Store(m, incantations)[m] = Written(m)
    BY <1>1, <2>1, <2>3
  <2>5. \A n \in Memory \ {m} : Store(m, incantations)[n] = m_data[n]
    BY <1>1, <2>1
  <2>6. \A n \in Memory : Store(m, incantations)[n] = IF n = m THEN Written(n) ELSE m_data[n]
    BY <2>4, <2>5
  <2>7. \A n \in Memory : Store(m, incantations)[n] \in Content(n)
    BY <1>1, <2>2, <2>6, Zenon
  <2>. QED
    BY <1>4, <2>4, <2>6, <2>7, Zenon
<1>5. CASE "write" \notin incantations
  BY <1>1, <1>5 DEF Store
<1>. QED
  BY <1>4, <1>5

-----------------------------------------------------------------------------
(* Device::Set.                                                            *)

\* What a changed pin changes besides.
LEMMA ChangeEffect ==
  ASSUME TypeOK, NEW p \in InPin, NEW state \in BOOLEAN, NEW incantations,
         Change(p, state, incantations)
  PROVE  /\ high' \subseteq InPin \cup OutPin /\ changed' \subseteq OutPin
         /\ \A q \in InPin : q \in high' <=> IF q = p THEN state ELSE q \in high
         /\ \A o \in OutPin : o \in high' <=>
              IF o[1] = p[1] /\ "read" \in incantations THEN o[3] \in m_data[p[1]][At(p[1])]
              ELSE o \in high
         /\ changed \subseteq changed'
         /\ \A o \in OutPin : o \in changed' \/ (o \in high' <=> o \in high)
         /\ \A o \in changed' : o \in changed \/ o[1] \in buffered'
         /\ buffered \subseteq buffered' /\ buffered' \subseteq buffered \cup Range(solve')
         /\ buffered' \subseteq Memory
         /\ solve' \in Seq(Memory) /\ Range(solve) \subseteq Range(solve')
<1>. DEFINE m == p[1]
            put == Put(m, incantations)
            moved == {o \in Outputs(m) : (o \in put) # (o \in high)}
<1>1. m \in Memory /\ p \notin OutPin
  BY InPinShape
<1>2. /\ high' = {q \in InPin \cup OutPin :
                    IF q = p THEN state ELSE IF q \in Outputs(m) THEN q \in put ELSE q \in high}
      /\ changed' = changed \cup moved
      /\ buffered' = IF moved = {} THEN buffered ELSE buffered \cup {m}
      /\ solve' = IF \E i \in DOMAIN solve : solve[i] = m THEN solve ELSE Append(solve, m)
  BY DEF Change
<1>3. \A q \in InPin : q \notin OutPin /\ q \notin Outputs(m)
  BY InPinShape DEF Outputs
<1>4. \A o \in OutPin : /\ o \in Outputs(m) <=> o[1] = m
                        /\ o # p
  BY <1>1 DEF Outputs
<1>5. \A o \in OutPin : o[1] = m =>
        (o \in put <=> IF "read" \in incantations THEN o[3] \in m_data[m][At(m)] ELSE o \in high)
  BY <1>1, PutOut
<1>6. moved \subseteq OutPin /\ \A o \in moved : o[1] = m
  BY DEF Outputs
<1>7. \A o \in OutPin : o \notin moved => (o[1] = m => (o \in put <=> o \in high))
  BY <1>4
<1>8. /\ changed \subseteq OutPin /\ buffered \subseteq Memory /\ solve \in Seq(Memory)
  BY DEF TypeOK
<1>9. /\ solve' \in Seq(Memory) /\ Range(solve) \subseteq Range(solve') /\ m \in Range(solve')
  <2>1. CASE \E i \in DOMAIN solve : solve[i] = m
    BY <1>2, <1>8, <2>1 DEF Range
  <2>2. CASE ~\E i \in DOMAIN solve : solve[i] = m
    <3>1. solve' = Append(solve, m)
      BY <1>2, <2>2
    <3>. HIDE DEF m
    <3>. QED
      BY <1>1, <1>8, <3>1, AppendElements
  <2>. QED
    BY <2>1, <2>2
<1>. HIDE DEF m, put, moved
<1>10. /\ high' \subseteq InPin \cup OutPin
       /\ \A q \in InPin : q \in high' <=> IF q = p THEN state ELSE q \in high
  BY <1>2, <1>3
<1>11. \A o \in OutPin : o \in high' <=> IF o[1] = m THEN o \in put ELSE o \in high
  BY <1>2, <1>4
<1>12. \A o \in OutPin : o \in high' <=>
         IF o[1] = m /\ "read" \in incantations THEN o[3] \in m_data[m][At(m)] ELSE o \in high
  BY <1>5, <1>11
<1>13. /\ changed' \subseteq OutPin /\ changed \subseteq changed'
       /\ \A o \in OutPin : o \in changed' \/ (o \in high' <=> o \in high)
  BY <1>2, <1>6, <1>7, <1>8, <1>11
<1>14. /\ buffered \subseteq buffered' /\ buffered' \subseteq buffered \cup {m}
       /\ \A o \in changed' : o \in changed \/ o[1] \in buffered'
  BY <1>2, <1>6
<1>. QED
  BY <1>1, <1>8, <1>9, <1>10, <1>12, <1>13, <1>14 DEF m

\* Everything that Device::Set of the next pin does.
LEMMA SetEffect ==
  ASSUME TypeOK, Set, NEW p, NEW state, Head(wave) = <<p, state>>
  PROVE  LET fires == (p \in high) # state
             incantations == IF p[2] = "clk" THEN Incantations(p[1], state) ELSE {}
         IN
         /\ p \in InPin /\ state \in BOOLEAN
         /\ wave' = Tail(wave) /\ wave' \in Seq(InPin \X BOOLEAN)
         /\ Len(wave) \in Nat \ {0} /\ Len(wave') = Len(wave) - 1
         /\ DOMAIN wave = 1 .. Len(wave) /\ DOMAIN wave' = 1 .. Len(wave')
         /\ \A i \in 1 .. Len(wave) - 1 : wave'[i] = wave[i + 1]
         /\ wave[1] = <<p, state>>
         /\ high' \subseteq InPin \cup OutPin /\ changed' \subseteq OutPin
         /\ \A q \in InPin : q \in high' <=> IF q = p THEN state ELSE q \in high
         /\ \A o \in OutPin : o \in high' <=>
              IF o[1] = p[1] /\ fires /\ "read" \in incantations
              THEN o[3] \in m_data[p[1]][At(p[1])] ELSE o \in high
         /\ changed \subseteq changed'
         /\ \A o \in OutPin : o \in changed' \/ (o \in high' <=> o \in high)
         /\ \A o \in changed' : o \in changed \/ o[1] \in buffered'
         /\ buffered \subseteq buffered' /\ buffered' \subseteq buffered \cup Range(solve')
         /\ buffered' \subseteq Memory
         /\ solve' \in Seq(Memory) /\ Range(solve) \subseteq Range(solve')
         /\ m_data' \in [Memory -> AnyContent]
         /\ \A n \in Memory : m_data'[n] \in Content(n)
         /\ \A n \in Memory : m_data'[n] =
              IF n = p[1] /\ fires /\ "write" \in incantations
              THEN Written(n) ELSE m_data[n]
         /\ UNCHANGED <<level, this_tick, next_tick, solving, driven, before, fed>>
<1>. DEFINE fires == (p \in high) # state
            incantations == IF p[2] = "clk" THEN Incantations(p[1], state) ELSE {}
<1>1. wave \in Seq(InPin \X BOOLEAN) /\ wave # <<>> /\ wave' = Tail(wave)
  BY DEF Set, TypeOK
<1>2. /\ Len(wave) \in Nat \ {0} /\ wave' \in Seq(InPin \X BOOLEAN)
      /\ Len(wave') = Len(wave) - 1 /\ DOMAIN wave = 1 .. Len(wave) /\ DOMAIN wave' = 1 .. Len(wave')
      /\ \A i \in 1 .. Len(wave) - 1 : wave'[i] = wave[i + 1]
      /\ wave[1] = Head(wave)
  BY <1>1
<1>3. p \in InPin /\ state \in BOOLEAN
  <2>1. Head(wave) \in InPin \X BOOLEAN
    BY <1>1
  <2>. QED
    BY <2>1
<1>4. /\ IF (p \in high) = state THEN UNCHANGED <<pins, m_data, solve>>
         ELSE Change(p, state, incantations)
      /\ UNCHANGED <<level, this_tick, next_tick, solving, driven, before, fed>>
  <2>1. Head(wave)[1] = p /\ Head(wave)[2] = state
    OBVIOUS
  <2>. QED
    BY <2>1 DEF Set, loop
<1>. HIDE DEF incantations
<1>5. CASE (p \in high) = state
  <2>1. UNCHANGED <<high, changed, buffered, m_data, solve>> /\ ~fires
    BY <1>4, <1>5 DEF pins
  <2>2. /\ high \subseteq InPin \cup OutPin /\ changed \subseteq OutPin /\ buffered \subseteq Memory
        /\ solve \in Seq(Memory) /\ m_data \in [Memory -> AnyContent]
        /\ \A n \in Memory : m_data[n] \in Content(n)
    BY DEF TypeOK
  <2>3. \A q \in InPin : q \in high <=> IF q = p THEN state ELSE q \in high
    BY <1>3, <1>5
  <2>4. /\ high' \subseteq InPin \cup OutPin /\ changed' \subseteq OutPin
        /\ \A q \in InPin : q \in high' <=> IF q = p THEN state ELSE q \in high
        /\ \A o \in OutPin : o \in high' <=> o \in high
        /\ changed \subseteq changed'
        /\ \A o \in changed' : o \in changed \/ o[1] \in buffered'
        /\ buffered \subseteq buffered' /\ buffered' \subseteq buffered \cup Range(solve')
        /\ buffered' \subseteq Memory
        /\ solve' \in Seq(Memory) /\ Range(solve) \subseteq Range(solve')
    <3>. HIDE DEF fires
    <3>. QED
      BY <2>1, <2>2, <2>3
  <2>5. /\ m_data' \in [Memory -> AnyContent]
        /\ \A n \in Memory : m_data'[n] \in Content(n)
        /\ \A n \in Memory : m_data'[n] = m_data[n]
    BY <2>1, <2>2
  <2>6. /\ \A o \in OutPin : o \in high' <=>
             IF o[1] = p[1] /\ fires /\ "read" \in incantations
             THEN o[3] \in m_data[p[1]][At(p[1])] ELSE o \in high
        /\ \A n \in Memory : m_data'[n] =
             IF n = p[1] /\ fires /\ "write" \in incantations
             THEN Written(n) ELSE m_data[n]
        /\ \A o \in OutPin : o \in changed' \/ (o \in high' <=> o \in high)
    <3>. HIDE DEF fires
    <3>. QED
      BY <2>1, <2>4, <2>5
  <2>7. UNCHANGED <<level, this_tick, next_tick, solving, driven, before, fed>>
    BY <1>4
  <2>. QED
    BY <1>1, <1>2, <1>3, <2>4, <2>5, <2>6, <2>7, Zenon DEF incantations
<1>6. CASE fires
  <2>1. Change(p, state, incantations)
    BY <1>3, <1>4, <1>6
  <2>2. m_data' = Store(p[1], incantations) /\ p[1] \in Memory
    BY <1>3, <2>1, InPinShape DEF Change
  <2>3. /\ m_data' \in [Memory -> AnyContent]
        /\ \A n \in Memory : m_data'[n] \in Content(n)
        /\ \A n \in Memory : m_data'[n] =
              IF n = p[1] /\ "write" \in incantations
              THEN Written(n) ELSE m_data[n]
    BY <2>2, Stored
  <2>4. /\ high' \subseteq InPin \cup OutPin /\ changed' \subseteq OutPin
        /\ \A q \in InPin : q \in high' <=> IF q = p THEN state ELSE q \in high
        /\ \A o \in OutPin : o \in high' <=>
             IF o[1] = p[1] /\ "read" \in incantations THEN o[3] \in m_data[p[1]][At(p[1])]
             ELSE o \in high
        /\ changed \subseteq changed'
        /\ \A o \in OutPin : o \in changed' \/ (o \in high' <=> o \in high)
        /\ \A o \in changed' : o \in changed \/ o[1] \in buffered'
        /\ buffered \subseteq buffered' /\ buffered' \subseteq buffered \cup Range(solve')
        /\ buffered' \subseteq Memory
        /\ solve' \in Seq(Memory) /\ Range(solve) \subseteq Range(solve')
    BY <1>3, <2>1, ChangeEffect
  <2>. QED
    BY <1>1, <1>2, <1>3, <1>4, <1>6, <2>3, <2>4, Zenon DEF incantations
<1>. QED
  BY <1>3, <1>5, <1>6

-----------------------------------------------------------------------------
(* The inductive invariant.                                                *)

\* A changed out pin waits for its Device to be solved or to propagate.
Queued ==
  /\ ~solving => this_tick = <<>> /\ next_tick = <<>>
  /\ \A o \in changed : o[1] \in buffered \cup Range(next_tick) \cup Range(this_tick)
  /\ buffered \subseteq Range(solve)

\* A pin that nothing drives stays low.
Undriven == \A q \in InPin : q \in high => \E x \in Source \cup OutPin : q \in Drives(x)

\* What an out pin drives has its state, or is about to get it.
OutFollows ==
  \A o \in OutPin : \A i \in DOMAIN Target[o] :
    \/ o \in changed
    \/ \E j \in DOMAIN wave : wave[j] = <<Target[o][i], o \in high>>
    \/ Target[o][i] \in high <=> o \in high

\* In a Solve only out pins set pins.
SolvingWave ==
  solving /\ wave # <<>> =>
    \E o \in OutPin : \A j \in DOMAIN wave :
      \E i \in DOMAIN Target[o] : wave[j] = <<Target[o][i], o \in high>>

\* What a source drives has its state, but while that source is setting it.
SourceFollows ==
  solving \/ wave = <<>> =>
    \A s \in Source : \A i \in DOMAIN Target[s] : Target[s][i] \in high <=> level[s]

\* Out of a Solve what an out pin drives is as the last Solve has left it.
FedFollows ==
  ~solving => \A o \in OutPin : \A i \in DOMAIN Target[o] : Target[o][i] \in high <=> o \in fed

\* The source s has set the first k of the pins it drives, and the memories whose clk is
\* one of those have done what the edge asks of them; all else is as it was before.
Done(s, k, m) == \E i \in 1 .. k : Target[s][i] = <<m, "clk">>
After(s, m) ==
  [Mapped.stored[m] EXCEPT ![Clocked!At(s, m)] = Clocked!Bus(s, m, "d_in", DataWidth[m])]
Flight(s, k) ==
  /\ k \in 0 .. Len(Target[s]) - 1 /\ Len(wave) = Len(Target[s]) - k
  /\ \A j \in DOMAIN wave : wave[j] = <<Target[s][k + j], level[s]>>
  /\ level = [Mapped.level EXCEPT ![s] = ~Mapped.level[s]]
  /\ \A i \in DOMAIN Target[s] : Target[s][i] \in high <=> (level[s] <=> i <= k)
  /\ \A x \in Source \ {s} : \A i \in DOMAIN Target[x] : Target[x][i] \in high <=> level[x]
  /\ \A o \in OutPin : o \in high <=>
       IF Done(s, k, o[1]) /\ Clocked!Reads(s, o[1])
       THEN o[3] \in Mapped.stored[o[1]][Clocked!At(s, o[1])] ELSE o \in Mapped.shown
  /\ \A m \in Memory : m_data[m] =
       IF Done(s, k, m) /\ Clocked!Writes(s, m)
       THEN After(s, m) ELSE Mapped.stored[m]
InFlight == ~solving /\ wave # <<>> => \E s \in Source : \E k \in Nat : Flight(s, k)

MemInv ==
  TypeOK /\ Queued /\ Undriven /\ OutFollows /\ SolvingWave /\ SourceFollows /\ FedFollows /\ InFlight

\* What goes out to the pins that x drives.
Sent(x, state) == [i \in DOMAIN Target[x] |-> <<Target[x][i], state>>]

LEMMA SentTypes ==
  ASSUME NEW x \in Source \cup OutPin, NEW state \in BOOLEAN
  PROVE  /\ Sent(x, state) \in Seq(InPin \X BOOLEAN)
         /\ Len(Sent(x, state)) = Len(Target[x])
         /\ DOMAIN Sent(x, state) = DOMAIN Target[x]
         /\ \A i \in DOMAIN Target[x] : Sent(x, state)[i] = <<Target[x][i], state>>
         /\ Sent(x, state) = <<>> <=> DOMAIN Target[x] = {}
<1>1. /\ Len(Target[x]) \in Nat /\ DOMAIN Target[x] = 1 .. Len(Target[x])
      /\ \A i \in DOMAIN Target[x] : Target[x][i] \in InPin
  BY TargetTypes
<1>2. Sent(x, state) = [i \in 1 .. Len(Target[x]) |-> <<Target[x][i], state>>]
  BY <1>1 DEF Sent
<1>3. \A i \in 1 .. Len(Target[x]) : <<Target[x][i], state>> \in InPin \X BOOLEAN
  BY <1>1
<1>4. /\ Sent(x, state) \in Seq(InPin \X BOOLEAN) /\ Len(Sent(x, state)) = Len(Target[x])
      /\ DOMAIN Sent(x, state) = 1 .. Len(Target[x])
      /\ \A i \in 1 .. Len(Target[x]) : Sent(x, state)[i] = <<Target[x][i], state>>
  BY <1>1, <1>2, <1>3
<1>5. Sent(x, state) = <<>> <=> DOMAIN Target[x] = {}
  BY <1>1, <1>4
<1>. QED
  BY <1>1, <1>4, <1>5

\* The lines of a file, and empty words, are words.
LEMMA Configured ==
  ASSUME NEW m \in Memory
  PROVE  Configure(m) \in Content(m)
<1>. DEFINE Line(a) == IF m \in Rom /\ Number(m, a) + 1 \in DOMAIN Rows[m]
                       THEN Rows[m][Number(m, a) + 1] ELSE {}
<1>1. \A a \in Address(m) : Line(a) \in SUBSET (0 .. DataWidth[m] - 1)
  <2>. TAKE a \in Address(m)
  <2>. DEFINE n == Number(m, a) + 1
  <2>1. CASE m \in Rom /\ n \in DOMAIN Rows[m]
    <3>. HIDE DEF n
    <3>1. Rows[m][n] \subseteq 0 .. DataWidth[m] - 1
      BY <2>1, MemoryAssumption
    <3>2. Line(a) = Rows[m][n]
      BY <2>1 DEF n
    <3>. QED
      BY <3>1, <3>2
  <2>2. CASE ~(m \in Rom /\ n \in DOMAIN Rows[m])
    BY <2>2
  <2>. QED
    BY <2>1, <2>2
<1>2. Configure(m) = [a \in Address(m) |-> Line(a)]
  BY DEF Configure
<1>. HIDE DEF Line
<1>. QED
  BY <1>1, <1>2 DEF Content

\* The observer sees the change as made once the last pin is set.
LEMMA MappedTo ==
  /\ wave = <<>> \/ solving => Mapped = Now
  /\ wave # <<>> /\ ~solving => Mapped = before
  /\ Now.level = level /\ Now.shown = OutPin \cap high /\ Now.stored = m_data
<1>1. Now.level = level /\ Now.shown = OutPin \cap high /\ Now.stored = m_data
  BY DEF Now
<1>2. /\ wave = <<>> \/ solving => Mapped = Now
      /\ wave # <<>> /\ ~solving => Mapped = before
  BY DEF Mapped
<1>. QED
  BY <1>1, <1>2

-----------------------------------------------------------------------------
(* The invariant holds to begin with and every step keeps it.              *)

LEMMA MemInit == Init => MemInv
<1>. SUFFICES ASSUME Init PROVE MemInv
  OBVIOUS
<1>. USE DEF Init
<1>1. m_data \in [Memory -> AnyContent] /\ \A m \in Memory : m_data[m] \in Content(m)
  <2>1. \A m \in Memory : Configure(m) \in Content(m) /\ Configure(m) \in AnyContent
    BY Configured DEF AnyContent
  <2>. QED
    BY <2>1
<1>2. level \in [Source -> BOOLEAN] /\ before.level = level /\ before.shown = {}
  <2>1. before.level = level /\ before.shown = OutPin \cap high
    BY DEF Now
  <2>. QED
    BY <2>1
<1>3. TypeOK
  <2>1. /\ high \subseteq InPin \cup OutPin /\ changed \subseteq OutPin /\ fed \subseteq OutPin
        /\ buffered \subseteq Memory /\ wave \in Seq(InPin \X BOOLEAN)
        /\ solve \in Seq(Memory) /\ this_tick \in Seq(Memory) /\ next_tick \in Seq(Memory)
        /\ solving \in BOOLEAN /\ driven \subseteq Source
    <3>1. /\ high = {} /\ changed = {} /\ fed = {} /\ buffered = {} /\ wave = <<>>
          /\ solve = <<>> /\ this_tick = <<>> /\ next_tick = <<>>
          /\ solving = FALSE /\ driven = {}
      OBVIOUS
    <3>. HIDE DEF Init
    <3>2. /\ wave \in Seq(InPin \X BOOLEAN) /\ solve \in Seq(Memory)
          /\ this_tick \in Seq(Memory) /\ next_tick \in Seq(Memory)
      BY <3>1
    <3>3. /\ high \subseteq InPin \cup OutPin /\ changed \subseteq OutPin /\ fed \subseteq OutPin
          /\ buffered \subseteq Memory /\ driven \subseteq Source
      BY <3>1
    <3>4. solving \in BOOLEAN
      BY <3>1
    <3>. QED
      BY <3>2, <3>3, <3>4
  <2>. HIDE DEF Init
  <2>. QED
    BY <1>1, <1>2, <2>1 DEF TypeOK
<1>4. \A x \in Source \cup OutPin : \A i \in DOMAIN Target[x] : Target[x][i] \notin high
  OBVIOUS
<1>5. Queued /\ Undriven
  BY DEF Queued, Undriven
<1>6. OutFollows /\ SourceFollows /\ FedFollows
  BY DEF OutFollows, SourceFollows, FedFollows
<1>7. SolvingWave /\ InFlight
  BY DEF SolvingWave, InFlight
<1>. QED
  BY <1>3, <1>5, <1>6, <1>7 DEF MemInv

\* What the steps that set no pin leave as it was.
LEMMA NothingSet ==
  ASSUME UNCHANGED <<level, high, m_data>>
  PROVE  Undriven => Undriven'
<1>. QED
  BY DEF Undriven, Drives

LEMMA BeginSolveKeeps == MemInv /\ BeginSolve => MemInv'
<1>. SUFFICES ASSUME MemInv, BeginSolve PROVE MemInv'
  OBVIOUS
<1>1. /\ wave = <<>> /\ wave' = <<>> /\ ~solving /\ solving' /\ driven' = {} /\ solving' = TRUE
      /\ UNCHANGED <<level, high, changed, buffered, m_data, solve, this_tick, next_tick, before, fed>>
  BY DEF BeginSolve, Idle, pins, queues
<1>2. TypeOK'
  BY <1>1 DEF MemInv, TypeOK
<1>3. Queued' /\ Undriven'
  BY <1>1, NothingSet DEF MemInv, Queued
<1>4. OutFollows'
  BY <1>1 DEF MemInv, OutFollows
<1>5. SourceFollows'
  BY <1>1 DEF MemInv, SourceFollows
<1>6. SolvingWave' /\ FedFollows' /\ InFlight'
  BY <1>1 DEF SolvingWave, FedFollows, InFlight
<1>. QED
  BY <1>2, <1>3, <1>4, <1>5, <1>6 DEF MemInv

LEMMA SolveChildKeeps == MemInv /\ SolveChild => MemInv'
<1>. SUFFICES ASSUME MemInv, SolveChild PROVE MemInv'
  OBVIOUS
<1>1. /\ wave = <<>> /\ wave' = <<>> /\ solving /\ solving'
      /\ UNCHANGED <<level, high, changed, m_data, this_tick, solving, driven, before, fed>>
  BY DEF SolveChild, loop
<1>2. /\ solve # <<>> /\ solve' = Tail(solve)
      /\ next_tick' = IF Head(solve) \in buffered THEN Append(next_tick, Head(solve)) ELSE next_tick
      /\ buffered' = buffered \ {Head(solve)}
  BY DEF SolveChild
<1>3. solve \in Seq(Memory) /\ next_tick \in Seq(Memory)
  BY DEF MemInv, TypeOK
<1>4. /\ Head(solve) \in Memory /\ solve' \in Seq(Memory)
      /\ Range(solve) = Range(solve') \cup {Head(solve)}
  BY <1>2, <1>3, PopElements
<1>5. /\ next_tick' \in Seq(Memory) /\ Range(next_tick) \subseteq Range(next_tick')
      /\ Head(solve) \in buffered => Head(solve) \in Range(next_tick')
  BY <1>2, <1>3, <1>4, AppendElements
<1>6. TypeOK'
  BY <1>1, <1>2, <1>4, <1>5 DEF MemInv, TypeOK
<1>7. Queued'
  BY <1>1, <1>2, <1>4, <1>5 DEF MemInv, Queued
<1>8. OutFollows'
  BY <1>1 DEF MemInv, OutFollows
<1>9. SourceFollows' /\ Undriven'
  BY <1>1, NothingSet DEF MemInv, SourceFollows
<1>10. SolvingWave' /\ FedFollows' /\ InFlight'
  BY <1>1 DEF SolvingWave, FedFollows, InFlight
<1>. QED
  BY <1>6, <1>7, <1>8, <1>9, <1>10 DEF MemInv

LEMMA BeginSubTickKeeps == MemInv /\ BeginSubTick => MemInv'
<1>. SUFFICES ASSUME MemInv, BeginSubTick PROVE MemInv'
  OBVIOUS
<1>1. /\ wave = <<>> /\ wave' = <<>> /\ solving /\ solving' /\ solve = <<>> /\ solve' = <<>>
      /\ this_tick = <<>> /\ this_tick' = next_tick /\ next_tick' = <<>>
      /\ UNCHANGED <<level, high, changed, buffered, m_data, solving, driven, before, fed>>
  BY DEF BeginSubTick, pins, loop
<1>2. TypeOK'
  <2>1. wave' \in Seq(InPin \X BOOLEAN) /\ solve' \in Seq(Memory) /\ next_tick' \in Seq(Memory)
    BY <1>1
  <2>. QED
    BY <1>1, <2>1 DEF MemInv, TypeOK
<1>3. Queued'
  <2>1. Range(this_tick) = {}
    BY <1>1 DEF Range
  <2>. QED
    BY <1>1, <2>1 DEF MemInv, Queued
<1>4. OutFollows'
  BY <1>1 DEF MemInv, OutFollows
<1>5. SourceFollows' /\ Undriven'
  BY <1>1, NothingSet DEF MemInv, SourceFollows
<1>6. SolvingWave' /\ FedFollows' /\ InFlight'
  BY <1>1 DEF SolvingWave, FedFollows, InFlight
<1>. QED
  BY <1>2, <1>3, <1>4, <1>5, <1>6 DEF MemInv

\* At the end of a Solve nothing is queued, so no change of an out pin is pending.
LEMMA EndSolveKeeps == MemInv /\ EndSolve => MemInv'
<1>. SUFFICES ASSUME MemInv, EndSolve PROVE MemInv'
  OBVIOUS
<1>1. /\ wave = <<>> /\ wave' = <<>> /\ solving /\ ~solving' /\ solving' = FALSE
      /\ solve = <<>> /\ this_tick = <<>> /\ next_tick = <<>> /\ fed' = OutPin \cap high
      /\ UNCHANGED <<level, high, changed, buffered, m_data, solve, this_tick, next_tick, driven, before>>
  BY DEF EndSolve, pins, queues
<1>2. TypeOK'
  BY <1>1 DEF MemInv, TypeOK
<1>3. Range(solve) = {} /\ Range(this_tick) = {} /\ Range(next_tick) = {}
  BY <1>1 DEF Range
<1>4. changed = {}
  BY <1>3 DEF MemInv, Queued
<1>5. Queued' /\ Undriven'
  BY <1>1, <1>4, NothingSet DEF MemInv, Queued
<1>6. OutFollows'
  BY <1>1 DEF MemInv, OutFollows
<1>7. SourceFollows'
  BY <1>1 DEF MemInv, SourceFollows
<1>8. FedFollows'
  <2>1. \A o \in OutPin : \A i \in DOMAIN Target[o] : Target[o][i] \in high <=> o \in high
    <3>1. DOMAIN wave = {}
      BY <1>1
    <3>. QED
      BY <1>4, <3>1 DEF MemInv, OutFollows
  <2>. QED
    BY <1>1, <2>1 DEF FedFollows
<1>9. SolvingWave' /\ InFlight'
  BY <1>1 DEF SolvingWave, InFlight
<1>. QED
  BY <1>2, <1>5, <1>6, <1>7, <1>8, <1>9 DEF MemInv

\* A changed out pin that propagates is on its way to all the pins it drives.
LEMMA PropagateKeeps == MemInv /\ Propagate => MemInv'
<1>. SUFFICES ASSUME MemInv, Propagate PROVE MemInv'
  OBVIOUS
<1>. DEFINE mine == changed \cap Outputs(Head(this_tick))
<1>1. /\ wave = <<>> /\ solving /\ solving' /\ this_tick # <<>>
      /\ UNCHANGED <<level, high, buffered, m_data, solve, next_tick, solving, driven, before, fed>>
  BY DEF Propagate, loop
<1>2. /\ this_tick \in Seq(Memory) /\ Head(this_tick) \in Memory /\ Tail(this_tick) \in Seq(Memory)
      /\ Range(this_tick) = Range(Tail(this_tick)) \cup {Head(this_tick)}
  <2>1. this_tick \in Seq(Memory)
    BY DEF MemInv, TypeOK
  <2>. QED
    BY <1>1, <2>1, PopElements
<1>3. SourceFollows' /\ Undriven'
  BY <1>1, NothingSet DEF MemInv, SourceFollows
<1>4. FedFollows' /\ InFlight'
  BY <1>1 DEF FedFollows, InFlight
<1>5. CASE mine = {}
  <2>1. this_tick' = Tail(this_tick) /\ UNCHANGED <<changed, wave>>
    BY <1>5 DEF Propagate
  <2>2. TypeOK'
    BY <1>1, <1>2, <2>1 DEF MemInv, TypeOK
  <2>3. Queued'
    <3>1. \A o \in changed : o[1] # Head(this_tick)
      BY <1>5 DEF MemInv, TypeOK, Outputs
    <3>. HIDE DEF mine
    <3>. QED
      BY <1>1, <1>2, <2>1, <3>1 DEF MemInv, Queued
  <2>4. OutFollows'
    BY <1>1, <2>1 DEF MemInv, OutFollows
  <2>5. SolvingWave'
    BY <1>1, <2>1 DEF SolvingWave
  <2>. QED
    BY <1>3, <1>4, <2>2, <2>3, <2>4, <2>5 DEF MemInv
<1>6. CASE mine # {}
  <2>1. PICK o \in mine : /\ wave' = Sent(o, o \in high)
                          /\ changed' = changed \ {o} /\ UNCHANGED this_tick
    BY <1>6 DEF Propagate, Sent
  <2>2. o \in OutPin /\ o \in changed
    BY DEF Outputs
  <2>. HIDE DEF mine
  <2>3. /\ wave' \in Seq(InPin \X BOOLEAN) /\ DOMAIN wave' = DOMAIN Target[o]
        /\ \A i \in DOMAIN Target[o] : wave'[i] = <<Target[o][i], o \in high>>
    <3>1. o \in Source \cup OutPin /\ (o \in high) \in BOOLEAN
      BY <2>2
    <3>2. /\ Sent(o, o \in high) \in Seq(InPin \X BOOLEAN)
          /\ DOMAIN Sent(o, o \in high) = DOMAIN Target[o]
          /\ \A i \in DOMAIN Target[o] : Sent(o, o \in high)[i] = <<Target[o][i], o \in high>>
      BY <3>1, SentTypes, Zenon
    <3>. QED
      BY <2>1, <3>2, Zenon
  <2>4. TypeOK'
    BY <1>1, <2>1, <2>3 DEF MemInv, TypeOK
  <2>5. Queued'
    BY <1>1, <2>1 DEF MemInv, Queued
  <2>6. OutFollows'
    <3>. SUFFICES ASSUME NEW u \in OutPin, NEW i \in DOMAIN Target[u]
                  PROVE  \/ u \in changed'
                         \/ \E j \in DOMAIN wave' : wave'[j] = <<Target[u][i], (u \in high)'>>
                         \/ (Target[u][i] \in high <=> u \in high)'
      BY DEF OutFollows
    <3>1. CASE u = o
      BY <1>1, <2>3, <3>1
    <3>2. CASE u # o
      <4>1. u \in changed \/ (Target[u][i] \in high <=> u \in high)
        <5>1. DOMAIN wave = {}
          BY <1>1
        <5>. QED
          BY <5>1 DEF MemInv, OutFollows
      <4>. QED
        BY <1>1, <2>1, <3>2, <4>1
    <3>. QED
      BY <3>1, <3>2
  <2>7. SolvingWave'
    <3>1. \A j \in DOMAIN wave' : \E i \in DOMAIN Target[o] : wave'[j] = <<Target[o][i], (o \in high)'>>
      BY <1>1, <2>3
    <3>. QED
      BY <2>2, <3>1 DEF SolvingWave
  <2>. QED
    BY <1>3, <1>4, <2>4, <2>5, <2>6, <2>7 DEF MemInv
<1>. QED
  BY <1>5, <1>6

\* A source that changes is about to set the pins it drives.
LEMMA DriveKeeps ==
  ASSUME MemInv, NEW s \in Source, Drive(s)
  PROVE  MemInv'
<1>1. /\ wave = <<>> /\ ~solving /\ ~solving' /\ driven' = driven \cup {s}
      /\ level' = [level EXCEPT ![s] = ~level[s]] /\ before' = Now
      /\ wave' = Sent(s, ~level[s])
      /\ UNCHANGED <<high, changed, buffered, m_data, solve, this_tick, next_tick, solving, fed>>
  BY DEF Drive, Idle, pins, Sent
<1>2. /\ level \in [Source -> BOOLEAN] /\ level' \in [Source -> BOOLEAN]
      /\ level'[s] = ~level[s] /\ (~level[s]) \in BOOLEAN
      /\ \A x \in Source \ {s} : level'[x] = level[x]
  <2>1. level \in [Source -> BOOLEAN]
    BY DEF MemInv, TypeOK
  <2>2. (~level[s]) \in BOOLEAN
    BY <2>1
  <2>3. /\ level' \in [Source -> BOOLEAN] /\ level'[s] = ~level[s]
        /\ \A x \in Source \ {s} : level'[x] = level[x]
    <3>1. level' = [level EXCEPT ![s] = ~level[s]]
      BY <1>1, Zenon
    <3>2. ASSUME NEW b \in BOOLEAN, level' = [level EXCEPT ![s] = b]
          PROVE  /\ level' \in [Source -> BOOLEAN] /\ level'[s] = b
                 /\ \A x \in Source \ {s} : level'[x] = level[x]
      BY <2>1, <3>2
    <3>. QED
      BY <2>2, <3>1, <3>2, Zenon
  <2>. QED
    BY <2>1, <2>2, <2>3
<1>3. /\ wave' \in Seq(InPin \X BOOLEAN) /\ Len(wave') = Len(Target[s])
      /\ DOMAIN wave' = DOMAIN Target[s]
      /\ \A i \in DOMAIN Target[s] : wave'[i] = <<Target[s][i], ~level[s]>>
      /\ wave' = <<>> <=> DOMAIN Target[s] = {}
  BY <1>1, <1>2, SentTypes
<1>4. before'.level = level /\ before'.shown = OutPin \cap high /\ before'.stored = m_data
  BY <1>1, MappedTo
<1>5. TypeOK'
  BY <1>1, <1>2, <1>3, <1>4 DEF MemInv, TypeOK
<1>6. Queued'
  BY <1>1 DEF MemInv, Queued
<1>7. Undriven' /\ FedFollows'
  BY <1>1 DEF MemInv, Undriven, Drives, FedFollows
<1>8. OutFollows'
  <2>1. DOMAIN wave = {}
    BY <1>1
  <2>. QED
    BY <1>1, <2>1 DEF MemInv, OutFollows
<1>9. \A x \in Source : \A i \in DOMAIN Target[x] : Target[x][i] \in high <=> level[x]
  BY <1>1 DEF MemInv, SourceFollows
<1>10. SolvingWave'
  BY <1>1 DEF SolvingWave
<1>11. SourceFollows'
  BY <1>1, <1>2, <1>3, <1>9 DEF SourceFollows
<1>12. InFlight'
  <2>. SUFFICES ASSUME wave' # <<>> PROVE Flight(s, 0)'
    BY DEF InFlight
  <2>1. /\ Mapped'.level = level /\ Mapped'.shown = OutPin \cap high
        /\ Mapped'.stored = m_data
    BY <1>1, <1>4 DEF Mapped
  <2>2. /\ 0 \in 0 .. Len(Target[s]) - 1 /\ Len(wave') = Len(Target[s]) - 0
        /\ \A j \in DOMAIN wave' : 0 + j = j
        /\ \A j \in DOMAIN Target[s] : ~(j <= 0)
    BY <1>3, TargetTypes
  <2>3. /\ \A j \in DOMAIN wave' : wave'[j] = <<Target[s][0 + j], level'[s]>>
        /\ level' = [Mapped'.level EXCEPT ![s] = ~Mapped'.level[s]]
    BY <1>1, <1>2, <1>3, <2>1, <2>2
  <2>4. /\ \A i \in DOMAIN Target[s] : Target[s][i] \in high' <=> (level'[s] <=> i <= 0)
        /\ \A x \in Source \ {s} : \A i \in DOMAIN Target[x] : Target[x][i] \in high' <=> level'[x]
    BY <1>1, <1>2, <1>9, <2>2
  <2>5. \A m : ~Done(s, 0, m)
    BY DEF Done
  <2>6. \A m : ~Done(s, 0, m)'
    BY DEF Done
  <2>7. \A o \in OutPin : o \in high' <=>
          IF Done(s, 0, o[1])' /\ Clocked!Reads(s, o[1])'
          THEN o[3] \in Mapped'.stored[o[1]][Clocked!At(s, o[1])'] ELSE o \in Mapped'.shown
    BY <1>1, <2>1, <2>6
  <2>8. \A m \in Memory : m_data'[m] =
          IF Done(s, 0, m)' /\ Clocked!Writes(s, m)'
          THEN After(s, m)' ELSE Mapped'.stored[m]
    BY <1>1, <2>1, <2>6
  <2>. QED
    BY <2>2, <2>3, <2>4, <2>7, <2>8, Zenon DEF Flight
<1>. QED
  BY <1>5, <1>6, <1>7, <1>8, <1>10, <1>11, <1>12 DEF MemInv

-----------------------------------------------------------------------------
(* The edge of a clock.                                                    *)

\* What the edge of s asks of m is settled by what there was before it.
LEMMA Steady ==
  ASSUME Mapped' = Mapped, fed' = fed, NEW s, NEW m
  PROVE  /\ Clocked!Reads(s, m)' <=> Clocked!Reads(s, m)
         /\ Clocked!Writes(s, m)' <=> Clocked!Writes(s, m)
         /\ Clocked!At(s, m)' = Clocked!At(s, m)
         /\ After(s, m)' = After(s, m)
<1>. QED
  BY DEF Clocked!Reads, Clocked!Writes, Clocked!At, Clocked!Bus, Clocked!Edge, Clocked!Seen,
         Clocked!High, After

\* When the edge gets to m, every pin is what the abstract memories see: what s has set
\* already is new, what it sets later is old, and what other memories have put out
\* meanwhile has reached no pin.
LEMMA SeenNow ==
  ASSUME MemInv, ~solving, wave # <<>>, NEW s \in Source, NEW k \in Nat, Flight(s, k),
         NEW m \in Memory, Target[s][k + 1] = <<m, "clk">>, NEW q \in InPin
  PROVE  Clocked!Seen(s, m, q) <=> q \in high
<1>1. /\ k + 1 \in DOMAIN Target[s]
      /\ \A i \in DOMAIN Target[s] : i \in Nat /\ (i <= k <=> i < k + 1)
  <2>1. k \in 0 .. Len(Target[s]) - 1
    BY DEF Flight
  <2>. QED
    BY <2>1, TargetTypes
<1>2. /\ \A x \in Source : Mapped.level[x] \in BOOLEAN
      /\ level[s] <=> ~Mapped.level[s]
      /\ \A x \in Source \ {s} : level[x] <=> Mapped.level[x]
  <2>1. Mapped.level \in [Source -> BOOLEAN]
    BY MappedTo DEF MemInv, TypeOK
  <2>2. level = [Mapped.level EXCEPT ![s] = ~Mapped.level[s]]
    BY DEF Flight
  <2>. QED
    BY <2>1, <2>2
<1>3. /\ \A x \in Source : x \in Clocked!High <=> Mapped.level[x]
      /\ \A o \in OutPin : o \in Clocked!High <=> o \in fed
      /\ Clocked!High \subseteq Source \cup OutPin
  <2>1. fed \subseteq OutPin /\ Source \cap OutPin = {}
    BY MemoryAssumption DEF MemInv, TypeOK
  <2>2. \A x : x \in Clocked!High <=> (x \in Source /\ Mapped.level[x]) \/ x \in fed
    BY DEF Clocked!High
  <2>. QED
    BY <2>1, <2>2
<1>4. Clocked!Seen(s, m, q) <=>
        \/ \E x \in Clocked!High \ {s} : \E i \in DOMAIN Target[x] : Target[x][i] = q
        \/ \E i, j \in DOMAIN Target[s] :
             /\ Target[s][i] = q /\ Target[s][j] = <<m, "clk">>
             /\ Mapped.level[s] # (i < j)
  BY DEF Clocked!Seen
<1>5. CASE \A x \in Source \cup OutPin : q \notin Drives(x)
  <2>1. \A x \in Source \cup OutPin : \A i \in DOMAIN Target[x] : Target[x][i] # q
    BY <1>5 DEF Drives
  <2>2. q \notin high
    BY <1>5 DEF MemInv, Undriven
  <2>. QED
    BY <1>3, <1>4, <2>1, <2>2
<1>6. ASSUME NEW x \in Source \cup OutPin, x # s, NEW i \in DOMAIN Target[x], Target[x][i] = q
      PROVE  Clocked!Seen(s, m, q) <=> q \in high
  <2>1. \A y \in Source \cup OutPin : \A j \in DOMAIN Target[y] : Target[y][j] = q => y = x
    BY <1>6, SingleDriver
  <2>2. Clocked!Seen(s, m, q) <=> x \in Clocked!High
    BY <1>3, <1>4, <1>6, <2>1
  <2>3. CASE x \in Source
    <3>1. Target[x][i] \in high <=> level[x]
      BY <1>6, <2>3 DEF Flight
    <3>. QED
      BY <1>2, <1>3, <1>6, <2>2, <2>3, <3>1
  <2>4. CASE x \in OutPin
    <3>1. Target[x][i] \in high <=> x \in fed
      BY <1>6, <2>4 DEF MemInv, FedFollows
    <3>. QED
      BY <1>3, <1>6, <2>2, <2>4, <3>1
  <2>. QED
    BY <2>3, <2>4
<1>7. ASSUME NEW i \in DOMAIN Target[s], Target[s][i] = q
      PROVE  Clocked!Seen(s, m, q) <=> q \in high
  <2>1. \A y \in Source \cup OutPin : \A j \in DOMAIN Target[y] : Target[y][j] = q => y = s /\ j = i
    BY <1>7, SingleDriver
  <2>2. \A j \in DOMAIN Target[s] : Target[s][j] = <<m, "clk">> => j = k + 1
    BY <1>1, SingleDriver
  <2>3. Clocked!Seen(s, m, q) <=> Mapped.level[s] # (i < k + 1)
    BY <1>1, <1>3, <1>4, <1>7, <2>1, <2>2
  <2>4. Target[s][i] \in high <=> (level[s] <=> i <= k)
    BY <1>7 DEF Flight
  <2>. QED
    BY <1>1, <1>2, <1>7, <2>3, <2>4
<1>8. (\E x \in Source \cup OutPin : q \in Drives(x)) =>
        \E x \in Source \cup OutPin : \E i \in DOMAIN Target[x] : Target[x][i] = q
  BY DEF Drives
<1>. QED
  BY <1>5, <1>6, <1>7, <1>8

\* So at its clk a memory does what the abstract one does.
LEMMA EngineNow ==
  ASSUME MemInv, ~solving, wave # <<>>, NEW s \in Source, NEW k \in Nat, Flight(s, k),
         NEW m \in Memory, Target[s][k + 1] = <<m, "clk">>
  PROVE  /\ "read" \in Incantations(m, level[s]) <=> Clocked!Reads(s, m)
         /\ "write" \in Incantations(m, level[s]) <=> Clocked!Writes(s, m)
         /\ At(m) = Clocked!At(s, m)
         /\ Bus(m, "d_in", DataWidth[m]) = Clocked!Bus(s, m, "d_in", DataWidth[m])
<1>1. \A q \in InPin : Clocked!Seen(s, m, q) <=> q \in high
  BY SeenNow
<1>2. Clocked!Edge(s, m)
  <2>1. k + 1 \in DOMAIN Target[s]
    <3>1. k \in 0 .. Len(Target[s]) - 1
      BY DEF Flight
    <3>. QED
      BY <3>1, TargetTypes
  <2>. QED
    BY <2>1 DEF Clocked!Edge
<1>3. level[s] \in BOOLEAN /\ (level[s] <=> ~Mapped.level[s])
  <2>1. Mapped.level \in [Source -> BOOLEAN]
    BY MappedTo DEF MemInv, TypeOK
  <2>2. level = [Mapped.level EXCEPT ![s] = ~Mapped.level[s]]
    BY DEF Flight
  <2>. QED
    BY <2>1, <2>2
<1>4. /\ Clocked!Reads(s, m) <=>
           /\ <<m, "read">> \in high
           /\ IF m \in Ram THEN level[s] /\ <<m, "write">> \notin high ELSE ~level[s]
      /\ Clocked!Writes(s, m) <=>
           m \in Ram /\ level[s] /\ <<m, "write">> \in high /\ <<m, "read">> \notin high
  <2>1. /\ Clocked!Seen(s, m, <<m, "read">>) <=> <<m, "read">> \in high
        /\ Clocked!Seen(s, m, <<m, "write">>) <=> <<m, "write">> \in high
    BY <1>1, EnginePins
  <2>. QED
    BY <1>2, <1>3, <2>1 DEF Clocked!Reads, Clocked!Writes
<1>5. At(m) = Clocked!At(s, m)
  <2>1. \A i \in 0 .. AddressWidth[m] - 1 :
          Clocked!Seen(s, m, <<m, "a", i>>) <=> <<m, "a", i>> \in high
    BY <1>1, EnginePins
  <2>. QED
    BY <2>1 DEF At, Bus, Clocked!At, Clocked!Bus
<1>6. Bus(m, "d_in", DataWidth[m]) = Clocked!Bus(s, m, "d_in", DataWidth[m])
  <2>1. \A i \in 0 .. DataWidth[m] - 1 :
          Clocked!Seen(s, m, <<m, "d_in", i>>) <=> <<m, "d_in", i>> \in high
    BY <1>1, EnginePins
  <2>. QED
    BY <2>1 DEF Bus, Clocked!Bus
<1>. QED
  BY <1>3, <1>4, <1>5, <1>6, Fired

\* One more pin of the change of s: where that is a clk, its memory has answered the edge.
LEMMA FlightStep ==
  ASSUME MemInv, ~solving, Set, NEW s \in Source, NEW k \in Nat, Flight(s, k)
  PROVE  /\ k + 1 \in DOMAIN Target[s] /\ DOMAIN Target[s] = 1 .. Len(Target[s])
         /\ Len(Target[s]) \in Nat /\ Len(wave') = Len(Target[s]) - (k + 1)
         /\ \A j \in DOMAIN wave' : wave'[j] = <<Target[s][(k + 1) + j], level[s]>>
         /\ \A q \in InPin : q \in high' <=> IF q = Target[s][k + 1] THEN level[s] ELSE q \in high
         /\ \A i \in DOMAIN Target[s] : Target[s][i] \in high' <=> (level[s] <=> i <= k + 1)
         /\ \A o \in OutPin : o \in high' <=>
              IF Done(s, k + 1, o[1]) /\ Clocked!Reads(s, o[1])
              THEN o[3] \in Mapped.stored[o[1]][Clocked!At(s, o[1])] ELSE o \in Mapped.shown
         /\ \A m \in Memory : m_data'[m] =
              IF Done(s, k + 1, m) /\ Clocked!Writes(s, m) THEN After(s, m) ELSE Mapped.stored[m]
<1>. DEFINE p == Target[s][k + 1]
            state == level[s]
            fires == (p \in high) # state
            incantations == IF p[2] = "clk" THEN Incantations(p[1], state) ELSE {}
<1>1. /\ k \in Nat /\ k + 1 \in 1 .. Len(Target[s]) /\ DOMAIN Target[s] = 1 .. Len(Target[s])
      /\ Len(Target[s]) \in Nat /\ k + 1 \in DOMAIN Target[s] /\ Target[s][k + 1] \in InPin
      /\ Len(wave) = Len(Target[s]) - k
  <2>1. k \in 0 .. Len(Target[s]) - 1 /\ Len(wave) = Len(Target[s]) - k
    BY DEF Flight
  <2>. QED
    BY <2>1, TargetTypes
<1>2. wave # <<>> /\ wave \in Seq(InPin \X BOOLEAN)
  BY DEF Set, MemInv, TypeOK
<1>3. Head(wave) = <<p, state>>
  <2>1. 1 \in DOMAIN wave /\ Head(wave) = wave[1]
    BY <1>2
  <2>2. wave[1] = <<Target[s][k + 1], level[s]>>
    BY <2>1 DEF Flight
  <2>. QED
    BY <2>1, <2>2
<1>4. /\ p \in InPin /\ state \in BOOLEAN
      /\ Len(wave') = Len(wave) - 1
      /\ DOMAIN wave = 1 .. Len(wave) /\ DOMAIN wave' = 1 .. Len(wave')
      /\ \A i \in 1 .. Len(wave) - 1 : wave'[i] = wave[i + 1]
      /\ \A q \in InPin : q \in high' <=> IF q = p THEN state ELSE q \in high
      /\ \A o \in OutPin : o \in high' <=>
           IF o[1] = p[1] /\ fires /\ "read" \in incantations
           THEN o[3] \in m_data[p[1]][At(p[1])] ELSE o \in high
      /\ \A n \in Memory : m_data'[n] =
           IF n = p[1] /\ fires /\ "write" \in incantations
           THEN Written(n) ELSE m_data[n]
  <2>1. TypeOK
    BY DEF MemInv
  <2>. HIDE DEF p, state
  <2>. QED
    BY <1>3, <2>1, SetEffect
<1>5. /\ \A i \in DOMAIN Target[s] : Target[s][i] \in high <=> (level[s] <=> i <= k)
      /\ \A o \in OutPin : o \in high <=>
           IF Done(s, k, o[1]) /\ Clocked!Reads(s, o[1])
           THEN o[3] \in Mapped.stored[o[1]][Clocked!At(s, o[1])] ELSE o \in Mapped.shown
      /\ \A m \in Memory : m_data[m] =
           IF Done(s, k, m) /\ Clocked!Writes(s, m) THEN After(s, m) ELSE Mapped.stored[m]
  BY DEF Flight
<1>6. fires
  <2>1. ~(k + 1 <= k)
    BY <1>1
  <2>2. p \in high <=> ~level[s]
    BY <1>1, <1>5, <2>1
  <2>. QED
    BY <1>4, <2>2
<1>7. \A m : Done(s, k + 1, m) <=> Done(s, k, m) \/ p = <<m, "clk">>
  <2>1. 1 .. k + 1 = (1 .. k) \cup {k + 1}
    BY <1>1
  <2>. QED
    BY <2>1 DEF Done
<1>8. Len(wave') = Len(Target[s]) - (k + 1)
  BY <1>1, <1>4
<1>9. \A j \in DOMAIN wave' : wave'[j] = <<Target[s][(k + 1) + j], level[s]>>
  <2>. TAKE j \in DOMAIN wave'
  <2>1. j \in 1 .. Len(wave) - 1 /\ j + 1 \in DOMAIN wave /\ k + (j + 1) = (k + 1) + j
    <3>1. Len(wave') = Len(wave) - 1 /\ DOMAIN wave = 1 .. Len(wave) /\ DOMAIN wave' = 1 .. Len(wave')
      BY <1>4, Zenon
    <3>2. k \in Nat /\ Len(wave) \in Nat
      BY <1>1
    <3>3. j \in 1 .. Len(wave) - 1
      BY <3>1
    <3>. HIDE DEF p, state, fires, incantations
    <3>. QED
      BY <3>1, <3>2, <3>3
  <2>2. wave[j + 1] = <<Target[s][k + (j + 1)], level[s]>>
    BY <2>1 DEF Flight
  <2>. QED
    BY <1>4, <2>1, <2>2
<1>10. \A i \in DOMAIN Target[s] : Target[s][i] \in high' <=> (level[s] <=> i <= k + 1)
  <2>. TAKE i \in DOMAIN Target[s]
  <2>1. Target[s][i] \in InPin
    BY TargetTypes
  <2>2. CASE i = k + 1
    BY <1>1, <1>4, <2>2
  <2>3. CASE i # k + 1
    <3>1. Target[s][i] # p
      BY <1>1, <2>3, SingleDriver
    <3>2. i <= k <=> i <= k + 1
      BY <1>1, <2>3
    <3>. HIDE DEF p, state, fires, incantations
    <3>. QED
      BY <1>4, <1>5, <2>1, <3>1, <3>2
  <2>. QED
    BY <2>2, <2>3
<1>11. /\ \A o \in OutPin : o \in high' <=>
            IF Done(s, k + 1, o[1]) /\ Clocked!Reads(s, o[1])
            THEN o[3] \in Mapped.stored[o[1]][Clocked!At(s, o[1])] ELSE o \in Mapped.shown
       /\ \A m \in Memory : m_data'[m] =
            IF Done(s, k + 1, m) /\ Clocked!Writes(s, m) THEN After(s, m) ELSE Mapped.stored[m]
  <2>1. CASE p[2] # "clk"
    <3>1. \A m : p # <<m, "clk">>
      BY <2>1
    <3>2. "read" \notin incantations /\ "write" \notin incantations
      BY <2>1
    <3>. HIDE DEF p, state, fires, incantations
    <3>3. \A o \in OutPin : o \in high' <=> o \in high
      BY <1>4, <3>2
    <3>4. \A n \in Memory : m_data'[n] = m_data[n]
      BY <1>4, <3>2
    <3>5. \A m : Done(s, k + 1, m) <=> Done(s, k, m)
      BY <1>7, <3>1
    <3>. QED
      BY <1>5, <3>3, <3>4, <3>5
  <2>2. CASE p[2] = "clk"
    <3>1. PICK m \in Memory : p = <<m, "clk">> /\ p[1] = m
      BY <1>4, <2>2, InPinShape
    <3>2. /\ "read" \in incantations <=> Clocked!Reads(s, m)
          /\ "write" \in incantations <=> Clocked!Writes(s, m)
          /\ At(m) = Clocked!At(s, m)
          /\ Bus(m, "d_in", DataWidth[m]) = Clocked!Bus(s, m, "d_in", DataWidth[m])
      <4>1. /\ "read" \in Incantations(m, level[s]) <=> Clocked!Reads(s, m)
            /\ "write" \in Incantations(m, level[s]) <=> Clocked!Writes(s, m)
            /\ At(m) = Clocked!At(s, m)
            /\ Bus(m, "d_in", DataWidth[m]) = Clocked!Bus(s, m, "d_in", DataWidth[m])
        BY <1>1, <1>2, <3>1, EngineNow
      <4>2. incantations = Incantations(m, level[s])
        BY <2>2, <3>1
      <4>. HIDE DEF p, state, fires, incantations
      <4>. QED
        BY <4>1, <4>2
    <3>3. ~Done(s, k, m)
      <4>. SUFFICES ASSUME NEW i \in 1 .. k, Target[s][i] = <<m, "clk">> PROVE FALSE
        BY DEF Done
      <4>1. i \in DOMAIN Target[s] /\ i # k + 1
        BY <1>1
      <4>. QED
        BY <1>1, <3>1, <4>1, SingleDriver
    <3>4. \A n : Done(s, k + 1, n) <=> Done(s, k, n) \/ n = m
      <4>1. \A n : p = <<n, "clk">> <=> n = m
        BY <3>1
      <4>. HIDE DEF p
      <4>. QED
        BY <1>7, <4>1
    <3>. HIDE DEF p, state, fires, incantations
    <3>5. m_data[m] = Mapped.stored[m] /\ Written(m) = After(s, m)
      <4>1. m_data[m] = Mapped.stored[m]
        BY <1>5, <3>3
      <4>. QED
        BY <3>2, <4>1 DEF Written, After
    <3>6. ASSUME NEW o \in OutPin
          PROVE  o \in high' <=>
                   IF Done(s, k + 1, o[1]) /\ Clocked!Reads(s, o[1])
                   THEN o[3] \in Mapped.stored[o[1]][Clocked!At(s, o[1])] ELSE o \in Mapped.shown
      <4>1. CASE o[1] = m
        <5>1. o \in high <=> o \in Mapped.shown
          BY <1>5, <3>3, <4>1
        <5>2. o \in high' <=> IF Clocked!Reads(s, m) THEN o[3] \in m_data[m][At(m)] ELSE o \in high
          BY <1>4, <1>6, <3>1, <3>2, <4>1
        <5>. QED
          BY <3>2, <3>4, <3>5, <4>1, <5>1, <5>2
      <4>2. CASE o[1] # m
        BY <1>4, <1>5, <3>1, <3>4, <4>2
      <4>. QED
        BY <4>1, <4>2
    <3>7. ASSUME NEW n \in Memory
          PROVE  m_data'[n] =
                   IF Done(s, k + 1, n) /\ Clocked!Writes(s, n) THEN After(s, n) ELSE Mapped.stored[n]
      <4>1. CASE n = m
        BY <1>4, <1>6, <3>1, <3>2, <3>4, <3>5, <4>1
      <4>2. CASE n # m
        BY <1>4, <1>5, <3>1, <3>4, <4>2
      <4>. QED
        BY <4>1, <4>2
    <3>. QED
      BY <3>6, <3>7
  <2>. QED
    BY <2>1, <2>2
<1>. QED
  BY <1>1, <1>4, <1>8, <1>9, <1>10, <1>11

-----------------------------------------------------------------------------
(* Device::Set keeps the invariant.                                        *)

\* Whatever is set, its Device is queued to be solved.
LEMMA SetQueues ==
  ASSUME MemInv, Set
  PROVE  TypeOK' /\ Queued'
<1>1. wave \in Seq(InPin \X BOOLEAN) /\ wave # <<>> /\ TypeOK
  BY DEF Set, MemInv, TypeOK
<1>2. PICK p, state : Head(wave) = <<p, state>>
  <2>1. Head(wave) \in InPin \X BOOLEAN
    BY <1>1
  <2>. QED
    BY <2>1
<1>3. /\ wave' \in Seq(InPin \X BOOLEAN)
      /\ high' \subseteq InPin \cup OutPin /\ changed' \subseteq OutPin
      /\ \A o \in changed' : o \in changed \/ o[1] \in buffered'
      /\ buffered \subseteq buffered' /\ buffered' \subseteq buffered \cup Range(solve')
      /\ buffered' \subseteq Memory
      /\ solve' \in Seq(Memory) /\ Range(solve) \subseteq Range(solve')
      /\ m_data' \in [Memory -> AnyContent]
      /\ \A n \in Memory : m_data'[n] \in Content(n)
      /\ UNCHANGED <<level, this_tick, next_tick, solving, driven, before, fed>>
  BY <1>1, <1>2, SetEffect
<1>4. TypeOK'
  BY <1>1, <1>3 DEF TypeOK
<1>5. Queued'
  BY <1>3 DEF MemInv, Queued
<1>. QED
  BY <1>4, <1>5

\* A pin that a source sets.
LEMMA SourceSets ==
  ASSUME MemInv, ~solving, Set
  PROVE  MemInv'
<1>1. wave # <<>> /\ wave \in Seq(InPin \X BOOLEAN) /\ TypeOK
  BY DEF Set, MemInv, TypeOK
<1>2. PICK s \in Source : \E k \in Nat : Flight(s, k)
  BY <1>1 DEF MemInv, InFlight
<1>3. PICK k \in Nat : Flight(s, k)
  BY <1>2
<1>. DEFINE p == Target[s][k + 1]
<1>4. /\ k + 1 \in DOMAIN Target[s] /\ DOMAIN Target[s] = 1 .. Len(Target[s])
      /\ Len(Target[s]) \in Nat /\ Len(wave') = Len(Target[s]) - (k + 1)
      /\ \A j \in DOMAIN wave' : wave'[j] = <<Target[s][(k + 1) + j], level[s]>>
      /\ \A q \in InPin : q \in high' <=> IF q = p THEN level[s] ELSE q \in high
      /\ \A i \in DOMAIN Target[s] : Target[s][i] \in high' <=> (level[s] <=> i <= k + 1)
      /\ \A o \in OutPin : o \in high' <=>
           IF Done(s, k + 1, o[1]) /\ Clocked!Reads(s, o[1])
           THEN o[3] \in Mapped.stored[o[1]][Clocked!At(s, o[1])] ELSE o \in Mapped.shown
      /\ \A m \in Memory : m_data'[m] =
           IF Done(s, k + 1, m) /\ Clocked!Writes(s, m) THEN After(s, m) ELSE Mapped.stored[m]
  BY <1>3, FlightStep
<1>5. Head(wave) = <<p, level[s]>>
  <2>1. 1 \in DOMAIN wave /\ Head(wave) = wave[1]
    BY <1>1
  <2>2. wave[1] = <<Target[s][k + 1], level[s]>>
    BY <1>3, <2>1 DEF Flight
  <2>. QED
    BY <2>1, <2>2
<1>6. /\ changed \subseteq changed'
      /\ \A o \in OutPin : o \in changed' \/ (o \in high' <=> o \in high)
      /\ UNCHANGED <<level, this_tick, next_tick, solving, driven, before, fed>>
  <2>. HIDE DEF p
  <2>. QED
    BY <1>1, <1>5, SetEffect
<1>7. \A x \in Source \cup OutPin : \A i \in DOMAIN Target[x] :
        x # s => Target[x][i] # p /\ (Target[x][i] \in high' <=> Target[x][i] \in high)
  <2>. TAKE x \in Source \cup OutPin
  <2>. TAKE i \in DOMAIN Target[x]
  <2>. HAVE x # s
  <2>1. Target[x][i] # p
    BY <1>4, SingleDriver
  <2>2. Target[x][i] \in InPin
    BY TargetTypes
  <2>. HIDE DEF p
  <2>. QED
    BY <1>4, <2>1, <2>2
<1>8. s \notin OutPin
  BY MemoryAssumption
<1>9. Undriven'
  <2>. SUFFICES ASSUME NEW q \in InPin, q \in high'
                PROVE  \E x \in Source \cup OutPin : q \in Drives(x)
    BY DEF Undriven, Drives
  <2>1. CASE q = p
    BY <1>4, <2>1 DEF Drives
  <2>2. CASE q # p
    BY <1>4, <2>2 DEF MemInv, Undriven
  <2>. QED
    BY <2>1, <2>2
<1>10. OutFollows'
  <2>. SUFFICES ASSUME NEW o \in OutPin, NEW i \in DOMAIN Target[o]
                PROVE  o \in changed' \/ (Target[o][i] \in high' <=> o \in high')
    BY DEF OutFollows
  <2>1. ~\E j \in DOMAIN wave : wave[j] = <<Target[o][i], o \in high>>
    <3>. SUFFICES ASSUME NEW j \in DOMAIN wave, wave[j][1] = Target[o][i] PROVE FALSE
      OBVIOUS
    <3>1. wave[j][1] = Target[s][k + j] /\ Len(wave) = Len(Target[s]) - k
      BY <1>3 DEF Flight
    <3>2. k + j \in DOMAIN Target[s]
      BY <1>1, <1>4, <3>1
    <3>. QED
      BY <1>8, <3>1, <3>2, SingleDriver
  <2>2. o \in changed \/ (Target[o][i] \in high <=> o \in high)
    BY <2>1 DEF MemInv, OutFollows
  <2>3. Target[o][i] \in high' <=> Target[o][i] \in high
    BY <1>7, <1>8
  <2>. QED
    BY <1>6, <2>2, <2>3
<1>11. FedFollows'
  BY <1>6, <1>7, <1>8 DEF MemInv, FedFollows
<1>12. SolvingWave'
  BY <1>6 DEF SolvingWave
<1>13. \A x \in Source \ {s} : \A i \in DOMAIN Target[x] : Target[x][i] \in high' <=> level'[x]
  <2>. TAKE x \in Source \ {s}
  <2>. TAKE i \in DOMAIN Target[x]
  <2>1. Target[x][i] \in high <=> level[x]
    BY <1>3 DEF Flight
  <2>. QED
    BY <1>6, <1>7, <2>1
<1>14. wave' \in Seq(InPin \X BOOLEAN)
  BY SetQueues DEF TypeOK
<1>15. SourceFollows'
  <2>. SUFFICES ASSUME wave' = <<>>, NEW i \in DOMAIN Target[s]
                PROVE  Target[s][i] \in high' <=> level'[s]
    BY <1>6, <1>13 DEF SourceFollows
  <2>1. i <= k + 1
    BY <1>4
  <2>. QED
    BY <1>4, <1>6, <2>1
<1>16. InFlight'
  <2>. SUFFICES ASSUME wave' # <<>> PROVE Flight(s, k + 1)'
    <3>1. k + 1 \in Nat
      OBVIOUS
    <3>. QED
      BY <3>1 DEF InFlight
  <2>1. Mapped' = Mapped /\ fed' = fed
    BY <1>1, <1>6 DEF Mapped
  <2>2. k + 1 \in 0 .. Len(Target[s]) - 1 /\ Len(wave') = Len(Target[s]) - (k + 1)
    <3>1. Len(wave') \in Nat \ {0}
      BY <1>14
    <3>. QED
      BY <1>4, <3>1
  <2>3. level' = [Mapped'.level EXCEPT ![s] = ~Mapped'.level[s]]
    BY <1>3, <1>6, <2>1 DEF Flight
  <2>4. \A j \in DOMAIN wave' : wave'[j] = <<Target[s][(k + 1) + j], level'[s]>>
    BY <1>4, <1>6
  <2>5. \A i \in DOMAIN Target[s] : Target[s][i] \in high' <=> (level'[s] <=> i <= k + 1)
    BY <1>4, <1>6
  <2>6. \A m : Done(s, k + 1, m)' <=> Done(s, k + 1, m)
    BY DEF Done
  <2>7. /\ \A m : Clocked!Reads(s, m)' <=> Clocked!Reads(s, m)
        /\ \A m : Clocked!Writes(s, m)' <=> Clocked!Writes(s, m)
        /\ \A m : Clocked!At(s, m)' = Clocked!At(s, m)
        /\ \A m : After(s, m)' = After(s, m)
    BY <2>1, Steady
  <2>8. \A o \in OutPin : o \in high' <=>
          IF Done(s, k + 1, o[1])' /\ Clocked!Reads(s, o[1])'
          THEN o[3] \in Mapped'.stored[o[1]][Clocked!At(s, o[1])'] ELSE o \in Mapped'.shown
    BY <1>4, <2>1, <2>6, <2>7
  <2>9. \A m \in Memory : m_data'[m] =
          IF Done(s, k + 1, m)' /\ Clocked!Writes(s, m)' THEN After(s, m)' ELSE Mapped'.stored[m]
    BY <1>4, <2>1, <2>6, <2>7
  <2>. QED
    BY <1>13, <2>2, <2>3, <2>4, <2>5, <2>8, <2>9, Zenon DEF Flight
<1>. QED
  BY <1>9, <1>10, <1>11, <1>12, <1>15, <1>16, SetQueues DEF MemInv

\* Where the next pin is no clk, no engine does anything.
LEMMA NoEngine ==
  ASSUME TypeOK, Set, NEW p, NEW state, Head(wave) = <<p, state>>, p[2] # "clk"
  PROVE  /\ changed \subseteq changed'
         /\ \A q \in InPin : q \in high' <=> IF q = p THEN state ELSE q \in high
         /\ \A u \in OutPin : u \in high' <=> u \in high
         /\ m_data' \in [Memory -> AnyContent]
         /\ \A n \in Memory : m_data'[n] = m_data[n]
         /\ UNCHANGED <<level, this_tick, next_tick, solving, driven, before, fed>>
<1>. DEFINE fires == (p \in high) # state
            incantations == IF p[2] = "clk" THEN Incantations(p[1], state) ELSE {}
<1>1. "read" \notin incantations /\ "write" \notin incantations
  OBVIOUS
<1>2. /\ changed \subseteq changed'
      /\ \A q \in InPin : q \in high' <=> IF q = p THEN state ELSE q \in high
      /\ m_data' \in [Memory -> AnyContent]
      /\ UNCHANGED <<level, this_tick, next_tick, solving, driven, before, fed>>
  BY SetEffect
<1>3. /\ \A o \in OutPin : o \in high' <=>
           IF o[1] = p[1] /\ fires /\ "read" \in incantations
           THEN o[3] \in m_data[p[1]][At(p[1])] ELSE o \in high
      /\ \A n \in Memory : m_data'[n] =
           IF n = p[1] /\ fires /\ "write" \in incantations THEN Written(n) ELSE m_data[n]
  BY SetEffect
<1>. HIDE DEF fires, incantations
<1>. QED
  BY <1>1, <1>2, <1>3

\* A pin that an out pin sets: it is no clk, so no trap fires in a Solve.
LEMMA OutPinSets ==
  ASSUME MemInv, solving, Set
  PROVE  MemInv' /\ UNCHANGED <<level, fed, m_data>> /\ \A o \in OutPin : o \in high' <=> o \in high
<1>1. wave # <<>> /\ wave \in Seq(InPin \X BOOLEAN) /\ TypeOK
  BY DEF Set, MemInv, TypeOK
<1>2. PICK o \in OutPin : \A j \in DOMAIN wave :
        \E i \in DOMAIN Target[o] : wave[j] = <<Target[o][i], o \in high>>
  BY <1>1 DEF MemInv, SolvingWave
<1>3. 1 \in DOMAIN wave /\ Head(wave) = wave[1] /\ Head(wave) \in InPin \X BOOLEAN
  BY <1>1
<1>4. PICK i \in DOMAIN Target[o] : Head(wave) = <<Target[o][i], o \in high>>
  BY <1>2, <1>3
<1>5. PICK p, state : /\ Head(wave) = <<p, state>> /\ p = Target[o][i]
                      /\ state \in BOOLEAN /\ (state <=> o \in high)
  BY <1>3, <1>4
<1>6. p \in InPin /\ p[2] # "clk"
  BY <1>5, NoClock, TargetTypes
<1>7. /\ wave[1] = <<p, state>> /\ Len(wave') = Len(wave) - 1 /\ Len(wave) \in Nat
      /\ DOMAIN wave = 1 .. Len(wave) /\ DOMAIN wave' = 1 .. Len(wave')
      /\ \A j \in 1 .. Len(wave) - 1 : wave'[j] = wave[j + 1]
      /\ changed \subseteq changed'
      /\ \A q \in InPin : q \in high' <=> IF q = p THEN state ELSE q \in high
      /\ \A u \in OutPin : u \in high' <=> u \in high
      /\ m_data' \in [Memory -> AnyContent]
      /\ \A n \in Memory : m_data'[n] = m_data[n]
      /\ UNCHANGED <<level, this_tick, next_tick, solving, driven, before, fed>>
  <2>1. TypeOK /\ Head(wave) = <<p, state>> /\ p[2] # "clk" /\ Set
    BY <1>1, <1>5, <1>6
  <2>2. /\ changed \subseteq changed'
        /\ \A q \in InPin : q \in high' <=> IF q = p THEN state ELSE q \in high
        /\ \A u \in OutPin : u \in high' <=> u \in high
        /\ m_data' \in [Memory -> AnyContent]
        /\ \A n \in Memory : m_data'[n] = m_data[n]
        /\ UNCHANGED <<level, this_tick, next_tick, solving, driven, before, fed>>
    BY <2>1, NoEngine, Zenon
  <2>3. /\ Len(wave') = Len(wave) - 1 /\ Len(wave) \in Nat
        /\ DOMAIN wave = 1 .. Len(wave) /\ DOMAIN wave' = 1 .. Len(wave')
        /\ \A j \in 1 .. Len(wave) - 1 : wave'[j] = wave[j + 1]
    <3>1. wave' = Tail(wave)
      BY DEF Set
    <3>. QED
      BY <1>1, <3>1
  <2>4. wave[1] = <<p, state>>
    BY <1>3, <1>5
  <2>. QED
    BY <2>2, <2>3, <2>4
<1>8. \A x \in Source \cup OutPin : \A j \in DOMAIN Target[x] : Target[x][j] = p => x = o
  BY <1>5, SingleDriver
<1>9. Undriven'
  <2>. SUFFICES ASSUME NEW q \in InPin, q \in high'
                PROVE  \E x \in Source \cup OutPin : q \in Drives(x)
    BY DEF Undriven, Drives
  <2>1. CASE q = p
    BY <1>5, <2>1 DEF Drives
  <2>2. CASE q # p
    BY <1>7, <2>2 DEF MemInv, Undriven
  <2>. QED
    BY <2>1, <2>2
<1>10. OutFollows'
  <2>. SUFFICES ASSUME NEW u \in OutPin, NEW j \in DOMAIN Target[u], u \notin changed'
                PROVE  \/ \E n \in DOMAIN wave' : wave'[n] = <<Target[u][j], (u \in high)'>>
                       \/ Target[u][j] \in high' <=> u \in high'
    BY DEF OutFollows
  <2>1. Target[u][j] \in InPin
    BY TargetTypes
  <2>2. CASE Target[u][j] = p
    BY <1>5, <1>7, <1>8, <2>1, <2>2
  <2>3. CASE Target[u][j] # p
    <3>1. u \notin changed
      BY <1>7
    <3>2. CASE Target[u][j] \in high <=> u \in high
      BY <1>7, <2>1, <2>3, <3>2
    <3>3. ASSUME NEW n \in DOMAIN wave, wave[n] = <<Target[u][j], u \in high>>
          PROVE  \E l \in DOMAIN wave' : wave'[l] = <<Target[u][j], (u \in high)'>>
      <4>1. n # 1
        BY <1>7, <2>3, <3>3
      <4>2. n - 1 \in 1 .. Len(wave) - 1 /\ n - 1 \in DOMAIN wave' /\ (n - 1) + 1 = n
        BY <1>7, <4>1
      <4>3. wave'[n - 1] = wave[n]
        BY <1>7, <4>2
      <4>. QED
        BY <1>7, <3>3, <4>2, <4>3
    <3>. QED
      BY <3>1, <3>2, <3>3 DEF MemInv, OutFollows
  <2>. QED
    BY <2>2, <2>3
<1>11. SolvingWave'
  <2>. SUFFICES ASSUME NEW j \in DOMAIN wave'
                PROVE  \E l \in DOMAIN Target[o] : wave'[j] = <<Target[o][l], (o \in high)'>>
    BY DEF SolvingWave
  <2>1. j \in 1 .. Len(wave) - 1 /\ j + 1 \in DOMAIN wave
    BY <1>7
  <2>2. PICK l \in DOMAIN Target[o] : wave[j + 1] = <<Target[o][l], o \in high>>
    BY <1>2, <2>1
  <2>. QED
    BY <1>7, <2>1, <2>2
<1>12. SourceFollows'
  <2>. SUFFICES ASSUME NEW s \in Source, NEW j \in DOMAIN Target[s]
                PROVE  Target[s][j] \in high' <=> level'[s]
    BY DEF SourceFollows
  <2>1. Target[s][j] \in InPin /\ s # o
    BY TargetTypes, MemoryAssumption
  <2>2. Target[s][j] # p
    BY <1>8, <2>1
  <2>3. Target[s][j] \in high <=> level[s]
    BY DEF MemInv, SourceFollows
  <2>. QED
    BY <1>7, <2>1, <2>2, <2>3
<1>13. FedFollows' /\ InFlight'
  BY <1>7 DEF FedFollows, InFlight
<1>14. m_data' = m_data
  <2>1. m_data \in [Memory -> AnyContent]
    BY <1>1 DEF TypeOK
  <2>. QED
    BY <1>7, <2>1
<1>15. MemInv'
  BY <1>9, <1>10, <1>11, <1>12, <1>13, SetQueues DEF MemInv
<1>. QED
  BY <1>7, <1>14, <1>15

-----------------------------------------------------------------------------
(* The theorems.                                                           *)

\* One step of the Simulation.
LEMMA MemNext == MemInv /\ [Next]_vars => MemInv'
<1>. SUFFICES ASSUME MemInv, [Next]_vars PROVE MemInv'
  OBVIOUS
<1>1. ASSUME NEW s \in Source, Drive(s) PROVE MemInv'
  BY <1>1, DriveKeeps
<1>2. CASE Set
  BY <1>2, SourceSets, OutPinSets
<1>3. CASE BeginSolve
  BY <1>3, BeginSolveKeeps
<1>4. CASE SolveChild
  BY <1>4, SolveChildKeeps
<1>5. CASE BeginSubTick
  BY <1>5, BeginSubTickKeeps
<1>6. CASE Propagate
  BY <1>6, PropagateKeeps
<1>7. CASE EndSolve
  BY <1>7, EndSolveKeeps
<1>8. CASE UNCHANGED vars
  <2>1. UNCHANGED <<level, high, changed, buffered, m_data, wave, solve, this_tick, next_tick,
                    solving, driven, before, fed>>
    BY <1>8 DEF vars, pins, queues, loop
  <2>2. TypeOK'
    BY <2>1 DEF MemInv, TypeOK
  <2>3. Queued' /\ Undriven'
    BY <2>1, NothingSet DEF MemInv, Queued
  <2>4. OutFollows' /\ SolvingWave'
    BY <2>1 DEF MemInv, OutFollows, SolvingWave
  <2>5. SourceFollows' /\ FedFollows'
    BY <2>1 DEF MemInv, SourceFollows, FedFollows
  <2>6. InFlight'
    <3>. SUFFICES ASSUME NEW s \in Source, NEW k \in Nat, Flight(s, k) PROVE Flight(s, k)'
      BY <2>1 DEF MemInv, InFlight
    <3>1. Mapped' = Mapped /\ fed' = fed
      BY <2>1 DEF Mapped, Now
    <3>2. /\ \A m : Clocked!Reads(s, m)' <=> Clocked!Reads(s, m)
          /\ \A m : Clocked!Writes(s, m)' <=> Clocked!Writes(s, m)
          /\ \A m : Clocked!At(s, m)' = Clocked!At(s, m)
          /\ \A m : After(s, m)' = After(s, m)
          /\ \A m : Done(s, k, m)' <=> Done(s, k, m)
      BY <3>1, Steady DEF Done
    <3>. QED
      BY <2>1, <3>1, <3>2 DEF Flight
  <2>. QED
    BY <2>2, <2>3, <2>4, <2>5, <2>6 DEF MemInv
<1>. QED
  BY <1>1, <1>2, <1>3, <1>4, <1>5, <1>6, <1>7, <1>8 DEF Next

\* TypeOK: whatever is wired to whatever, the memories hold words of their widths at
\* addresses of theirs, and only memories are queued.
THEOREM MemoryTypes == Spec => []TypeOK
<1>1. MemInv => TypeOK
  BY DEF MemInv
<1>. QED
  BY <1>1, MemInit, MemNext, PTL DEF Spec

\* MemInv, the invariant that the others rest on: at every moment of the change of a
\* source, the memories whose clk it has reached have answered the edge with what was there
\* before it, and the others are untouched.
THEOREM MemoryInvariant == Spec => []MemInv
<1>. QED
  BY MemInit, MemNext, PTL DEF Spec

\* PinsFollow: no change of an out pin is lost between the incantation that brings it
\* about, the queues of the Simulation, and the pins that it drives.
THEOREM PinsAlwaysFollow == Spec => []PinsFollow
<1>1. MemInv => PinsFollow
  <2>. SUFFICES ASSUME MemInv, Settled, NEW x \in DOMAIN Target, NEW p \in Drives(x)
                PROVE  (p \in high) = IF x \in Source THEN level[x] ELSE x \in high
    BY DEF PinsFollow
  <2>1. /\ wave = <<>> /\ ~solving /\ solve = <<>> /\ this_tick = <<>> /\ next_tick = <<>>
        /\ DOMAIN wave = {} /\ Range(solve) = {} /\ Range(this_tick) = {} /\ Range(next_tick) = {}
    <3>1. wave = <<>> /\ ~solving /\ solve = <<>> /\ this_tick = <<>> /\ next_tick = <<>>
      BY DEF Settled, Idle, queues
    <3>. QED
      BY <3>1 DEF Range
  <2>2. PICK i \in DOMAIN Target[x] : p = Target[x][i]
    BY DEF Drives
  <2>3. x \in Source \cup OutPin /\ level \in [Source -> BOOLEAN]
    BY MemoryAssumption DEF MemInv, TypeOK
  <2>4. CASE x \in Source
    <3>1. Target[x][i] \in high <=> level[x]
      BY <2>1, <2>4 DEF MemInv, SourceFollows
    <3>. QED
      BY <2>2, <2>3, <2>4, <3>1
  <2>5. CASE x \in OutPin /\ x \notin Source
    <3>1. changed = {}
      BY <2>1 DEF MemInv, Queued
    <3>2. Target[x][i] \in high <=> x \in high
      BY <2>1, <2>5, <3>1 DEF MemInv, OutFollows
    <3>. QED
      BY <2>2, <2>5, <3>2
  <2>. QED
    BY <2>3, <2>4, <2>5
<1>. QED
  BY <1>1, MemInit, MemNext, PTL DEF Spec

-----------------------------------------------------------------------------
(* The refinement.                                                         *)

LEMMA SamePins == Clocked!Memory = Memory /\ Clocked!OutPin = OutPin
<1>. QED
  BY DEF Clocked!Memory, Clocked!OutPin, Clocked!OutPins, Memory, OutPin

\* What makes up a step of the abstract memories.
LEMMA Moved ==
  ASSUME NEW s \in Source, fed' = fed,
         Mapped'.level = [Mapped.level EXCEPT ![s] = ~Mapped.level[s]],
         Mapped'.shown \subseteq OutPin,
         \A o \in OutPin : o \in Mapped'.shown <=>
           IF Clocked!Reads(s, o[1])
           THEN o[3] \in Mapped.stored[o[1]][Clocked!At(s, o[1])] ELSE o \in Mapped.shown,
         Mapped'.stored \in [Memory -> AnyContent],
         \A m \in Memory : Mapped'.stored[m] =
           IF Clocked!Writes(s, m) THEN After(s, m) ELSE Mapped.stored[m]
  PROVE  Clocked!Move(s)
<1>1. Mapped'.shown =
        {o \in OutPin : IF Clocked!Reads(s, o[1])
                        THEN o[3] \in Mapped.stored[o[1]][Clocked!At(s, o[1])]
                        ELSE o \in Mapped.shown}
  OBVIOUS
<1>2. Mapped'.stored =
        [m \in Memory |-> IF Clocked!Writes(s, m) THEN After(s, m) ELSE Mapped.stored[m]]
  OBVIOUS
<1>3. Mapped'.stored =
        [m \in Memory |->
           IF Clocked!Writes(s, m)
           THEN [Mapped.stored[m] EXCEPT ![Clocked!At(s, m)] = Clocked!Bus(s, m, "d_in", DataWidth[m])]
           ELSE Mapped.stored[m]]
  BY <1>2, Zenon DEF After
<1>. QED
  BY <1>1, <1>3, SamePins, Zenon DEF Clocked!Move

LEMMA ClockedInit == Init => Clocked!Init
<1>. SUFFICES ASSUME Init PROVE Clocked!Init
  OBVIOUS
<1>1. wave = <<>> /\ high = {} /\ fed = {} /\ level = [s \in Source |-> FALSE]
      /\ m_data = [m \in Memory |-> Configure(m)]
  BY DEF Init
<1>2. /\ Mapped.level = [s \in Source |-> FALSE] /\ Mapped.shown = {}
      /\ Mapped.stored = [m \in Memory |-> Configure(m)]
  BY <1>1, MappedTo
<1>3. \A m \in Memory : [Clocked!Address(m) -> Clocked!Word(m)] = Content(m)
  BY DEF Clocked!Address, Clocked!Word, Content, Address
<1>4. Mapped.stored \in [Memory -> UNION {[Clocked!Address(m) -> Clocked!Word(m)] : m \in Memory}]
  <2>1. UNION {[Clocked!Address(m) -> Clocked!Word(m)] : m \in Memory} = AnyContent
    BY <1>3 DEF AnyContent
  <2>2. \A m \in Memory : Configure(m) \in AnyContent
    BY Configured DEF AnyContent
  <2>. QED
    BY <1>2, <2>1, <2>2
<1>5. \A m \in Ram : Mapped.stored[m] = [a \in Clocked!Address(m) |-> {}]
  <2>. TAKE m \in Ram
  <2>1. m \in Memory /\ m \notin Rom
    BY MemoryAssumption DEF Memory
  <2>2. Configure(m) = [a \in Address(m) |-> {}]
    BY <2>1 DEF Configure
  <2>. QED
    BY <1>2, <2>1, <2>2 DEF Clocked!Address, Address
<1>. QED
  BY <1>1, <1>2, <1>4, <1>5, SamePins, Zenon DEF Clocked!Init

\* Every step of the Simulation is a step of the abstract memories, or none of theirs: the
\* edge takes place when the last pin of its source is set.
LEMMA ClockedNext == MemInv /\ [Next]_vars => [Clocked!Next]_(Clocked!vars)
<1>. SUFFICES ASSUME MemInv, [Next]_vars PROVE [Clocked!Next]_(Clocked!vars)
  OBVIOUS
<1>1. ASSUME Mapped' = Mapped, fed' = fed PROVE UNCHANGED Clocked!vars
  BY <1>1 DEF Clocked!vars
<1>2. ASSUME Mapped = Now, Mapped' = Now', fed' = fed, UNCHANGED <<level, m_data>>,
             (OutPin \cap high)' = OutPin \cap high
      PROVE  UNCHANGED Clocked!vars
  <2>1. Now' = Now
    BY <1>2 DEF Now
  <2>. QED
    BY <1>1, <1>2, <2>1
<1>3. TypeOK /\ TypeOK'
  BY MemNext DEF MemInv
<1>4. ASSUME NEW s \in Source, Drive(s) PROVE [Clocked!Next]_(Clocked!vars)
  <2>1. /\ wave = <<>> /\ ~solving /\ ~solving' /\ before' = Now
        /\ level' = [level EXCEPT ![s] = ~level[s]] /\ wave' = Sent(s, ~level[s])
        /\ UNCHANGED <<high, m_data, fed>>
    BY <1>4 DEF Drive, Idle, pins, Sent
  <2>2. Mapped = Now
    BY <2>1, MappedTo
  <2>3. CASE wave' # <<>>
    <3>1. Mapped' = Mapped
      BY <2>1, <2>2, <2>3 DEF Mapped
    <3>. QED
      BY <1>1, <2>1, <3>1
  <2>4. CASE wave' = <<>>
    <3>1. DOMAIN Target[s] = {}
      <4>1. (~level[s]) \in BOOLEAN
        BY <1>3 DEF TypeOK
      <4>. QED
        BY <2>1, <2>4, <4>1, SentTypes
    <3>2. \A m : ~Clocked!Edge(s, m)
      BY <3>1 DEF Clocked!Edge
    <3>3. \A m : ~Clocked!Reads(s, m) /\ ~Clocked!Writes(s, m)
      BY <3>2 DEF Clocked!Reads, Clocked!Writes
    <3>4. Mapped' = Now'
      BY <2>4 DEF Mapped
    <3>5. /\ Mapped.level = level /\ Mapped.shown = OutPin \cap high /\ Mapped.stored = m_data
          /\ Mapped'.level = level' /\ Mapped'.shown = OutPin \cap high /\ Mapped'.stored = m_data
      BY <2>1, <2>2, <3>4 DEF Now
    <3>6. m_data \in [Memory -> AnyContent]
      BY <1>3 DEF TypeOK
    <3>7. /\ Mapped'.level = [Mapped.level EXCEPT ![s] = ~Mapped.level[s]]
          /\ Mapped'.shown \subseteq OutPin
          /\ \A o \in OutPin : o \in Mapped'.shown <=>
               IF Clocked!Reads(s, o[1])
               THEN o[3] \in Mapped.stored[o[1]][Clocked!At(s, o[1])] ELSE o \in Mapped.shown
          /\ Mapped'.stored \in [Memory -> AnyContent]
          /\ \A m \in Memory : Mapped'.stored[m] =
               IF Clocked!Writes(s, m) THEN After(s, m) ELSE Mapped.stored[m]
      BY <2>1, <3>3, <3>5, <3>6
    <3>8. Clocked!Move(s)
      BY <2>1, <3>7, Moved
    <3>. QED
      BY <3>8 DEF Clocked!Next
  <2>. QED
    BY <2>3, <2>4
<1>5. CASE Set /\ ~solving
  <2>1. wave # <<>> /\ wave' = Tail(wave) /\ UNCHANGED <<solving, before, fed, level>>
    BY <1>5 DEF Set, loop
  <2>2. Mapped = before
    BY <1>5, <2>1, MappedTo
  <2>3. CASE wave' # <<>>
    <3>1. Mapped' = Mapped
      BY <1>5, <2>1, <2>2, <2>3 DEF Mapped
    <3>. QED
      BY <1>1, <2>1, <3>1
  <2>4. CASE wave' = <<>>
    <3>1. PICK s \in Source : \E k \in Nat : Flight(s, k)
      BY <1>5, <2>1 DEF MemInv, InFlight
    <3>2. PICK k \in Nat : Flight(s, k)
      BY <3>1
    <3>3. /\ DOMAIN Target[s] = 1 .. Len(Target[s]) /\ Len(Target[s]) \in Nat
          /\ Len(wave') = Len(Target[s]) - (k + 1)
          /\ \A o \in OutPin : o \in high' <=>
               IF Done(s, k + 1, o[1]) /\ Clocked!Reads(s, o[1])
               THEN o[3] \in Mapped.stored[o[1]][Clocked!At(s, o[1])] ELSE o \in Mapped.shown
          /\ \A m \in Memory : m_data'[m] =
               IF Done(s, k + 1, m) /\ Clocked!Writes(s, m) THEN After(s, m) ELSE Mapped.stored[m]
      BY <1>5, <3>2, FlightStep
    <3>4. k + 1 = Len(Target[s])
      <4>1. Len(wave') = 0
        BY <2>4
      <4>. QED
        BY <3>3, <4>1
    <3>5. \A m : /\ Clocked!Reads(s, m) => Done(s, k + 1, m)
                 /\ Clocked!Writes(s, m) => Done(s, k + 1, m)
      <4>1. \A m : Clocked!Edge(s, m) <=> Done(s, k + 1, m)
        BY <3>3, <3>4 DEF Clocked!Edge, Done
      <4>. QED
        BY <4>1 DEF Clocked!Reads, Clocked!Writes
    <3>6. Mapped'.level = level' /\ Mapped'.shown = OutPin \cap high' /\ Mapped'.stored = m_data'
      <4>1. Mapped' = Now'
        BY <2>4 DEF Mapped
      <4>. QED
        BY <4>1 DEF Now
    <3>7. Mapped'.level = [Mapped.level EXCEPT ![s] = ~Mapped.level[s]]
      <4>1. level = [Mapped.level EXCEPT ![s] = ~Mapped.level[s]]
        BY <3>2 DEF Flight
      <4>. QED
        BY <2>1, <3>6, <4>1, Zenon
    <3>8. Mapped'.stored \in [Memory -> AnyContent]
      BY <1>3, <3>6 DEF TypeOK
    <3>9. /\ Mapped'.shown \subseteq OutPin
          /\ \A o \in OutPin : o \in Mapped'.shown <=>
               IF Clocked!Reads(s, o[1])
               THEN o[3] \in Mapped.stored[o[1]][Clocked!At(s, o[1])] ELSE o \in Mapped.shown
          /\ \A m \in Memory : Mapped'.stored[m] =
               IF Clocked!Writes(s, m) THEN After(s, m) ELSE Mapped.stored[m]
      BY <3>3, <3>5, <3>6
    <3>10. Clocked!Move(s)
      BY <2>1, <3>7, <3>8, <3>9, Moved
    <3>. QED
      BY <3>10 DEF Clocked!Next
  <2>. QED
    BY <2>3, <2>4
<1>6. CASE Set /\ solving
  <2>1. /\ UNCHANGED <<level, fed, m_data>> /\ \A o \in OutPin : o \in high' <=> o \in high
    BY <1>6, OutPinSets
  <2>2. solving'
    BY <1>6 DEF Set, loop
  <2>3. Mapped = Now /\ Mapped' = Now'
    BY <1>6, <2>2 DEF Mapped
  <2>. QED
    BY <1>2, <2>1, <2>3
<1>7. CASE BeginSolve
  <2>1. wave = <<>> /\ wave' = <<>> /\ UNCHANGED <<level, high, m_data, fed>>
    BY <1>7 DEF BeginSolve, Idle, pins, queues
  <2>2. Mapped = Now /\ Mapped' = Now'
    BY <2>1 DEF Mapped
  <2>. QED
    BY <1>2, <2>1, <2>2
<1>8. CASE SolveChild \/ BeginSubTick \/ Propagate
  <2>1. solving /\ solving' /\ UNCHANGED <<level, high, m_data, fed>>
    BY <1>8 DEF SolveChild, BeginSubTick, Propagate, pins, loop
  <2>2. Mapped = Now /\ Mapped' = Now'
    BY <2>1 DEF Mapped
  <2>. QED
    BY <1>2, <2>1, <2>2
<1>9. CASE EndSolve
  <2>1. wave = <<>> /\ wave' = <<>> /\ fed' = OutPin \cap high /\ UNCHANGED <<level, high, m_data>>
    BY <1>9 DEF EndSolve, pins, queues
  <2>2. Mapped = Now /\ Mapped' = Now' /\ Now' = Now
    BY <2>1 DEF Mapped, Now
  <2>3. fed' = Mapped.shown /\ Mapped' = Mapped
    BY <2>1, <2>2, MappedTo
  <2>4. Clocked!Feed
    BY <2>3 DEF Clocked!Feed
  <2>. QED
    BY <2>4 DEF Clocked!Next
<1>10. CASE UNCHANGED vars
  <2>1. Mapped' = Mapped /\ fed' = fed
    BY <1>10 DEF vars, pins, queues, loop, Mapped, Now
  <2>. QED
    BY <1>1, <2>1
<1>. QED
  BY <1>4, <1>5, <1>6, <1>7, <1>8, <1>9, <1>10 DEF Next

\* ImplementsClocked: the edge of a clock is one step for all the memories it drives, and
\* what they put out arrives with the next Solve, for any memories and any wiring in which
\* no clock is driven by a memory.
THEOREM MemoryImplementsClocked == Spec => ImplementsClocked
<1>. QED
  BY MemInit, MemNext, ClockedInit, ClockedNext, PTL DEF Spec, ImplementsClocked, Clocked!Spec

=============================================================================
