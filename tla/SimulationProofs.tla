-------------------------- MODULE SimulationProofs --------------------------
(***************************************************************************)
(* The Simulation for any Clocks, Probes and Components: its lists agree,  *)
(* a Probe has one sample for each tick of its Clock, and the loop of Run  *)
(* with everything between two runs implements Sampling.                   *)
(***************************************************************************)
EXTENDS Simulation, QueueLemmas, FiniteSetTheorems

-----------------------------------------------------------------------------
(* Purging entries from m_probes.                                          *)

\* How many of the entries kept there are up to the i-th.
Rank(K, i) == Cardinality(K \cap (1 .. i))

LEMMA IntervalCount ==
  ASSUME NEW n \in Nat
  PROVE  IsFiniteSet(1 .. n) /\ Cardinality(1 .. n) = n
<1>1. IsFiniteSet(1 .. n) /\ Cardinality(1 .. n) = IF 1 > n THEN 0 ELSE n - 1 + 1
  BY FS_Interval
<1>2. (IF 1 > n THEN 0 ELSE n - 1 + 1) = n
  OBVIOUS
<1> QED
  BY <1>1, <1>2

\* Every number up to their count is the rank of one of the entries that are kept.
LEMMA RankOnto ==
  ASSUME NEW m \in Nat, NEW K \in SUBSET (1 .. m)
  PROVE  /\ Cardinality(K) \in Nat
         /\ \A n \in 1 .. Cardinality(K) : \E i \in K : Rank(K, i) = n
<1>1. IsFiniteSet(1 .. m)
  BY FS_Interval
<1>2. IsFiniteSet(K) /\ Cardinality(K) \in Nat
  BY <1>1, FS_Subset, FS_CardinalityType
<1> DEFINE top == 1 .. Cardinality(K)
           f == [i \in K |-> Rank(K, i)]
<1>3. IsFiniteSet(top) /\ Cardinality(top) = Cardinality(K)
  BY <1>2, IntervalCount
<1>4. \A i \in K : /\ IsFiniteSet(K \cap (1 .. i))
                   /\ Cardinality(K \cap (1 .. i)) \in Nat
                   /\ Cardinality(K \cap (1 .. i)) <= Cardinality(K)
  <2> TAKE i \in K
  <2>1. K \cap (1 .. i) \in SUBSET K
    OBVIOUS
  <2> QED
    BY <1>2, <2>1, FS_Subset, FS_CardinalityType
<1>5. \A i \in K : Rank(K, i) \in top
  <2> TAKE i \in K
  <2>1. i \in K \cap (1 .. i)
    <3>1. i \in Nat /\ i >= 1
      OBVIOUS
    <3> QED
      BY <3>1
  <2>2. Cardinality(K \cap (1 .. i)) # 0
    BY <1>4, <2>1, FS_EmptySet
  <2>3. /\ Cardinality(K \cap (1 .. i)) \in Nat
        /\ Cardinality(K \cap (1 .. i)) <= Cardinality(K)
    BY <1>4
  <2> QED
    BY <1>2, <2>2, <2>3 DEF Rank
<1>6. ASSUME NEW i \in K, NEW j \in K, i < j PROVE Rank(K, i) # Rank(K, j)
  <2>1. K \cap (1 .. i) \in SUBSET (K \cap (1 .. j))
    BY <1>6
  <2>2. j \in K \cap (1 .. j) /\ j \notin K \cap (1 .. i)
    BY <1>6
  <2>3. Cardinality(K \cap (1 .. j)) = Cardinality(K \cap (1 .. i)) =>
          K \cap (1 .. j) = K \cap (1 .. i)
    BY <1>4, <2>1, FS_Subset
  <2> QED
    BY <2>2, <2>3 DEF Rank
<1>7. f \in Injection(K, top)
  <2>1. f \in [K -> top]
    BY <1>5
  <2>2. ASSUME NEW i \in K, NEW j \in K, f[i] = f[j] PROVE i = j
    <3>1. i \in Nat /\ j \in Nat /\ Rank(K, i) = Rank(K, j)
      BY <2>2
    <3> QED
      BY <1>6, <3>1
  <2> QED
    BY <2>1, <2>2 DEF Injection, IsInjective
<1>8. f \in Surjection(K, top)
  <2>1. Cardinality(K) = Cardinality(top)
    BY <1>3
  <2> HIDE DEF f, top
  <2> QED
    BY <1>3, <1>7, <2>1, FS_Injection
<1>9. \A n \in top : \E i \in K : f[i] = n
  BY <1>8 DEF Surjection
<1> QED
  BY <1>2, <1>9

\* A purge takes away what it should, and nothing else, and makes nothing double.
LEMMA WithoutElements ==
  ASSUME NEW E, NEW s \in Seq(E), NEW P
  PROVE  /\ Without(s, P) \in Seq(E)
         /\ Range(Without(s, P)) = Range(s) \ P
         /\ IsInjective(s) => IsInjective(Without(s, P))
<1> DEFINE K == Kept(s, P)
           At(n) == CHOOSE i \in K : Cardinality(K \cap (1 .. i)) = n
           t == Without(s, P)
<1>1. Len(s) \in Nat /\ DOMAIN s = 1 .. Len(s) /\ s \in [1 .. Len(s) -> E]
  BY LenProperties
<1>2. K \in SUBSET (1 .. Len(s)) /\ \A i \in 1 .. Len(s) : i \in K <=> s[i] \notin P
  BY <1>1 DEF Kept
<1> HIDE DEF K
<1>3. /\ Cardinality(K) \in Nat
      /\ \A n \in 1 .. Cardinality(K) : \E i \in K : Cardinality(K \cap (1 .. i)) = n
  BY <1>1, <1>2, RankOnto DEF Rank
<1>4. \A n \in 1 .. Cardinality(K) : At(n) \in K /\ Cardinality(K \cap (1 .. At(n))) = n
  BY <1>3
<1>5. t = [n \in 1 .. Cardinality(K) |-> s[At(n)]]
  BY DEF K, Without
<1> HIDE DEF At, t
<1>6. t \in [1 .. Cardinality(K) -> E] /\ DOMAIN t = 1 .. Cardinality(K)
  BY <1>1, <1>2, <1>4, <1>5
<1>7. t \in Seq(E)
  BY <1>3, <1>6, SeqDef
<1>8. ASSUME NEW i \in K PROVE \E n \in 1 .. Cardinality(K) : At(n) = i
  \* The entry of a rank is unique: an enumeration of K that is one to one is onto.
  <2> DEFINE top == 1 .. Cardinality(K)
             g == [n \in top |-> At(n)]
  <2>1. g \in Injection(top, K)
    <3>1. g \in [top -> K]
      BY <1>4
    <3>2. ASSUME NEW a \in top, NEW b \in top, g[a] = g[b] PROVE a = b
      BY <1>4, <3>2
    <3> QED
      BY <3>1, <3>2 DEF Injection, IsInjective
  <2>2. IsFiniteSet(K) /\ IsFiniteSet(top) /\ Cardinality(top) = Cardinality(K)
    <3>1. IsFiniteSet(1 .. Len(s))
      BY <1>1, FS_Interval
    <3>2. IsFiniteSet(K)
      BY <1>2, <3>1, FS_Subset
    <3>3. IsFiniteSet(top) /\ Cardinality(top) = Cardinality(K)
      BY <1>3, IntervalCount
    <3> QED
      BY <3>2, <3>3
  <2>3. g \in Surjection(top, K)
    <3> HIDE DEF g, top
    <3> QED
      BY <2>1, <2>2, FS_Injection
  <2>4. \A j \in K : \E n \in top : g[n] = j
    BY <2>3 DEF Surjection
  <2> QED
    BY <1>8, <2>4
<1>9. Range(t) = Range(s) \ P
  <2>1. ASSUME NEW n \in 1 .. Cardinality(K) PROVE t[n] \in Range(s) \ P
    <3>1. t[n] = s[At(n)] /\ At(n) \in 1 .. Len(s) /\ s[At(n)] \notin P
      BY <1>2, <1>4, <1>5
    <3> QED
      BY <1>1, <3>1 DEF Range
  <2>2. ASSUME NEW x \in Range(s) \ P PROVE x \in Range(t)
    <3>1. PICK i \in 1 .. Len(s) : s[i] = x
      BY <1>1 DEF Range
    <3>2. PICK n \in 1 .. Cardinality(K) : At(n) = i
      BY <1>2, <1>8, <3>1
    <3> QED
      BY <1>5, <1>6, <3>1, <3>2 DEF Range
  <2> QED
    BY <1>6, <2>1, <2>2 DEF Range
<1>10. ASSUME IsInjective(s) PROVE IsInjective(t)
  <2> SUFFICES ASSUME NEW a \in 1 .. Cardinality(K), NEW b \in 1 .. Cardinality(K), t[a] = t[b]
               PROVE  a = b
    BY <1>6 DEF IsInjective
  <2>1. At(a) \in 1 .. Len(s) /\ At(b) \in 1 .. Len(s) /\ s[At(a)] = s[At(b)]
    BY <1>2, <1>4, <1>5
  <2>2. At(a) = At(b)
    BY <1>1, <1>10, <2>1 DEF IsInjective
  <2> QED
    BY <1>4, <2>2
<1> QED
  BY <1>7, <1>9, <1>10 DEF t

-----------------------------------------------------------------------------
(* The inductive invariant.                                                *)

\* A Probe is on the list of its Clock exactly if it is on that of the Simulation, and
\* its Clock exists.
Lists ==
  /\ \A c \in Clock : watching[c] = {p \in Range(probes) : Trigger[p] = c}
  /\ \A p \in Range(probes) : Trigger[p] \in clocks
  /\ IsInjective(probes)

\* What is referred to exists.
References ==
  phase # "destroyed" =>
    /\ \A p \in Range(probes) : Target[p] \in parts
    /\ engines = parts \cap Magic

\* The Clocks marked as ticked are those that the loop of Run has ticked in this tick.
Turn ==
  /\ phase = "tick" => todo \subseteq clocks
  /\ \A c \in Clock : ticked[c] <=> phase = "tick" /\ c \in clocks /\ c \notin todo
  /\ \A c \in Clock : ticked[c] => index[c] > 0
  /\ \A c \in Clock : c \notin clocks => index[c] = 0

\* A Clock is where its count of ticks says in its pattern, and holds that level.
Levels ==
  /\ \A c \in Clock : sub_index[c] = index[c] % Len(Pattern[c])
  /\ \A c \in Clock : ticked[c] => held[c] = S!Level(c, index[c] - 1)

\* A Probe that is on no list has no samples: none from an earlier life.
Unsampled == \A p \in Probe : p \notin Range(probes) => samples[p] = <<>>

SimInv == TypeOK /\ Lists /\ References /\ Turn /\ Levels /\ Unsampled /\ SamplesInStep

Recorded == [index : Nat, state : State]

\* What the destructors of some Probes leave.
LEMMA Purged ==
  ASSUME TypeOK, Lists, NEW P, PurgeProbes(P)
  PROVE  /\ probes' \in Seq(Probe) /\ Range(probes') = Range(probes) \ P
         /\ IsInjective(probes')
         /\ watching' \in [Clock -> SUBSET Probe]
         /\ \A c \in Clock : watching'[c] = {p \in Range(probes') : Trigger[p] = c}
         /\ samples' \in [Probe -> Seq(Recorded)]
         /\ \A p \in Probe : samples'[p] = IF p \in P THEN <<>> ELSE samples[p]
<1>1. /\ probes \in Seq(Probe) /\ watching \in [Clock -> SUBSET Probe]
      /\ samples \in [Probe -> Seq(Recorded)] /\ IsInjective(probes)
  BY DEF TypeOK, Lists, Recorded
<1>2. /\ Without(probes, P) \in Seq(Probe)
      /\ Range(Without(probes, P)) = Range(probes) \ P
      /\ IsInjective(Without(probes, P))
  BY <1>1, WithoutElements
<1>3. /\ probes' = Without(probes, P)
      /\ watching' = [c \in Clock |-> watching[c] \ P]
      /\ samples' = [p \in Probe |-> IF p \in P THEN <<>> ELSE samples[p]]
  BY DEF PurgeProbes
<1>4. /\ probes' \in Seq(Probe) /\ Range(probes') = Range(probes) \ P
      /\ IsInjective(probes')
  <2>1. Range(probes') = Range(Without(probes, P)) /\ IsInjective(probes') = IsInjective(Without(probes, P))
    BY <1>3
  <2> QED
    BY <1>2, <1>3, <2>1
<1>5. ASSUME NEW c \in Clock PROVE watching'[c] = {p \in Range(probes') : Trigger[p] = c}
  <2>1. watching'[c] = watching[c] \ P
    BY <1>3
  <2>2. watching[c] = {p \in Range(probes) : Trigger[p] = c}
    BY DEF Lists
  <2> QED
    BY <1>4, <2>1, <2>2
<1>6. watching' \in [Clock -> SUBSET Probe]
  BY <1>1, <1>3
<1>7. <<>> \in Seq(Recorded)
  OBVIOUS
<1>8. /\ samples' \in [Probe -> Seq(Recorded)]
      /\ \A p \in Probe : samples'[p] = IF p \in P THEN <<>> ELSE samples[p]
  BY <1>1, <1>3, <1>7
<1> QED
  BY <1>4, <1>5, <1>6, <1>8

\* What CheckProbeTriggers records: the settled state, for the Probes whose Clock ticked.
LEMMA Triggered ==
  ASSUME TypeOK, Lists, Turn, circuit' \in State, CheckProbeTriggers
  PROVE  /\ samples' \in [Probe -> Seq(Recorded)]
         /\ \A p \in Probe : samples'[p] =
              IF p \in Range(probes) /\ ticked[Trigger[p]]
              THEN Append(samples[p], [index |-> index[Trigger[p]] - 1, state |-> circuit'])
              ELSE samples[p]
         /\ ticked' = [c \in Clock |-> FALSE]
<1>1. /\ samples \in [Probe -> Seq(Recorded)] /\ index \in [Clock -> Nat]
      /\ ticked \in [Clock -> BOOLEAN] /\ clocks \subseteq Clock
  BY DEF TypeOK, Recorded
<1>2. Trigger \in [Probe -> Clock]
  BY SimulationAssumption
<1>3. ASSUME NEW p \in Probe
      PROVE  (\E c \in clocks : ticked[c] /\ p \in watching[c])
               <=> p \in Range(probes) /\ ticked[Trigger[p]]
  <2>1. \A c \in clocks : p \in watching[c] <=> p \in Range(probes) /\ Trigger[p] = c
    BY <1>1 DEF Lists
  <2>2. p \in Range(probes) => Trigger[p] \in clocks
    BY DEF Lists
  <2> QED
    BY <2>1, <2>2
<1>4. samples' = [p \in Probe |->
        IF \E c \in clocks : ticked[c] /\ p \in watching[c]
        THEN Append(samples[p], [index |-> index[Trigger[p]] - 1, state |-> circuit'])
        ELSE samples[p]]
  BY DEF CheckProbeTriggers, Sample
<1>5. \A p \in Probe : samples'[p] =
        IF p \in Range(probes) /\ ticked[Trigger[p]]
        THEN Append(samples[p], [index |-> index[Trigger[p]] - 1, state |-> circuit'])
        ELSE samples[p]
  BY <1>3, <1>4
<1>6. ASSUME NEW p \in Probe PROVE samples'[p] \in Seq(Recorded)
  <2>1. CASE p \in Range(probes) /\ ticked[Trigger[p]]
    <3>1. index[Trigger[p]] - 1 \in Nat
      BY <1>1, <1>2, <2>1 DEF Turn
    <3>2. [index |-> index[Trigger[p]] - 1, state |-> circuit'] \in Recorded
      BY <3>1 DEF Recorded
    <3>3. samples'[p] = Append(samples[p], [index |-> index[Trigger[p]] - 1, state |-> circuit'])
      BY <1>5, <2>1
    <3> QED
      BY <1>1, <3>2, <3>3, AppendProperties
  <2>2. CASE ~(p \in Range(probes) /\ ticked[Trigger[p]])
    BY <1>1, <1>5, <2>2
  <2> QED
    BY <2>1, <2>2
<1>7. samples' \in [Probe -> Seq(Recorded)]
  BY <1>4, <1>6
<1>8. ticked' = [c \in Clock |-> FALSE]
  <2>1. ticked' = [c \in Clock |-> IF c \in clocks THEN FALSE ELSE ticked[c]]
    BY DEF CheckProbeTriggers
  <2>2. \A c \in Clock : (IF c \in clocks THEN FALSE ELSE ticked[c]) = FALSE
    BY <1>1 DEF Turn
  <2> QED
    BY <2>1, <2>2
<1> QED
  BY <1>5, <1>7, <1>8

\* Outside the loop's walk over the Clocks nothing is recorded.
LEMMA NothingTriggered ==
  ASSUME TypeOK, Lists, Turn, phase # "tick", circuit' \in State, CheckProbeTriggers
  PROVE  samples' = samples /\ ticked' = ticked
<1>1. ticked = [c \in Clock |-> FALSE]
  <2>1. ticked \in [Clock -> BOOLEAN] /\ \A c \in Clock : ticked[c] = FALSE
    BY DEF TypeOK, Turn
  <2> QED
    BY <2>1
<1>2. Trigger \in [Probe -> Clock] /\ samples \in [Probe -> Seq(Recorded)]
  BY SimulationAssumption DEF TypeOK, Recorded
<1>3. \A p \in Probe : samples'[p] = samples[p]
  BY <1>1, <1>2, Triggered
<1> QED
  BY <1>1, <1>2, <1>3, Triggered

\* Clock::Reset and Probe::Reset leave no count and no sample.
LEMMA WasReset ==
  ASSUME TypeOK, Lists, Unsampled, Reset
  PROVE  /\ index' = [c \in Clock |-> 0] /\ sub_index' = [c \in Clock |-> 0]
         /\ ticked' = [c \in Clock |-> FALSE] /\ samples' = [p \in Probe |-> <<>>]
<1>1. ASSUME NEW p \in Probe
      PROVE  (IF \E c \in clocks : p \in watching[c] THEN <<>> ELSE samples[p]) = <<>>
  <2>1. CASE p \in Range(probes)
    <3>1. Trigger[p] \in clocks /\ Trigger[p] \in Clock
      BY <2>1 DEF Lists, TypeOK
    <3>2. p \in watching[Trigger[p]]
      BY <2>1, <3>1 DEF Lists
    <3> QED
      BY <3>1, <3>2
  <2>2. CASE p \notin Range(probes)
    BY <2>2 DEF Unsampled
  <2> QED
    BY <2>1, <2>2
<1> QED
  BY <1>1 DEF Reset

-----------------------------------------------------------------------------
(* Every step keeps the types.                                             *)

LEMMA SimTypeStep ==
  ASSUME SimInv, [Next]_vars
  PROVE  TypeOK'
<1> USE SimulationAssumption DEF Phase
<1>0. TypeOK /\ Lists /\ Turn /\ Unsampled
  BY DEF SimInv
<1> DEFINE ListTypes ==
             /\ parts \subseteq Part /\ clocks \subseteq Clock /\ engines \subseteq Magic
             /\ probes \in Seq(Probe) /\ watching \in [Clock -> SUBSET Probe]
           ClockTypes ==
             /\ index \in [Clock -> Nat] /\ sub_index \in [Clock -> Nat]
             /\ ticked \in [Clock -> BOOLEAN]
           SampleTypes == samples \in [Probe -> Seq(Recorded)]
           LoopTypes ==
             /\ held \in [Source -> BOOLEAN] /\ circuit \in State /\ errors \in BOOLEAN
             /\ phase \in Phase /\ todo \subseteq Magic \cup Clock
           CountTypes ==
             /\ number_of_ticks \in Nat /\ tick_count \in Nat
             /\ input_check_count \in Nat /\ global_tick \in Nat
<1>t. ListTypes /\ ClockTypes /\ SampleTypes /\ LoopTypes /\ CountTypes
  BY <1>0 DEF TypeOK, Recorded
<1>q. ASSUME ListTypes', ClockTypes', SampleTypes', LoopTypes', CountTypes' PROVE TypeOK'
  BY <1>q DEF TypeOK, Recorded
<1>z. /\ [c \in Clock |-> 0] \in [Clock -> Nat] /\ [c \in Clock |-> FALSE] \in [Clock -> BOOLEAN]
      /\ [p \in Probe |-> <<>>] \in [Probe -> Seq(Recorded)]
  OBVIOUS
<1>1. ASSUME NEW c \in Clock, AddClock(c) PROVE TypeOK'
  BY <1>1, <1>t, <1>q DEF AddClock, clockwork, counters
<1>2. ASSUME NEW x \in Part, AddPart(x) PROVE TypeOK'
  BY <1>2, <1>t, <1>q DEF AddPart, clockwork, counters
<1>3. ASSUME NEW p \in Probe, AddProbe(p) PROVE TypeOK'
  <2>1. Append(probes, p) \in Seq(Probe)
    BY <1>3, <1>t
  <2>2. [watching EXCEPT ![Trigger[p]] = @ \cup {p}] \in [Clock -> SUBSET Probe]
    BY <1>3, <1>t
  <2>3. probes' \in Seq(Probe) /\ watching' \in [Clock -> SUBSET Probe] /\ errors' \in BOOLEAN
    BY <1>3, <1>t, <2>1, <2>2 DEF AddProbe
  <2> QED
    BY <1>3, <1>t, <1>q, <2>3 DEF AddProbe, clockwork, counters
<1>4. ASSUME NEW P, PurgeProbes(P)
      PROVE  /\ probes' \in Seq(Probe) /\ watching' \in [Clock -> SUBSET Probe] /\ SampleTypes'
  BY <1>0, <1>4, Purged
<1>5. ASSUME NEW p \in Probe, PurgeChildProbe(p) PROVE TypeOK'
  <2>1. PurgeProbes({p})
    BY <1>5 DEF PurgeChildProbe
  <2> QED
    BY <1>4, <1>5, <1>t, <1>q, <2>1 DEF PurgeChildProbe, clockwork, counters
<1>6. ASSUME NEW c \in Clock, PurgeClock(c) PROVE TypeOK'
  <2>1. PICK P : P = watching[c]
    OBVIOUS
  <2>2. PurgeProbes(P)
    BY <1>6, <2>1 DEF PurgeClock
  <2> QED
    BY <1>4, <1>6, <1>t, <1>q, <2>2 DEF PurgeClock, counters
<1>7. ASSUME NEW x \in Part, PurgePart(x) PROVE TypeOK'
  <2>1. PICK P : P = {p \in Range(probes) : Target[p] = x}
    OBVIOUS
  <2>2. PurgeProbes(P)
    BY <1>7, <2>1 DEF PurgePart
  <2> QED
    BY <1>4, <1>7, <1>t, <1>q, <2>2 DEF PurgePart, PurgeMagicEngine, clockwork, counters
<1>8. ASSUME NEW levels \in [Source -> BOOLEAN], circuit' = Settled[circuit, levels],
             CheckProbeTriggers
      PROVE  circuit' \in State /\ SampleTypes' /\ ticked' \in [Clock -> BOOLEAN]
  <2>1. circuit' \in State
    BY <1>8, <1>t
  <2> QED
    BY <1>0, <1>8, <1>z, <2>1, Triggered
<1>9. ASSUME NEW level \in BOOLEAN, ChildSet(level) PROVE TypeOK'
  <2>1. held' = [held EXCEPT ![Manual] = level] /\ SolveUnder(held')
    BY <1>9 DEF ChildSet
  <2>2. PICK h \in [Source -> BOOLEAN] : h = held'
    BY <1>t, <2>1
  <2>3. circuit' \in State /\ SampleTypes' /\ ticked' \in [Clock -> BOOLEAN]
    BY <1>8, <2>1, <2>2 DEF SolveUnder
  <2> QED
    BY <1>9, <1>t, <1>q, <2>2, <2>3 DEF ChildSet, lists, counters
<1>10. ASSUME NEW ticks \in RunLength, NEW restart \in BOOLEAN, Run(ticks, restart) PROVE TypeOK'
  <2>1. ClockTypes' /\ SampleTypes' /\ global_tick' \in Nat
    <3>1. CASE restart
      <4>1. Reset /\ global_tick' = 0
        BY <1>10, <3>1 DEF Run
      <4>2. /\ index' = [c \in Clock |-> 0] /\ sub_index' = [c \in Clock |-> 0]
            /\ ticked' = [c \in Clock |-> FALSE] /\ samples' = [p \in Probe |-> <<>>]
        BY <1>0, <4>1, WasReset
      <4> QED
        BY <1>z, <4>1, <4>2
    <3>2. CASE ~restart
      BY <1>10, <1>t, <3>2 DEF Run, clockwork
    <3> QED
      BY <3>1, <3>2
  <2>2. todo' \subseteq Magic \cup Clock /\ number_of_ticks' \in Nat
    BY <1>10, <1>t DEF Run
  <2> QED
    BY <1>10, <1>t, <1>q, <2>1, <2>2 DEF Run, lists
<1>11. ASSUME NEW x \in Magic, UpdateMagic(x) PROVE TypeOK'
  <2>1. held' \in [Source -> BOOLEAN]
    BY <1>11, <1>t DEF UpdateMagic
  <2> QED
    BY <1>11, <1>t, <1>q, <2>1 DEF UpdateMagic, lists, clockwork, counters
<1>12. CASE BeginTick
  BY <1>12, <1>t, <1>q DEF BeginTick, lists, clockwork, counters
<1>13. ASSUME NEW c \in Clock, Tick(c) PROVE TypeOK'
  <2>1. NextSub(c) \in Nat
    BY <1>t DEF NextSub
  <2>2. Pattern[c][sub_index[c] + 1] \in BOOLEAN
    <3>1. sub_index[c] < Len(Pattern[c])
      <4>1. sub_index[c] = index[c] % Len(Pattern[c]) /\ index[c] \in Nat
        BY <1>t DEF SimInv, Levels
      <4>2. Len(Pattern[c]) \in Nat \ {0}
        BY EmptySeq
      <4>3. ASSUME NEW i \in Nat, NEW n \in Nat \ {0} PROVE i % n < n
        OBVIOUS
      <4> QED
        BY <4>1, <4>2, <4>3
    <3>2. sub_index[c] + 1 \in 1 .. Len(Pattern[c]) /\ Pattern[c] \in Seq(BOOLEAN)
      BY <1>t, <3>1, LenProperties
    <3> QED
      BY <3>2, ElementOfSeq
  <2>3. held' = [held EXCEPT ![c] = Pattern[c][sub_index[c] + 1]]
    BY <1>13 DEF Tick
  <2>4. held' \in [Source -> BOOLEAN]
    BY <1>t, <2>2, <2>3
  <2>5. ClockTypes'
    BY <1>13, <1>t, <2>1 DEF Tick
  <2> QED
    BY <1>13, <1>t, <1>q, <2>4, <2>5 DEF Tick, lists, counters
<1>14. CASE SolveTick
  <2>1. PICK h \in [Source -> BOOLEAN] : h = held
    BY <1>t
  <2>2. circuit' \in State /\ SampleTypes' /\ ticked' \in [Clock -> BOOLEAN]
    BY <1>8, <1>14, <2>1 DEF SolveTick, SolveUnder
  <2>3. errors' \in BOOLEAN
    BY <1>14, <1>t DEF SolveTick
  <2> QED
    BY <1>14, <1>t, <1>q, <2>2, <2>3 DEF SolveTick, lists, counters
<1>15. CASE Stop
  BY <1>15, <1>t, <1>q DEF Stop, lists, clockwork, counters
<1>16. CASE EndTick
  <2>1. CountTypes'
    BY <1>16, <1>t DEF EndTick
  <2>2. phase' \in Phase /\ todo' \subseteq Magic \cup Clock
    BY <1>16, <1>t DEF EndTick
  <2> QED
    BY <1>16, <1>t, <1>q, <2>1, <2>2 DEF EndTick, lists, clockwork
<1>17. CASE Destroy
  <2>1. probes' \in Seq(Probe) /\ watching' \in [Clock -> SUBSET Probe]
    BY <1>17 DEF Destroy
  <2> QED
    BY <1>17, <1>t, <1>q, <1>z, <2>1 DEF Destroy, counters
<1>18. ASSUME NEW x \in Part, DestroyChild(x) PROVE TypeOK'
  BY <1>18, <1>t, <1>q DEF DestroyChild, clockwork, counters
<1>19. CASE UNCHANGED vars
  BY <1>19, <1>t, <1>q DEF vars, lists, clockwork, counters
<1> QED
  BY <1>1, <1>2, <1>3, <1>5, <1>6, <1>7, <1>9, <1>10, <1>11, <1>12, <1>13, <1>14, <1>15, <1>16,
     <1>17, <1>18, <1>19
     DEF Next, LoopStep

-----------------------------------------------------------------------------
(* Every step keeps the lists, and what they refer to.                     *)

LEMMA SimListsStep ==
  ASSUME SimInv, [Next]_vars
  PROVE  Lists' /\ References'
<1> USE SimulationAssumption
<1>0. TypeOK /\ Lists /\ References /\ Trigger \in [Probe -> Clock]
  BY DEF SimInv
<1>t. /\ probes \in Seq(Probe) /\ Range(probes) \subseteq Probe /\ clocks \subseteq Clock
      /\ watching \in [Clock -> SUBSET Probe] /\ parts \subseteq Part
  <2>1. \A s \in Seq(Probe) : Range(s) \subseteq Probe
    <3> TAKE s \in Seq(Probe)
    <3>1. DOMAIN s = 1 .. Len(s) /\ \A i \in 1 .. Len(s) : s[i] \in Probe
      BY LenProperties, ElementOfSeq
    <3> QED
      BY <3>1 DEF Range
  <2> QED
    BY <1>0, <2>1 DEF TypeOK
<1>a. /\ \A c \in Clock : watching[c] = {p \in Range(probes) : Trigger[p] = c}
      /\ \A p \in Range(probes) : Trigger[p] \in clocks
      /\ IsInjective(probes)
  BY <1>0 DEF Lists
<1>r. phase # "destroyed" =>
        (\A p \in Range(probes) : Target[p] \in parts) /\ engines = parts \cap Magic
  BY <1>0 DEF References
<1>s. ASSUME probes' = probes, watching' = watching, clocks \subseteq clocks' PROVE Lists'
  BY <1>a, <1>s DEF Lists, Range, IsInjective
<1>p. ASSUME NEW P, PurgeProbes(P)
      PROVE  /\ Range(probes') = Range(probes) \ P
             /\ (\A p \in Range(probes) \ P : Trigger[p] \in clocks') => Lists'
  <2>1. /\ Range(probes') = Range(probes) \ P /\ IsInjective(probes')
        /\ \A c \in Clock : watching'[c] = {p \in Range(probes') : Trigger[p] = c}
    BY <1>0, <1>p, Purged
  <2>2. ASSUME \A p \in Range(probes) \ P : Trigger[p] \in clocks' PROVE Lists'
    BY <2>1, <2>2 DEF Lists, Range, IsInjective
  <2> QED
    BY <2>1, <2>2
<1>u. ASSUME probes' = probes, parts \subseteq parts', engines' = parts' \cap Magic,
             phase # "destroyed"
      PROVE  References'
  BY <1>r, <1>u DEF References, Range
<1>1. ASSUME NEW c \in Clock, AddClock(c) PROVE Lists' /\ References'
  <2>1. Lists'
    BY <1>1, <1>s DEF AddClock
  <2>2. References'
    BY <1>1, <1>r, <1>u DEF AddClock
  <2> QED
    BY <2>1, <2>2
<1>2. ASSUME NEW x \in Part, AddPart(x) PROVE Lists' /\ References'
  <2>1. Lists'
    BY <1>2, <1>s DEF AddPart
  <2>2. References'
    BY <1>2, <1>r, <1>u DEF AddPart
  <2> QED
    BY <2>1, <2>2
<1>3. ASSUME NEW p \in Probe, AddProbe(p) PROVE Lists' /\ References'
  <2>1. CASE Target[p] \in parts
    <3>1. /\ Trigger[p] \in clocks /\ probes' = Append(probes, p) /\ clocks' = clocks
          /\ watching' = [watching EXCEPT ![Trigger[p]] = @ \cup {p}]
          /\ parts' = parts /\ engines' = engines /\ phase = "idle" /\ p \notin Range(probes)
      BY <1>3, <2>1 DEF AddProbe
    <3>2. Range(Append(probes, p)) = Range(probes) \cup {p} /\ IsInjective(Append(probes, p))
      BY <1>t, <1>a, <3>1, AppendElements, AppendNew
    <3>3. Range(probes') = Range(probes) \cup {p} /\ IsInjective(probes')
      <4>1. Range(probes') = Range(Append(probes, p))
            /\ IsInjective(probes') = IsInjective(Append(probes, p))
        BY <3>1
      <4> QED
        BY <3>2, <4>1
    <3>4. ASSUME NEW c \in Clock PROVE watching'[c] = {q \in Range(probes') : Trigger[q] = c}
      <4>1. CASE c = Trigger[p]
        <5>1. watching'[c] = {q \in Range(probes) : Trigger[q] = c} \cup {p}
          BY <1>t, <1>a, <3>1, <4>1
        <5> QED
          BY <3>3, <4>1, <5>1
      <4>2. CASE c # Trigger[p]
        <5>1. watching'[c] = {q \in Range(probes) : Trigger[q] = c}
          BY <1>t, <1>a, <3>1, <4>2
        <5> QED
          BY <3>3, <4>2, <5>1
      <4> QED
        BY <4>1, <4>2
    <3>5. \A q \in Range(probes') : Trigger[q] \in clocks'
      BY <1>a, <3>1, <3>3
    <3>6. Lists'
      BY <3>3, <3>4, <3>5 DEF Lists, Range, IsInjective
    <3>7. References'
      <4>1. (\A q \in Range(probes') : Target[q] \in parts') /\ engines' = parts' \cap Magic
        BY <1>r, <2>1, <3>1, <3>3
      <4> QED
        BY <4>1 DEF References, Range
    <3> QED
      BY <3>6, <3>7
  <2>2. CASE Target[p] \notin parts
    <3>1. /\ UNCHANGED <<probes, watching, clocks, parts, engines>> /\ phase = "idle"
      BY <1>3, <2>2 DEF AddProbe
    <3> QED
      BY <1>r, <1>s, <1>u, <3>1
  <2> QED
    BY <2>1, <2>2
<1>4. ASSUME NEW p \in Probe, PurgeChildProbe(p) PROVE Lists' /\ References'
  <2>1. PurgeProbes({p}) /\ UNCHANGED <<parts, clocks, engines>> /\ phase = "idle"
    BY <1>4 DEF PurgeChildProbe
  <2>2. Range(probes') = Range(probes) \ {p} /\ Lists'
    BY <1>a, <1>p, <2>1
  <2>3. References'
    <3>1. (\A q \in Range(probes') : Target[q] \in parts') /\ engines' = parts' \cap Magic
      BY <1>r, <2>1, <2>2
    <3> QED
      BY <3>1 DEF References, Range
  <2> QED
    BY <2>2, <2>3
<1>5. ASSUME NEW c \in Clock, PurgeClock(c) PROVE Lists' /\ References'
  <2>1. PICK P : P = watching[c]
    OBVIOUS
  <2>2. /\ PurgeProbes(P) /\ clocks' = clocks \ {c} /\ UNCHANGED <<parts, engines>>
        /\ phase = "idle"
    BY <1>5, <2>1 DEF PurgeClock
  <2>3. \A q \in Range(probes) \ P : Trigger[q] \in clocks'
    BY <1>a, <2>1, <2>2
  <2>4. Range(probes') = Range(probes) \ P /\ Lists'
    BY <1>p, <2>2, <2>3
  <2>5. References'
    <3>1. (\A q \in Range(probes') : Target[q] \in parts') /\ engines' = parts' \cap Magic
      BY <1>r, <2>2, <2>4
    <3> QED
      BY <3>1 DEF References, Range
  <2> QED
    BY <2>4, <2>5
<1>6. ASSUME NEW x \in Part, PurgePart(x) PROVE Lists' /\ References'
  <2>1. PICK P : P = {p \in Range(probes) : Target[p] = x}
    OBVIOUS
  <2>2. /\ PurgeProbes(P) /\ clocks' = clocks /\ parts' = parts \ {x}
        /\ engines' = engines \ {x} /\ phase = "idle"
    BY <1>6, <2>1 DEF PurgePart, PurgeMagicEngine
  <2>3. Range(probes') = Range(probes) \ P /\ Lists'
    BY <1>a, <1>p, <2>2
  <2>4. References'
    <3>1. (\A q \in Range(probes') : Target[q] \in parts') /\ engines' = parts' \cap Magic
      BY <1>r, <2>1, <2>2, <2>3
    <3> QED
      BY <3>1 DEF References, Range
  <2> QED
    BY <2>3, <2>4
<1>7. ASSUME UNCHANGED lists, phase # "destroyed" PROVE Lists' /\ References'
  BY <1>7, <1>r, <1>s, <1>u DEF lists
<1>8. CASE \/ \E level \in BOOLEAN : ChildSet(level)
           \/ \E ticks \in RunLength, restart \in BOOLEAN : Run(ticks, restart)
           \/ LoopStep
  <2>1. UNCHANGED lists /\ phase # "destroyed"
    BY <1>8 DEF ChildSet, Run, LoopStep, UpdateMagic, BeginTick, Tick, SolveTick, EndTick, Stop
  <2> QED
    BY <1>7, <2>1
<1>9. CASE Destroy
  <2>1. /\ clocks' = {} /\ probes' = <<>> /\ watching' = [c \in Clock |-> {}]
        /\ phase' = "destroyed"
    BY <1>9 DEF Destroy
  <2>2. Range(probes') = {} /\ IsInjective(probes')
    BY <2>1, EmptyQueue DEF Range, IsInjective
  <2>3. Lists'
    BY <2>1, <2>2 DEF Lists, Range, IsInjective
  <2> QED
    BY <2>1, <2>3 DEF References
<1>10. ASSUME NEW x \in Part, DestroyChild(x) PROVE Lists' /\ References'
  <2>1. UNCHANGED <<clocks, probes, watching>> /\ phase' = "destroyed"
    BY <1>10 DEF DestroyChild
  <2>2. Lists'
    BY <1>s, <2>1
  <2> QED
    BY <2>1, <2>2 DEF References
<1>11. CASE UNCHANGED vars
  <2>1. UNCHANGED <<clocks, probes, watching, parts, engines, phase>>
    BY <1>11 DEF vars, lists
  <2> QED
    BY <1>0, <1>s, <2>1 DEF References, Range
<1> QED
  BY <1>1, <1>2, <1>3, <1>4, <1>5, <1>6, <1>8, <1>9, <1>10, <1>11 DEF Next

-----------------------------------------------------------------------------
(* Every step keeps the Clocks in their turn and at their levels.          *)

\* The position in the pattern that NextSub steps to is the next count's.
LEMMA NextPosition ==
  ASSUME NEW i \in Nat, NEW n \in Nat \ {0}
  PROVE  (i + 1) % n = IF (i % n) + 1 >= n THEN 0 ELSE (i % n) + 1
<1>1. /\ i \div n \in Int /\ i % n \in 0 .. n - 1
      /\ i = n * (i \div n) + (i % n)
  <2>1. i % n \in 0 .. n - 1
    BY SMT
  <2>2. i = n * (i \div n) + (i % n)
    BY SMT
  <2>3. i \div n \in Int
    BY SMT
  <2> QED
    BY <2>1, <2>2, <2>3
<1>2. ASSUME NEW j \in Nat, NEW q \in Int, NEW r \in 0 .. n - 1, j = n * q + r
      PROVE  j % n = r
  BY <1>2, SMT
<1> DEFINE q == i \div n
           r == i % n
<1> HIDE DEF q, r
<1>3. q \in Int /\ r \in 0 .. n - 1 /\ i = n * q + r
  BY <1>1 DEF q, r
<1>4. CASE r + 1 >= n
  <2>1. i + 1 = n * (q + 1) + 0 /\ 0 \in 0 .. n - 1 /\ q + 1 \in Int /\ i + 1 \in Nat
    BY <1>3, <1>4
  <2>2. (i + 1) % n = 0
    BY <1>2, <2>1
  <2> QED
    BY <1>4, <2>2 DEF r
<1>5. CASE ~(r + 1 >= n)
  <2>1. i + 1 = n * q + (r + 1) /\ r + 1 \in 0 .. n - 1 /\ i + 1 \in Nat
    BY <1>3, <1>5
  <2>2. (i + 1) % n = r + 1
    BY <1>2, <1>3, <2>1
  <2> QED
    BY <1>5, <2>2 DEF r
<1> QED
  BY <1>4, <1>5

\* At rest no Clock is marked as ticked; whatever keeps the Clocks and their counts then
\* may change what the other sources hold.
LEMMA SimTurnStep ==
  ASSUME SimInv, [Next]_vars
  PROVE  Turn' /\ Levels'
<1> USE SimulationAssumption
<1>0. TypeOK /\ Lists /\ Turn /\ Levels /\ Unsampled
  BY DEF SimInv
<1>t. /\ clocks \subseteq Clock /\ index \in [Clock -> Nat] /\ sub_index \in [Clock -> Nat]
      /\ ticked \in [Clock -> BOOLEAN] /\ held \in [Source -> BOOLEAN]
      /\ circuit \in State
  BY <1>0 DEF TypeOK
<1>l. \A c \in Clock : Len(Pattern[c]) \in Nat \ {0} /\ 0 % Len(Pattern[c]) = 0
  <2> TAKE c \in Clock
  <2>1. Pattern[c] \in Seq(BOOLEAN) /\ Pattern[c] # <<>>
    OBVIOUS
  <2>2. Len(Pattern[c]) \in Nat \ {0}
    BY <2>1, EmptySeq
  <2>3. ASSUME NEW n \in Nat \ {0} PROVE 0 % n = 0
    OBVIOUS
  <2> QED
    BY <2>2, <2>3
<1>n. ASSUME phase # "tick" PROVE ticked = [c \in Clock |-> FALSE]
  BY <1>0, <1>t, <1>n DEF Turn
<1>s. ASSUME UNCHANGED <<index, sub_index>>, clocks \subseteq clocks', phase # "tick",
             phase' # "tick" \/ todo' = clocks', ticked' = ticked
      PROVE  Turn' /\ Levels'
  <2>1. \A c \in Clock : ticked'[c] = FALSE
    BY <1>n, <1>s
  <2>2. Turn'
    BY <1>0, <1>s, <2>1 DEF Turn
  <2>3. Levels'
    BY <1>0, <1>s, <2>1 DEF Levels
  <2> QED
    BY <2>2, <2>3
<1>z. ASSUME index' = [c \in Clock |-> 0], sub_index' = [c \in Clock |-> 0],
             ticked' = [c \in Clock |-> FALSE], phase' # "tick"
      PROVE  Turn' /\ Levels'
  <2>1. Turn'
    BY <1>z DEF Turn
  <2>2. Levels'
    BY <1>l, <1>z DEF Levels
  <2> QED
    BY <2>1, <2>2
<1>1. ASSUME NEW c \in Clock, AddClock(c) PROVE Turn' /\ Levels'
  BY <1>1, <1>s DEF AddClock, clockwork
<1>2. CASE \/ \E x \in Part : AddPart(x) \/ PurgePart(x) \/ DestroyChild(x)
           \/ \E p \in Probe : AddProbe(p) \/ PurgeChildProbe(p)
  <2>1. UNCHANGED <<index, sub_index, clocks, phase, ticked>> /\ phase # "tick"
    BY <1>2 DEF AddPart, PurgePart, DestroyChild, AddProbe, PurgeChildProbe, clockwork
  <2> QED
    BY <1>s, <2>1
<1>3. ASSUME NEW c \in Clock, PurgeClock(c) PROVE Turn' /\ Levels'
  <2>1. /\ index' = [index EXCEPT ![c] = 0] /\ sub_index' = [sub_index EXCEPT ![c] = 0]
        /\ ticked' = [ticked EXCEPT ![c] = FALSE] /\ clocks' = clocks \ {c}
        /\ phase # "tick" /\ phase' # "tick"
    BY <1>3 DEF PurgeClock
  <2>2. \A d \in Clock : ticked'[d] = FALSE
    BY <1>n, <2>1
  <2>3. Turn'
    BY <1>0, <1>t, <2>1, <2>2 DEF Turn
  <2>4. Levels'
    BY <1>0, <1>t, <1>l, <2>1, <2>2 DEF Levels
  <2> QED
    BY <2>3, <2>4
<1>4. ASSUME NEW level \in BOOLEAN, ChildSet(level) PROVE Turn' /\ Levels'
  <2>1. /\ held' = [held EXCEPT ![Manual] = level] /\ SolveUnder(held')
        /\ UNCHANGED <<clocks, index, sub_index, phase>> /\ phase # "tick"
    BY <1>4 DEF ChildSet, lists
  <2>2. PICK h \in [Source -> BOOLEAN] : h = held'
    BY <1>t, <2>1
  <2>3. circuit' = Settled[circuit, h] /\ CheckProbeTriggers
    BY <2>1, <2>2 DEF SolveUnder
  <2>4. circuit' \in State
    BY <1>t, <2>3
  <2>5. ticked' = ticked
    BY <1>0, <2>1, <2>3, <2>4, NothingTriggered
  <2> QED
    BY <1>s, <2>1, <2>5
<1>5. ASSUME NEW ticks \in RunLength, NEW restart \in BOOLEAN, Run(ticks, restart)
      PROVE  Turn' /\ Levels'
  <2>1. phase # "tick" /\ phase' # "tick" /\ clocks' = clocks
    BY <1>5 DEF Run, lists
  <2>2. CASE restart
    <3>1. Reset
      BY <1>5, <2>2 DEF Run
    <3>2. /\ index' = [c \in Clock |-> 0] /\ sub_index' = [c \in Clock |-> 0]
          /\ ticked' = [c \in Clock |-> FALSE]
      BY <1>0, <3>1, WasReset
    <3> QED
      BY <1>z, <2>1, <3>2
  <2>3. CASE ~restart
    <3>1. UNCHANGED clockwork
      BY <1>5, <2>3 DEF Run
    <3> QED
      BY <1>s, <2>1, <3>1 DEF clockwork
  <2> QED
    BY <2>2, <2>3
<1>6. CASE BeginTick \/ Stop \/ EndTick \/ (\E x \in Magic : UpdateMagic(x))
  <2>1. /\ UNCHANGED <<clocks, index, sub_index, ticked>> /\ phase # "tick"
        /\ phase' # "tick" \/ todo' = clocks'
    BY <1>6 DEF BeginTick, Stop, EndTick, UpdateMagic, lists, clockwork
  <2> QED
    BY <1>s, <2>1
<1>7. ASSUME NEW c \in Clock, Tick(c) PROVE Turn' /\ Levels'
  <2>1. /\ phase = "tick" /\ phase' = "tick" /\ c \in todo /\ todo' = todo \ {c}
        /\ held' = [held EXCEPT ![c] = Pattern[c][sub_index[c] + 1]]
        /\ index' = [index EXCEPT ![c] = @ + 1]
        /\ sub_index' = [sub_index EXCEPT ![c] = NextSub(c)]
        /\ ticked' = [ticked EXCEPT ![c] = TRUE] /\ clocks' = clocks
    BY <1>7 DEF Tick, lists
  <2>2. c \in clocks
    BY <1>0, <2>1 DEF Turn
  <2>3. Turn'
    BY <1>0, <1>t, <2>1, <2>2 DEF Turn
  <2>4. sub_index'[c] = index'[c] % Len(Pattern[c])
    <3>1. sub_index'[c] = NextSub(c) /\ index'[c] = index[c] + 1 /\ index[c] \in Nat
      BY <1>t, <2>1
    <3>2. sub_index[c] = index[c] % Len(Pattern[c])
      BY <1>0 DEF Levels
    <3>3. PICK n \in Nat \ {0} : n = Len(Pattern[c])
      BY <1>l
    <3>4. (index[c] + 1) % n = IF (index[c] % n) + 1 >= n THEN 0 ELSE (index[c] % n) + 1
      BY <3>1, NextPosition
    <3> QED
      BY <3>1, <3>2, <3>3, <3>4 DEF NextSub
  <2>5. held'[c] = S!Level(c, index'[c] - 1)
    <3>1. held'[c] = Pattern[c][sub_index[c] + 1] /\ index'[c] - 1 = index[c]
      BY <1>t, <2>1 DEF Source
    <3>2. sub_index[c] = index[c] % Len(Pattern[c])
      BY <1>0 DEF Levels
    <3> QED
      BY <3>1, <3>2 DEF S!Level
  <2>6. ASSUME NEW d \in Clock, d # c
        PROVE  /\ sub_index'[d] = sub_index[d] /\ index'[d] = index[d]
               /\ ticked'[d] = ticked[d] /\ held'[d] = held[d]
    BY <1>t, <2>1, <2>6 DEF Source
  <2>7. \A d \in Clock : sub_index'[d] = index'[d] % Len(Pattern[d])
    BY <1>0, <2>4, <2>6 DEF Levels
  <2>8. \A d \in Clock : ticked'[d] => held'[d] = S!Level(d, index'[d] - 1)
    BY <1>0, <2>5, <2>6 DEF Levels
  <2>9. Levels'
    BY <2>7, <2>8 DEF Levels, S!Level
  <2> QED
    BY <2>3, <2>9
<1>8. CASE SolveTick
  <2>1. /\ SolveUnder(held) /\ UNCHANGED <<clocks, index, sub_index>> /\ phase' # "tick"
    BY <1>8 DEF SolveTick, lists
  <2>2. PICK h \in [Source -> BOOLEAN] : h = held
    BY <1>t
  <2>3. circuit' = Settled[circuit, h] /\ CheckProbeTriggers
    BY <2>1, <2>2 DEF SolveUnder
  <2>4. circuit' \in State
    BY <1>t, <2>3
  <2>5. ticked' = [c \in Clock |-> FALSE]
    BY <1>0, <2>3, <2>4, Triggered
  <2>6. \A c \in Clock : ticked'[c] = FALSE
    BY <2>5
  <2>7. Turn'
    BY <1>0, <2>1, <2>6 DEF Turn
  <2>8. Levels'
    BY <1>0, <2>1, <2>6 DEF Levels
  <2> QED
    BY <2>7, <2>8
<1>9. CASE Destroy
  BY <1>9, <1>z DEF Destroy
<1>10. CASE UNCHANGED vars
  <2>1. UNCHANGED <<clocks, index, sub_index, ticked, held, phase, todo>>
    BY <1>10 DEF vars, lists, clockwork
  <2>2. Turn'
    BY <1>0, <2>1 DEF Turn
  <2>3. Levels'
    BY <1>0, <2>1 DEF Levels
  <2> QED
    BY <2>2, <2>3
<1> QED
  BY <1>1, <1>2, <1>3, <1>4, <1>5, <1>6, <1>7, <1>8, <1>9, <1>10 DEF Next, LoopStep

-----------------------------------------------------------------------------
(* Every step keeps the samples in step with the Clocks.                   *)

\* The samples s of a Probe are those of the last ticks of its Clock, up to the n-th.
InStep(s, n) == \A i \in 1 .. Len(s) : s[i].index + (Len(s) - i) + 1 = n

LEMMA InStepAppend ==
  ASSUME NEW s \in Seq(Recorded), NEW n \in Nat, InStep(s, n), NEW x \in State
  PROVE  InStep(Append(s, [index |-> n, state |-> x]), n + 1)
<1> DEFINE r == [index |-> n, state |-> x]
           t == Append(s, r)
<1>1. r \in Recorded /\ r.index = n
  BY DEF Recorded
<1> HIDE DEF r
<1>2. /\ Len(s) \in Nat /\ Len(t) = Len(s) + 1 /\ t[Len(s) + 1] = r
      /\ \A i \in 1 .. Len(s) : t[i] = s[i]
  BY <1>1, AppendProperties, LenProperties
<1> HIDE DEF t
<1>3. ASSUME NEW i \in 1 .. Len(t) PROVE t[i].index + (Len(t) - i) + 1 = n + 1
  <2>1. CASE i = Len(s) + 1
    BY <1>1, <1>2, <2>1
  <2>2. CASE i \in 1 .. Len(s)
    <3>1. s[i].index \in Nat
      <4>1. s[i] \in Recorded
        BY <2>2, ElementOfSeq
      <4> QED
        BY <4>1 DEF Recorded
    <3>2. s[i].index + (Len(s) - i) + 1 = n
      BY <2>2 DEF InStep
    <3>3. t[i] = s[i]
      BY <1>2, <2>2
    <3>4. t[i].index = s[i].index
      BY <3>3
    <3>5. PICK k \in Nat : k = s[i].index
      BY <3>1
    <3>6. k + (Len(s) - i) + 1 = n
      BY <3>2, <3>5
    <3>7. k + (Len(s) + 1 - i) + 1 = n + 1
      BY <1>2, <2>2, <3>6
    <3> QED
      BY <1>2, <3>4, <3>5, <3>7
  <2> QED
    BY <1>2, <2>1, <2>2
<1>4. InStep(t, n + 1)
  BY <1>3 DEF InStep
<1> QED
  BY <1>4 DEF t, r

\* The ticks recorded, as a function of the two variables.
Recording(n, marked) == IF marked THEN n - 1 ELSE n

LEMMA SimSamplesStep ==
  ASSUME SimInv, TypeOK', [Next]_vars
  PROVE  Unsampled' /\ SamplesInStep'
<1> USE SimulationAssumption
<1>0. TypeOK /\ Lists /\ Turn /\ Unsampled /\ Trigger \in [Probe -> Clock]
  BY DEF SimInv
<1>t. /\ clocks \subseteq Clock /\ index \in [Clock -> Nat] /\ ticked \in [Clock -> BOOLEAN]
      /\ held \in [Source -> BOOLEAN] /\ samples \in [Probe -> Seq(Recorded)]
      /\ circuit \in State /\ probes \in Seq(Probe)
  BY <1>0 DEF TypeOK, Recorded
<1>r. Range(probes) \subseteq Probe
  <2>1. \A i \in DOMAIN probes : probes[i] \in Probe
    BY <1>t, ElementOfSeq, LenProperties
  <2> QED
    BY <2>1 DEF Range
<1>a. \A p \in Range(probes) :
        InStep(samples[p], Recording(index[Trigger[p]], ticked[Trigger[p]]))
  <2>1. \A p \in Range(probes) : DOMAIN samples[p] = 1 .. Len(samples[p])
    BY <1>t, <1>r, LenProperties
  <2> QED
    BY <2>1 DEF SimInv, SamplesInStep, Taken, Recording, InStep
<1>e. InStep(<<>>, 0) /\ \A n : InStep(<<>>, n)
  BY DEF InStep
<1>q. ASSUME \A p \in Range(probes') :
               InStep(samples'[p], Recording(index'[Trigger[p]], ticked'[Trigger[p]]))
      PROVE  SamplesInStep'
  <2>1. samples' \in [Probe -> Seq(Recorded)] /\ probes' \in Seq(Probe)
    BY DEF TypeOK, Recorded
  <2>2. Range(probes') \subseteq Probe
    <3>1. \A i \in DOMAIN probes' : probes'[i] \in Probe
      BY <2>1, ElementOfSeq, LenProperties
    <3> QED
      BY <3>1 DEF Range
  <2>3. \A p \in Range(probes') : DOMAIN samples'[p] = 1 .. Len(samples'[p])
    BY <2>1, <2>2, LenProperties
  <2>4. \A p \in Range(probes') : \A i \in DOMAIN samples'[p] :
          samples'[p][i].index + (Len(samples'[p]) - i) + 1
            = Recording(index'[Trigger[p]], ticked'[Trigger[p]])
    BY <1>q, <2>3 DEF InStep
  <2> QED
    BY <2>4 DEF SamplesInStep, Taken, Recording, Range
\* Where nothing is recorded and no Probe added.
<1>s. ASSUME samples' = samples, Range(probes') = Range(probes),
             \A p \in Range(probes) :
               Recording(index'[Trigger[p]], ticked'[Trigger[p]])
                 = Recording(index[Trigger[p]], ticked[Trigger[p]])
      PROVE  Unsampled' /\ SamplesInStep'
  <2>1. Unsampled'
    BY <1>0, <1>s DEF Unsampled, Range
  <2>2. SamplesInStep'
    BY <1>a, <1>q, <1>s
  <2> QED
    BY <2>1, <2>2
<1>p. ASSUME NEW P, PurgeProbes(P),
             \A p \in Range(probes) \ P :
               index'[Trigger[p]] = index[Trigger[p]] /\ ticked'[Trigger[p]] = ticked[Trigger[p]]
      PROVE  Unsampled' /\ SamplesInStep'
  <2>1. /\ Range(probes') = Range(probes) \ P
        /\ \A p \in Probe : samples'[p] = IF p \in P THEN <<>> ELSE samples[p]
    BY <1>0, <1>p, Purged
  <2>2. Unsampled'
    BY <1>0, <2>1 DEF Unsampled, Range
  <2>3. \A p \in Range(probes') : samples'[p] = samples[p]
    BY <1>r, <2>1
  <2>4. SamplesInStep'
    BY <1>a, <1>p, <1>q, <2>1, <2>3
  <2> QED
    BY <2>2, <2>4
<1>c. ASSUME samples' = [p \in Probe |-> <<>>], index' = [c \in Clock |-> 0],
             ticked' = [c \in Clock |-> FALSE], Range(probes') \subseteq Probe
      PROVE  Unsampled' /\ SamplesInStep'
  <2>1. Unsampled'
    BY <1>c DEF Unsampled
  <2>2. SamplesInStep'
    BY <1>c, <1>e, <1>q DEF Recording
  <2> QED
    BY <2>1, <2>2
<1>1. CASE \/ \E c \in Clock : AddClock(c)
           \/ \E x \in Part : AddPart(x) \/ DestroyChild(x)
           \/ BeginTick \/ Stop \/ EndTick \/ (\E x \in Magic : UpdateMagic(x))
           \/ UNCHANGED vars
  <2>1. UNCHANGED <<samples, probes, index, ticked>>
    BY <1>1 DEF AddClock, AddPart, DestroyChild, BeginTick, Stop, EndTick, UpdateMagic,
       clockwork, lists, vars
  <2> QED
    BY <1>s, <2>1
<1>2. ASSUME NEW p \in Probe, AddProbe(p) PROVE Unsampled' /\ SamplesInStep'
  <2>1. UNCHANGED <<samples, index, ticked>> /\ p \notin Range(probes)
    BY <1>2 DEF AddProbe, clockwork
  <2>2. CASE Target[p] \in parts
    <3>1. probes' = Append(probes, p)
      BY <1>2, <2>2 DEF AddProbe
    <3>2. Range(Append(probes, p)) = Range(probes) \cup {p}
      BY <1>t, AppendElements
    <3>3. Range(probes') = Range(probes) \cup {p}
      BY <3>1, <3>2
    <3>4. Unsampled'
      BY <1>0, <2>1, <3>3 DEF Unsampled, Range
    <3>5. samples'[p] = <<>>
      BY <1>0, <2>1 DEF Unsampled
    <3>6. SamplesInStep'
      BY <1>a, <1>e, <1>q, <2>1, <3>3, <3>5
    <3> QED
      BY <3>4, <3>6
  <2>3. CASE Target[p] \notin parts
    <3>1. probes' = probes
      BY <1>2, <2>3 DEF AddProbe
    <3> QED
      BY <1>s, <2>1, <3>1
  <2> QED
    BY <2>2, <2>3
<1>3. ASSUME NEW p \in Probe, PurgeChildProbe(p) PROVE Unsampled' /\ SamplesInStep'
  <2>1. PurgeProbes({p}) /\ UNCHANGED <<index, ticked>>
    BY <1>3 DEF PurgeChildProbe, clockwork
  <2> QED
    BY <1>p, <2>1
<1>4. ASSUME NEW x \in Part, PurgePart(x) PROVE Unsampled' /\ SamplesInStep'
  <2>1. PICK P : P = {p \in Range(probes) : Target[p] = x}
    OBVIOUS
  <2>2. PurgeProbes(P) /\ UNCHANGED <<index, ticked>>
    BY <1>4, <2>1 DEF PurgePart, clockwork
  <2> QED
    BY <1>p, <2>2
<1>5. ASSUME NEW c \in Clock, PurgeClock(c) PROVE Unsampled' /\ SamplesInStep'
  <2>1. PICK P : P = watching[c]
    OBVIOUS
  <2>2. /\ PurgeProbes(P) /\ index' = [index EXCEPT ![c] = 0]
        /\ ticked' = [ticked EXCEPT ![c] = FALSE]
    BY <1>5, <2>1 DEF PurgeClock
  <2>3. \A p \in Range(probes) \ P : Trigger[p] \in Clock /\ Trigger[p] # c
    BY <1>0, <1>r, <2>1 DEF Lists
  <2>4. \A p \in Range(probes) \ P :
          index'[Trigger[p]] = index[Trigger[p]] /\ ticked'[Trigger[p]] = ticked[Trigger[p]]
    BY <1>t, <2>2, <2>3
  <2> QED
    BY <1>p, <2>2, <2>4
<1>6. ASSUME NEW level \in BOOLEAN, ChildSet(level) PROVE Unsampled' /\ SamplesInStep'
  <2>1. /\ held' = [held EXCEPT ![Manual] = level] /\ SolveUnder(held')
        /\ UNCHANGED <<probes, index>> /\ phase # "tick"
    BY <1>6 DEF ChildSet, lists
  <2>2. PICK h \in [Source -> BOOLEAN] : h = held'
    BY <1>t, <2>1
  <2>3. circuit' \in State /\ CheckProbeTriggers
    BY <2>1 DEF SolveUnder, TypeOK
  <2>4. samples' = samples /\ ticked' = ticked
    BY <1>0, <2>1, <2>3, NothingTriggered
  <2> QED
    BY <1>s, <2>1, <2>4
<1>7. ASSUME NEW ticks \in RunLength, NEW restart \in BOOLEAN, Run(ticks, restart)
      PROVE  Unsampled' /\ SamplesInStep'
  <2>1. probes' = probes
    BY <1>7 DEF Run, lists
  <2>2. CASE restart
    <3>1. Reset
      BY <1>7, <2>2 DEF Run
    <3>2. /\ index' = [c \in Clock |-> 0] /\ samples' = [p \in Probe |-> <<>>]
          /\ ticked' = [c \in Clock |-> FALSE]
      BY <1>0, <3>1, WasReset
    <3> QED
      BY <1>c, <1>r, <2>1, <3>2
  <2>3. CASE ~restart
    <3>1. UNCHANGED <<samples, index, ticked>>
      BY <1>7, <2>3 DEF Run, clockwork
    <3> QED
      BY <1>s, <2>1, <3>1
  <2> QED
    BY <2>2, <2>3
<1>8. ASSUME NEW c \in Clock, Tick(c) PROVE Unsampled' /\ SamplesInStep'
  <2>1. /\ c \in todo /\ index' = [index EXCEPT ![c] = @ + 1]
        /\ ticked' = [ticked EXCEPT ![c] = TRUE] /\ UNCHANGED <<probes, samples>>
    BY <1>8 DEF Tick, lists
  <2>2. ticked[c] = FALSE
    BY <1>0, <1>t, <2>1 DEF Turn
  <2>3. ASSUME NEW p \in Range(probes)
        PROVE  Recording(index'[Trigger[p]], ticked'[Trigger[p]])
                 = Recording(index[Trigger[p]], ticked[Trigger[p]])
    <3>1. Trigger[p] \in Clock /\ index[Trigger[p]] \in Nat
      BY <1>0, <1>r, <1>t
    <3>2. CASE Trigger[p] = c
      BY <1>t, <2>1, <2>2, <3>1, <3>2 DEF Recording
    <3>3. CASE Trigger[p] # c
      BY <1>t, <2>1, <3>1, <3>3 DEF Recording
    <3> QED
      BY <3>2, <3>3
  <2> QED
    BY <1>s, <2>1, <2>3
<1>9. CASE SolveTick
  <2>1. SolveUnder(held) /\ UNCHANGED <<probes, index>>
    BY <1>9 DEF SolveTick, lists
  <2>2. circuit' \in State /\ CheckProbeTriggers
    BY <2>1 DEF SolveUnder, TypeOK
  <2>3. /\ \A p \in Probe : samples'[p] =
             IF p \in Range(probes) /\ ticked[Trigger[p]]
             THEN Append(samples[p], [index |-> index[Trigger[p]] - 1, state |-> circuit'])
             ELSE samples[p]
        /\ ticked' = [c \in Clock |-> FALSE]
    BY <1>0, <2>2, Triggered
  <2>4. Unsampled'
    BY <1>0, <2>1, <2>3 DEF Unsampled
  <2>5. ASSUME NEW p \in Range(probes)
        PROVE  InStep(samples'[p], Recording(index'[Trigger[p]], ticked'[Trigger[p]]))
    <3>1. /\ p \in Probe /\ Trigger[p] \in Clock /\ index[Trigger[p]] \in Nat
          /\ InStep(samples[p], Recording(index[Trigger[p]], ticked[Trigger[p]]))
          /\ ticked'[Trigger[p]] = FALSE /\ index'[Trigger[p]] = index[Trigger[p]]
      BY <1>0, <1>a, <1>r, <1>t, <2>1, <2>3
    <3>2. CASE ticked[Trigger[p]]
      <4>1. index[Trigger[p]] > 0
        BY <1>0, <3>1, <3>2 DEF Turn
      <4>2. PICK n \in Nat, x \in State, s \in Seq(Recorded) :
              n = index[Trigger[p]] - 1 /\ x = circuit' /\ s = samples[p]
        BY <1>t, <2>2, <3>1, <4>1
      <4>3. InStep(s, n)
        BY <3>1, <3>2, <4>2 DEF Recording
      <4>4. InStep(Append(s, [index |-> n, state |-> x]), n + 1)
        BY <4>3, InStepAppend
      <4>5. samples'[p] = Append(s, [index |-> n, state |-> x])
        BY <2>3, <3>1, <3>2, <4>2
      <4>6. Recording(index'[Trigger[p]], ticked'[Trigger[p]]) = n + 1
        BY <3>1, <4>2 DEF Recording
      <4> QED
        BY <4>4, <4>5, <4>6
    <3>3. CASE ~ticked[Trigger[p]]
      <4>1. samples'[p] = samples[p]
        BY <2>3, <3>1, <3>3
      <4>2. Recording(index'[Trigger[p]], ticked'[Trigger[p]])
              = Recording(index[Trigger[p]], ticked[Trigger[p]])
        BY <3>1, <3>3 DEF Recording
      <4> QED
        BY <3>1, <4>1, <4>2
    <3> QED
      BY <3>2, <3>3
  <2>6. SamplesInStep'
    BY <1>q, <2>1, <2>5
  <2> QED
    BY <2>4, <2>6
<1>10. CASE Destroy
  <2>1. /\ probes' = <<>> /\ samples' = [p \in Probe |-> <<>>]
        /\ index' = [c \in Clock |-> 0] /\ ticked' = [c \in Clock |-> FALSE]
    BY <1>10 DEF Destroy
  <2>2. Range(probes') = {}
    BY <2>1, EmptyQueue DEF Range
  <2> QED
    BY <1>c, <2>1, <2>2
<1> QED
  BY <1>1, <1>2, <1>3, <1>4, <1>5, <1>6, <1>7, <1>8, <1>9, <1>10 DEF Next, LoopStep

-----------------------------------------------------------------------------
(* The theorems.                                                           *)

\* The Simulation as its constructor leaves it.
LEMMA SimInit == Init => SimInv
<1> SUFFICES ASSUME Init PROVE SimInv
  OBVIOUS
<1> USE SimulationAssumption
<1>1. /\ parts = {} /\ clocks = {} /\ probes = <<>> /\ engines = {}
      /\ watching = [c \in Clock |-> {}]
      /\ index = [c \in Clock |-> 0] /\ sub_index = [c \in Clock |-> 0]
      /\ ticked = [c \in Clock |-> FALSE] /\ samples = [p \in Probe |-> <<>>]
      /\ held = [s \in Source |-> FALSE] /\ circuit = Start /\ errors = FALSE
      /\ phase = "idle" /\ todo = {}
      /\ number_of_ticks = 0 /\ tick_count = 0 /\ input_check_count = 0 /\ global_tick = 0
  BY DEF Init
<1>2. /\ probes \in Seq(Probe) /\ Range(probes) = {} /\ IsInjective(probes)
  BY <1>1, EmptyQueue DEF Range, IsInjective
<1>3. samples \in [Probe -> Seq([index : Nat, state : State])]
  <2>1. <<>> \in Seq([index : Nat, state : State])
    OBVIOUS
  <2> QED
    BY <1>1, <2>1
<1>4. TypeOK
  BY <1>1, <1>2, <1>3 DEF TypeOK, Phase
<1>5. Lists /\ References
  BY <1>1, <1>2 DEF Lists, References
<1>6. Turn
  BY <1>1 DEF Turn
<1>7. Levels
  <2>1. \A c \in Clock : Len(Pattern[c]) \in Nat \ {0}
    <3> TAKE c \in Clock
    <3>1. Pattern[c] \in Seq(BOOLEAN) /\ Pattern[c] # <<>>
      OBVIOUS
    <3> QED
      BY <3>1
  <2>2. \A n \in Nat \ {0} : 0 % n = 0
    OBVIOUS
  <2>3. \A c \in Clock : sub_index[c] = (index[c] % Len(Pattern[c]))
    BY <1>1, <2>1, <2>2
  <2> QED
    BY <1>1, <2>3 DEF Levels
<1>8. Unsampled /\ SamplesInStep
  BY <1>1, <1>2 DEF Unsampled, SamplesInStep
<1> QED
  BY <1>4, <1>5, <1>6, <1>7, <1>8 DEF SimInv

\* Every step of the Simulation keeps the invariant.
LEMMA SimStep == SimInv /\ [Next]_vars => SimInv'
<1> SUFFICES ASSUME SimInv, [Next]_vars PROVE SimInv'
  OBVIOUS
<1>1. TypeOK'
  BY SimTypeStep
<1>2. Lists' /\ References'
  BY SimListsStep
<1>3. Turn' /\ Levels'
  BY SimTurnStep
<1>4. Unsampled' /\ SamplesInStep'
  BY <1>1, SimSamplesStep
<1> QED
  BY <1>1, <1>2, <1>3, <1>4 DEF SimInv

\* The inductive invariant of the Simulation holds in every state it reaches.
THEOREM SimulationInvariant == Spec => []SimInv
<1> QED
  BY SimInit, SimStep, PTL DEF Spec

\* The state of the Simulation keeps its types.
THEOREM SimulationTypes == Spec => []TypeOK
<1>1. SimInv => TypeOK
  BY DEF SimInv
<1> QED
  BY <1>1, SimulationInvariant, PTL

\* The lists of Probes, Clocks and magic engines agree, whatever is added and purged
\* between two runs (AddProbe, PurgeProbe, PurgeClock, PurgeComponentFromProbes).
THEOREM ListsAlwaysAgree == Spec => []ListsAgree
<1>1. SimInv => ListsAgree
  BY DEF SimInv, Lists, References, ListsAgree
<1> QED
  BY <1>1, SimulationInvariant, PTL

\* A Probe has one sample for each tick of its Clock (CheckProbeTriggers, Clock::Tick,
\* Clock::Reset, Probe::Reset), for any number of Clocks and Probes and any pattern.
THEOREM SamplesAlwaysInStep == Spec => []SamplesInStep
<1>1. SimInv => SamplesInStep
  BY DEF SimInv
<1> QED
  BY <1>1, SimulationInvariant, PTL

-----------------------------------------------------------------------------
(* The Simulation implements Sampling.                                     *)

\* The state of Sampling, of which nothing but this is recorded.
Count == [c \in Clock |-> Taken(c)]

\* A tick of a Clock is not a tick of Sampling yet: it is taken when the circuit settles.
LEMMA CountOfTick ==
  ASSUME SimInv, NEW c \in Clock, Tick(c)
  PROVE  Count' = Count
<1>1. /\ phase = "tick" /\ c \in todo /\ index' = [index EXCEPT ![c] = @ + 1]
      /\ ticked' = [ticked EXCEPT ![c] = TRUE]
  BY DEF Tick
<1>2. /\ index \in [Clock -> Nat] /\ ticked \in [Clock -> BOOLEAN] /\ ticked[c] = FALSE
  BY <1>1 DEF SimInv, TypeOK, Turn
<1>3. ASSUME NEW d \in Clock PROVE Taken(d)' = Taken(d)
  <2>1. CASE d = c
    <3>1. index'[d] = index[d] + 1 /\ ticked'[d] = TRUE /\ ticked[d] = FALSE
      BY <1>1, <1>2, <2>1
    <3> QED
      BY <1>2, <3>1 DEF Taken
  <2>2. CASE d # c
    <3>1. index'[d] = index[d] /\ ticked'[d] = ticked[d]
      BY <1>1, <1>2, <2>2
    <3> QED
      BY <3>1 DEF Taken
  <2> QED
    BY <2>1, <2>2
<1> QED
  BY <1>3 DEF Count

\* A purge is one of Sampling if the Clocks that go leave no Probe behind.
LEMMA PurgeMapped ==
  ASSUME SimInv, NEW C \in SUBSET Clock, NEW P \in SUBSET Probe, PurgeProbes(P),
         clocks' = clocks \ C, \A p \in Range(probes) \ P : Trigger[p] \notin C,
         \A c \in Clock : index'[c] = IF c \in C THEN 0 ELSE index[c],
         \A c \in Clock : ticked'[c] = IF c \in C THEN FALSE ELSE ticked[c],
         circuit' = circuit
  PROVE  S!Next
<1>1. Range(probes') = Range(probes) \ P
  BY Purged DEF SimInv
<1>2. samples' = [p \in Probe |-> IF p \in P THEN <<>> ELSE samples[p]]
  BY DEF PurgeProbes
<1>3. Count' = [c \in Clock |-> IF c \in C THEN 0 ELSE Count[c]]
  <2>1. ASSUME NEW c \in Clock PROVE Taken(c)' = IF c \in C THEN 0 ELSE Taken(c)
    <3>1. CASE c \in C
      <4>1. index'[c] = 0 /\ ticked'[c] = FALSE
        BY <3>1
      <4>2. Taken(c)' = 0
        BY <4>1, Zenon DEF Taken
      <4> QED
        BY <3>1, <4>2
    <3>2. CASE c \notin C
      <4>1. index'[c] = index[c] /\ ticked'[c] = ticked[c]
        BY <3>2
      <4> QED
        BY <3>2, <4>1 DEF Taken
    <3> QED
      BY <3>1, <3>2
  <2>2. \A c \in Clock : Count[c] = Taken(c)
    BY DEF Count
  <2> QED
    BY <2>1, <2>2 DEF Count
<1>4. S!Purge(C, P)
  <2>1. \A p \in Range(probes') : Trigger[p] \notin C
    BY <1>1
  <2> QED
    BY <1>1, <1>2, <1>3, <2>1 DEF S!Purge, Count
<1> QED
  BY <1>4 DEF S!Next

\* The circuit settles in a tick of the loop of Run: every Clock has ticked, each holds
\* the level of its pattern, and every Probe samples.
LEMMA SolveTickMapped ==
  ASSUME SimInv, circuit' \in State, SolveTick
  PROVE  S!Tick
<1> USE SimulationAssumption
<1>0. TypeOK /\ Lists /\ Turn /\ Levels /\ Unsampled
  BY DEF SimInv
<1>1. /\ phase = "tick" /\ todo = {} /\ circuit' = Settled[circuit, held]
      /\ CheckProbeTriggers /\ UNCHANGED <<clocks, probes, index>>
  BY DEF SolveTick, SolveUnder, lists
<1>2. /\ held \in [Source -> BOOLEAN] /\ index \in [Clock -> Nat] /\ clocks \subseteq Clock
      /\ ticked \in [Clock -> BOOLEAN] /\ probes \in Seq(Probe)
      /\ samples \in [Probe -> Seq(Recorded)] /\ Trigger \in [Probe -> Clock]
  BY <1>0 DEF TypeOK, Recorded
<1>3. \A c \in Clock : (c \in clocks => ticked[c] = TRUE) /\ (c \notin clocks => ticked[c] = FALSE)
  BY <1>0, <1>1, <1>2 DEF Turn
<1>4. \A c \in Clock : c \in clocks => Count[c] = index[c] - 1
  BY <1>3 DEF Count, Taken
<1>5. \A c \in clocks : held[c] = S!Level(c, Count[c])
  BY <1>0, <1>2, <1>3, <1>4 DEF Levels
<1>6. /\ ticked' = [c \in Clock |-> FALSE]
      /\ samples' \in [Probe -> Seq(Recorded)]
      /\ \A p \in Probe : samples'[p] =
           IF p \in Range(probes) /\ ticked[Trigger[p]]
           THEN Append(samples[p], [index |-> index[Trigger[p]] - 1, state |-> circuit'])
           ELSE samples[p]
  BY <1>0, <1>1, Triggered
<1>7. Count' = [c \in Clock |-> IF c \in clocks THEN Count[c] + 1 ELSE 0]
  <2>1. ASSUME NEW c \in Clock PROVE Taken(c)' = IF c \in clocks THEN Count[c] + 1 ELSE 0
    <3>1. index'[c] = index[c] /\ ticked'[c] = FALSE /\ index[c] \in Nat
      BY <1>1, <1>2, <1>6
    <3>2. Taken(c)' = index[c]
      BY <3>1 DEF Taken
    <3>3. index[c] = IF c \in clocks THEN Count[c] + 1 ELSE 0
      <4>1. CASE c \in clocks
        <5>1. PICK n \in Nat : n = index[c]
          BY <3>1
        <5>2. Count[c] = n - 1
          BY <1>4, <4>1, <5>1
        <5>3. Count[c] + 1 = n
          BY <5>2
        <5> QED
          BY <4>1, <5>1, <5>3, Zenon
      <4>2. CASE c \notin clocks
        BY <1>0, <4>2 DEF Turn
      <4> QED
        BY <4>1, <4>2
    <3> QED
      BY <3>2, <3>3, Zenon
  <2> QED
    BY <2>1 DEF Count
<1>8. samples' = [p \in Probe |->
        IF p \in Range(probes)
        THEN Append(samples[p], [index |-> Count[Trigger[p]], state |-> circuit'])
        ELSE <<>>]
  <2>1. ASSUME NEW p \in Probe
        PROVE  samples'[p] =
                 IF p \in Range(probes)
                 THEN Append(samples[p], [index |-> Count[Trigger[p]], state |-> circuit'])
                 ELSE <<>>
    <3>1. CASE p \in Range(probes)
      <4>1. Trigger[p] \in clocks /\ Trigger[p] \in Clock
        BY <1>0, <1>2, <3>1 DEF Lists
      <4>2. ticked[Trigger[p]] /\ Count[Trigger[p]] = index[Trigger[p]] - 1
        BY <1>3, <1>4, <4>1
      <4> QED
        BY <1>6, <3>1, <4>2
    <3>2. CASE p \notin Range(probes)
      BY <1>0, <1>6, <3>2 DEF Unsampled
    <3> QED
      BY <3>1, <3>2
  <2> QED
    BY <1>6, <2>1
<1> QED
  BY <1>1, <1>2, <1>5, <1>7, <1>8 DEF S!Tick, Count, Range

\* Every step is one of Sampling, or leaves everything that is recorded as it is.
LEMMA SimMapped ==
  ASSUME SimInv, TypeOK', [Next]_vars
  PROVE  [S!Next]_(S!vars)
<1> USE SimulationAssumption
<1>0. TypeOK /\ Lists /\ Turn /\ Levels /\ Unsampled
  BY DEF SimInv
<1>t. /\ held' \in [Source -> BOOLEAN] /\ circuit' \in State
      /\ probes \in Seq(Probe) /\ clocks \subseteq Clock
      /\ watching \in [Clock -> SUBSET Probe]
  BY <1>0 DEF TypeOK
<1>r. Range(probes) \subseteq Probe
  BY <1>t, EmptyQueue
<1>c. ASSUME index' = index, ticked' = ticked PROVE Count' = Count
  BY <1>c DEF Count, Taken
<1>s. ASSUME UNCHANGED <<clocks, probes, circuit, samples>>, Count' = Count PROVE UNCHANGED S!vars
  BY <1>s DEF S!vars, Count, Range
<1>1. ASSUME NEW c \in Clock, AddClock(c) PROVE [S!Next]_(S!vars)
  <2>1. UNCHANGED <<probes, index, ticked, circuit, samples>>
    BY <1>1 DEF AddClock, clockwork
  <2>2. Count' = Count /\ Range(probes') = Range(probes)
    BY <1>c, <2>1 DEF Range
  <2>3. CASE c \notin clocks
    <3>1. clocks' = clocks \cup {c}
      BY <1>1, <2>3 DEF AddClock
    <3>2. S!AddClock(c)
      BY <2>1, <2>2, <2>3, <3>1 DEF S!AddClock, Count
    <3> QED
      BY <3>2 DEF S!Next
  <2>4. CASE c \in clocks
    <3>1. clocks' = clocks
      BY <1>1, <2>4 DEF AddClock
    <3> QED
      BY <1>s, <2>1, <2>2, <3>1
  <2> QED
    BY <2>3, <2>4
<1>2. ASSUME NEW p \in Probe, AddProbe(p) PROVE [S!Next]_(S!vars)
  <2>1. /\ p \notin Range(probes) /\ UNCHANGED <<clocks, index, ticked, circuit, samples>>
    BY <1>2 DEF AddProbe, clockwork
  <2>2. Count' = Count
    BY <1>c, <2>1
  <2>3. CASE Target[p] \in parts
    <3>1. Trigger[p] \in clocks /\ probes' = Append(probes, p)
      BY <1>2, <2>3 DEF AddProbe
    <3>2. Range(Append(probes, p)) = Range(probes) \cup {p}
      BY <1>t, AppendElements
    <3>3. Range(probes') = Range(probes) \cup {p}
      BY <3>1, <3>2 DEF Range
    <3>4. S!AddProbe(p)
      BY <2>1, <2>2, <3>1, <3>3 DEF S!AddProbe, Count
    <3> QED
      BY <3>4 DEF S!Next
  <2>4. CASE Target[p] \notin parts
    <3>1. probes' = probes
      BY <1>2, <2>4 DEF AddProbe
    <3> QED
      BY <1>s, <2>1, <2>2, <3>1
  <2> QED
    BY <2>3, <2>4
<1>3. ASSUME NEW p \in Probe, PurgeChildProbe(p) PROVE S!Next
  <2>1. PurgeProbes({p}) /\ UNCHANGED <<clocks, index, ticked, circuit>>
    BY <1>3 DEF PurgeChildProbe, clockwork
  <2>2. {} \in SUBSET Clock /\ {p} \in SUBSET Probe /\ clocks' = clocks \ {}
    BY <2>1
  <2> QED
    BY <2>1, <2>2, PurgeMapped
<1>4. ASSUME NEW x \in Part, PurgePart(x) PROVE S!Next
  <2>1. PICK P \in SUBSET Probe : P = {p \in Range(probes) : Target[p] = x}
    BY <1>r
  <2>2. PurgeProbes(P) /\ UNCHANGED <<clocks, index, ticked, circuit>>
    BY <1>4, <2>1 DEF PurgePart, clockwork
  <2>3. {} \in SUBSET Clock /\ clocks' = clocks \ {}
    BY <2>2
  <2> QED
    BY <2>2, <2>3, PurgeMapped
<1>5. ASSUME NEW c \in Clock, PurgeClock(c) PROVE S!Next
  <2>1. PICK P \in SUBSET Probe : P = watching[c]
    BY <1>t
  <2>2. /\ PurgeProbes(P) /\ clocks' = clocks \ {c} /\ circuit' = circuit
        /\ index' = [index EXCEPT ![c] = 0] /\ ticked' = [ticked EXCEPT ![c] = FALSE]
    BY <1>5, <2>1 DEF PurgeClock
  <2>3. \A p \in Range(probes) \ P : Trigger[p] \notin {c}
    BY <1>0, <1>r, <2>1 DEF Lists
  <2>4. \A d \in Clock : index'[d] = IF d \in {c} THEN 0 ELSE index[d]
    BY <1>0, <2>2 DEF TypeOK
  <2>5. \A d \in Clock : ticked'[d] = IF d \in {c} THEN FALSE ELSE ticked[d]
    BY <1>0, <2>2, Zenon DEF TypeOK
  <2>6. {c} \in SUBSET Clock
    OBVIOUS
  <2> QED
    BY <2>2, <2>3, <2>4, <2>5, <2>6, PurgeMapped
<1>6. ASSUME NEW level \in BOOLEAN, ChildSet(level) PROVE S!Next
  <2>1. /\ phase # "tick" /\ circuit' = Settled[circuit, held'] /\ CheckProbeTriggers
        /\ UNCHANGED <<clocks, probes, index>>
    BY <1>6 DEF ChildSet, SolveUnder, lists
  <2>2. samples' = samples /\ ticked' = ticked
    BY <1>0, <1>t, <2>1, NothingTriggered
  <2>3. Count' = Count /\ Range(probes') = Range(probes)
    BY <1>c, <2>1, <2>2 DEF Range
  <2>4. S!Disturb
    BY <1>t, <2>1, <2>2, <2>3 DEF S!Disturb, Count
  <2> QED
    BY <2>4 DEF S!Next
<1>7. ASSUME NEW ticks \in RunLength, NEW restart \in BOOLEAN, Run(ticks, restart)
      PROVE  [S!Next]_(S!vars)
  <2>1. UNCHANGED <<clocks, probes, circuit>>
    BY <1>7 DEF Run, lists
  <2>2. CASE restart
    <3>1. Reset
      BY <1>7, <2>2 DEF Run
    <3>2. /\ index' = [c \in Clock |-> 0] /\ ticked' = [c \in Clock |-> FALSE]
          /\ samples' = [p \in Probe |-> <<>>]
      BY <1>0, <3>1, WasReset
    <3>3. Count' = [c \in Clock |-> 0]
      <4>1. \A c \in Clock : index'[c] = 0 /\ ~ticked'[c]
        BY <3>2
      <4>2. \A c \in Clock : Taken(c)' = 0
        BY <4>1, Zenon DEF Taken
      <4> QED
        BY <4>2 DEF Count
    <3>4. S!Restart
      BY <2>1, <3>2, <3>3 DEF S!Restart, Count, Range
    <3> QED
      BY <3>4 DEF S!Next
  <2>3. CASE ~restart
    <3>1. UNCHANGED <<samples, index, ticked>>
      BY <1>7, <2>3 DEF Run, clockwork
    <3> QED
      BY <1>c, <1>s, <2>1, <3>1
  <2> QED
    BY <2>2, <2>3
<1>8. ASSUME NEW c \in Clock, Tick(c) PROVE UNCHANGED S!vars
  <2>1. UNCHANGED <<clocks, probes, circuit, samples>>
    BY <1>8 DEF Tick, lists
  <2>2. Count' = Count
    BY <1>8, CountOfTick
  <2> QED
    BY <1>s, <2>1, <2>2
<1>9. CASE SolveTick
  BY <1>9, <1>t, SolveTickMapped DEF S!Next
<1>10. CASE Destroy
  <2>1. PICK P \in SUBSET Probe : P = Range(probes)
    BY <1>r
  <2>2. /\ clocks' = {} /\ probes' = <<>> /\ circuit' = circuit
        /\ samples' = [p \in Probe |-> <<>>]
        /\ index' = [c \in Clock |-> 0] /\ ticked' = [c \in Clock |-> FALSE]
    BY <1>10 DEF Destroy
  <2>3. Range(probes') = {}
    BY <2>2, EmptyQueue DEF Range
  <2>4. Count' = [c \in Clock |-> IF c \in clocks THEN 0 ELSE Count[c]]
    <3>1. ASSUME NEW c \in Clock PROVE Taken(c)' = IF c \in clocks THEN 0 ELSE Count[c]
      <4>1. index'[c] = 0 /\ ~ticked'[c]
        BY <2>2
      <4>2. Taken(c)' = 0
        BY <4>1, Zenon DEF Taken
      <4>3. c \notin clocks => index[c] = 0 /\ ~ticked[c]
        BY <1>0 DEF Turn
      <4>4. c \notin clocks => Count[c] = 0
        BY <4>3, Zenon DEF Count, Taken
      <4> QED
        BY <4>2, <4>4, Zenon
    <3> QED
      BY <3>1 DEF Count
  <2>5. samples' = [p \in Probe |-> IF p \in P THEN <<>> ELSE samples[p]]
    BY <1>0, <2>1, <2>2 DEF Unsampled
  <2>6. S!Purge(clocks, P)
    BY <2>1, <2>2, <2>3, <2>4, <2>5 DEF S!Purge, Count
  <2> QED
    BY <1>t, <2>6 DEF S!Next
<1>11. ASSUME UNCHANGED <<clocks, probes, index, ticked, circuit, samples>>
       PROVE  UNCHANGED S!vars
  BY <1>11, <1>c, <1>s
<1>12. ASSUME NEW x \in Part, AddPart(x) \/ DestroyChild(x) PROVE UNCHANGED S!vars
  BY <1>11, <1>12 DEF AddPart, DestroyChild, clockwork
<1>13. ASSUME NEW x \in Magic, UpdateMagic(x) PROVE UNCHANGED S!vars
  BY <1>11, <1>13 DEF UpdateMagic, lists, clockwork
<1>14. CASE BeginTick \/ EndTick \/ Stop \/ UNCHANGED vars
  BY <1>11, <1>14 DEF BeginTick, EndTick, Stop, vars, lists, clockwork
<1> QED
  BY <1>1, <1>2, <1>3, <1>4, <1>5, <1>6, <1>7, <1>8, <1>9, <1>10, <1>12, <1>13, <1>14
     DEF Next, LoopStep

\* To whoever reads the samples, the loop of Run and all that may be called between two
\* runs (Simulation::Run, ChildSet, the purges and the destructor) do what Sampling says.
THEOREM SimulationImplementsSampling == Spec => ImplementsSampling
<1>1. Init => S!Init
  <2> SUFFICES ASSUME Init PROVE S!Init
    OBVIOUS
  <2>1. /\ clocks = {} /\ probes = <<>> /\ circuit = Start
        /\ index = [c \in Clock |-> 0] /\ ticked = [c \in Clock |-> FALSE]
        /\ samples = [p \in Probe |-> <<>>]
    BY DEF Init
  <2>2. Range(probes) = {}
    BY <2>1, EmptyQueue DEF Range
  <2>3. Count = [c \in Clock |-> 0]
    <3>1. \A c \in Clock : index[c] = 0 /\ ~ticked[c]
      BY <2>1
    <3>2. \A c \in Clock : Taken(c) = 0
      BY <3>1, Zenon DEF Taken
    <3> QED
      BY <3>2 DEF Count
  <2> QED
    BY <2>1, <2>2, <2>3, SimulationAssumption DEF S!Init, Count
<1>2. SimInv /\ SimInv' /\ [Next]_vars => [S!Next]_(S!vars)
  BY SimMapped DEF SimInv
<1> QED
  BY <1>1, <1>2, SimulationInvariant, PTL DEF Spec, ImplementsSampling, S!Spec

=============================================================================
