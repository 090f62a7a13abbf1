---------------------------- MODULE NetlistProofs ----------------------------
(***************************************************************************)
(* The builder for any tree of Components, pins and Clocks: the tables of  *)
(* children, the local indices and the drive flags stay right through      *)
(* every order of adding, connecting and purging, and what it builds is    *)
(* what Wiring promises.                                                   *)
(***************************************************************************)
EXTENDS Netlist, QueueLemmas, FiniteSetTheorems

-----------------------------------------------------------------------------
(* The tree.                                                               *)

\* What is strictly below c is what has its parent within c.
LEMMA WithinParent ==
  ASSUME NEW c \in Component \ {Sim}
  PROVE  /\ \A x \in Component \ {Sim} : Within(x, c) <=> x = c \/ Within(Parent[x], c)
         /\ ~Within(Sim, c)
         /\ ~Within(Parent[c], c)
         /\ \A x \in Component : Within(x, c) /\ x # c => x # Sim /\ Within(Parent[x], c)
<1> USE NetlistAssumption
<1>1. \A x \in Component \ {Sim} : Within(x, c) <=> x = c \/ Within(Parent[x], c)
  BY DEF Within
<1>2. ~Within(Sim, c)
  BY DEF Within
<1>3. ~Within(Parent[c], c)
  BY DEF Within
<1> QED
  BY <1>1, <1>2, <1>3

-----------------------------------------------------------------------------
(* Sequences.                                                              *)

\* Erasing one entry of a table moves the later ones down by one.
LEMMA OmitEntry ==
  ASSUME NEW E, NEW s \in Seq(E), NEW k \in 1 .. Len(s)
  PROVE  /\ Omit(s, k) \in Seq(E) /\ Len(Omit(s, k)) = Len(s) - 1
         /\ \A i \in 1 .. Len(s) - 1 : Omit(s, k)[i] = IF i < k THEN s[i] ELSE s[i + 1]
<1> DEFINE a == SubSeq(s, 1, k - 1)
           b == SubSeq(s, k + 1, Len(s))
<1>1. Len(s) \in Nat /\ k \in Nat /\ \A i \in 1 .. Len(s) : s[i] \in E
  BY LenProperties, ElementOfSeq
<1>2. /\ a \in Seq(E) /\ Len(a) = k - 1 /\ \A i \in 1 .. k - 1 : a[i] = s[i]
  <2>1. /\ a \in Seq(E) /\ Len(a) = IF 1 <= k - 1 THEN k - 1 - 1 + 1 ELSE 0
        /\ \A i \in 1 .. k - 1 - 1 + 1 : a[i] = s[1 + i - 1]
    <3>1. \A i \in 1 .. k - 1 : s[i] \in E
      BY <1>1
    <3> QED
      BY <1>1, <3>1, SubSeqProperties
  <2> QED
    BY <1>1, <2>1
<1>3. /\ b \in Seq(E) /\ Len(b) = Len(s) - k /\ \A i \in 1 .. Len(s) - k : b[i] = s[k + i]
  <2>1. /\ b \in Seq(E) /\ Len(b) = IF k + 1 <= Len(s) THEN Len(s) - (k + 1) + 1 ELSE 0
        /\ \A i \in 1 .. Len(s) - (k + 1) + 1 : b[i] = s[(k + 1) + i - 1]
    <3>1. \A i \in k + 1 .. Len(s) : s[i] \in E
      BY <1>1
    <3> QED
      BY <1>1, <3>1, SubSeqProperties
  <2> QED
    BY <1>1, <2>1
<1> HIDE DEF a, b
<1>4. /\ a \o b \in Seq(E) /\ Len(a \o b) = Len(s) - 1
      /\ \A i \in 1 .. Len(s) - 1 : (a \o b)[i] = IF i < k THEN s[i] ELSE s[i + 1]
  <2>1. /\ a \o b \in Seq(E) /\ Len(a \o b) = Len(a) + Len(b)
        /\ \A i \in 1 .. Len(a) + Len(b) : (a \o b)[i] = IF i <= Len(a) THEN a[i] ELSE b[i - Len(a)]
    BY <1>2, <1>3, ConcatProperties
  <2>2. ASSUME NEW i \in 1 .. Len(s) - 1 PROVE (a \o b)[i] = IF i < k THEN s[i] ELSE s[i + 1]
    <3>0. i \in 1 .. Len(a) + Len(b) /\ i \in Nat
      BY <1>1, <1>2, <1>3
    <3>1. CASE i < k
      <4>1. i <= Len(a) /\ i \in 1 .. k - 1
        BY <1>1, <1>2, <3>0, <3>1
      <4>2. (a \o b)[i] = s[i]
        BY <1>2, <2>1, <3>0, <4>1
      <4> QED
        BY <3>1, <4>2
    <3>2. CASE i >= k
      <4>1. i - (k - 1) \in 1 .. Len(s) - k /\ k + (i - (k - 1)) = i + 1
        BY <1>1, <3>2
      <4>2. b[i - (k - 1)] = s[i + 1]
        BY <1>3, <4>1
      <4>3. ~(i <= Len(a)) /\ i - Len(a) = i - (k - 1) /\ ~(i < k)
        BY <1>1, <1>2, <3>0, <3>2
      <4>4. (a \o b)[i] = b[i - (k - 1)]
        BY <2>1, <3>0, <4>3
      <4> QED
        BY <4>2, <4>3, <4>4
    <3> QED
      BY <1>1, <3>0, <3>1, <3>2
  <2> QED
    BY <1>1, <1>2, <1>3, <2>1, <2>2
<1>5. Omit(s, k) = a \o b
  BY LenProperties DEF Omit, a, b
<1> QED
  BY <1>4, <1>5

\* The same, for a table that is named.
LEMMA OmitWitness ==
  ASSUME NEW E, NEW s \in Seq(E), NEW k \in 1 .. Len(s)
  PROVE  \E t \in Seq(E) :
           /\ t = Omit(s, k) /\ Len(t) = Len(s) - 1 /\ DOMAIN t = 1 .. Len(s) - 1
           /\ \A i \in 1 .. Len(s) - 1 : t[i] = IF i < k THEN s[i] ELSE s[i + 1]
<1> DEFINE t == Omit(s, k)
<1>1. /\ t \in Seq(E) /\ Len(t) = Len(s) - 1
      /\ \A i \in 1 .. Len(s) - 1 : t[i] = IF i < k THEN s[i] ELSE s[i + 1]
  BY OmitEntry
<1> HIDE DEF t
<1>2. DOMAIN t = 1 .. Len(s) - 1
  BY <1>1, LenProperties
<1>3. t = Omit(s, k)
  BY DEF t
<1> QED
  BY <1>1, <1>2, <1>3

\* Out of a table without repetition, the entry that is erased is gone.
LEMMA OmitElements ==
  ASSUME NEW E, NEW s \in Seq(E), NEW k \in 1 .. Len(s), IsInjective(s)
  PROVE  Range(Omit(s, k)) = Range(s) \ {s[k]} /\ IsInjective(Omit(s, k))
<1> DEFINE t == Omit(s, k)
<1>1. /\ t \in Seq(E) /\ Len(t) = Len(s) - 1
      /\ \A i \in 1 .. Len(s) - 1 : t[i] = IF i < k THEN s[i] ELSE s[i + 1]
  BY OmitEntry
<1> HIDE DEF t
<1>2. /\ Len(s) \in Nat /\ DOMAIN s = 1 .. Len(s) /\ DOMAIN t = 1 .. Len(s) - 1 /\ k \in Nat
  BY <1>1, LenProperties
<1>3. \A i, j \in 1 .. Len(s) : s[i] = s[j] => i = j
  BY <1>2 DEF IsInjective
<1>4. ASSUME NEW i \in 1 .. Len(s) - 1 PROVE t[i] \in Range(s) \ {s[k]}
  <2>1. CASE i < k
    <3>1. i \in 1 .. Len(s) /\ i # k /\ t[i] = s[i]
      BY <1>1, <1>2, <2>1
    <3> QED
      BY <1>2, <1>3, <3>1 DEF Range
  <2>2. CASE i >= k
    <3>1. i + 1 \in 1 .. Len(s) /\ i + 1 # k /\ t[i] = s[i + 1]
      BY <1>1, <1>2, <2>2
    <3> QED
      BY <1>2, <1>3, <3>1 DEF Range
  <2> QED
    BY <1>2, <2>1, <2>2
<1>5. ASSUME NEW i \in 1 .. Len(s), i # k PROVE s[i] \in Range(t)
  <2>1. CASE i < k
    <3>1. i \in 1 .. Len(s) - 1 /\ t[i] = s[i]
      BY <1>1, <1>2, <2>1
    <3> QED
      BY <1>2, <3>1 DEF Range
  <2>2. CASE i > k
    <3>1. i - 1 \in 1 .. Len(s) - 1 /\ ~(i - 1 < k) /\ (i - 1) + 1 = i
      BY <1>2, <2>2
    <3>2. t[i - 1] = s[i]
      BY <1>1, <3>1
    <3> QED
      BY <1>2, <3>1, <3>2 DEF Range
  <2> QED
    BY <1>2, <1>5, <2>1, <2>2
<1>6. Range(t) = Range(s) \ {s[k]}
  <2>1. Range(t) \subseteq Range(s) \ {s[k]}
    BY <1>2, <1>4 DEF Range
  <2>2. \A x \in Range(s) \ {s[k]} : x \in Range(t)
    <3> TAKE x \in Range(s) \ {s[k]}
    <3>1. PICK i \in 1 .. Len(s) : x = s[i]
      BY <1>2 DEF Range
    <3> QED
      BY <1>5, <3>1
  <2> QED
    BY <2>1, <2>2
<1>7. ASSUME NEW i \in 1 .. Len(s) - 1, NEW j \in 1 .. Len(s) - 1, t[i] = t[j] PROVE i = j
  <2>1. /\ i \in 1 .. Len(s) /\ i + 1 \in 1 .. Len(s) /\ j \in 1 .. Len(s) /\ j + 1 \in 1 .. Len(s)
        /\ i \in Nat /\ j \in Nat
    BY <1>2
  <2>2. /\ t[i] = IF i < k THEN s[i] ELSE s[i + 1]
        /\ t[j] = IF j < k THEN s[j] ELSE s[j + 1]
    BY <1>1
  <2>3. CASE i < k /\ j < k
    BY <1>3, <1>7, <2>1, <2>2, <2>3
  <2>4. CASE ~(i < k) /\ ~(j < k)
    <3>1. i + 1 = j + 1
      BY <1>3, <1>7, <2>1, <2>2, <2>4
    <3> QED
      BY <2>1, <3>1
  <2>5. CASE i < k /\ ~(j < k)
    <3>1. i = j + 1
      BY <1>3, <1>7, <2>1, <2>2, <2>5
    <3> QED
      BY <1>2, <2>1, <2>5, <3>1
  <2>6. CASE ~(i < k) /\ j < k
    <3>1. i + 1 = j
      BY <1>3, <1>7, <2>1, <2>2, <2>6
    <3> QED
      BY <1>2, <2>1, <2>6, <3>1
  <2> QED
    BY <2>3, <2>4, <2>5, <2>6
<1> QED
  <2>1. \A i, j \in DOMAIN t : t[i] = t[j] => i = j
    BY <1>2, <1>7
  <2>2. IsInjective(t)
    BY <2>1, Zenon DEF IsInjective
  <2> QED
    BY <1>6, <2>2 DEF t

\* Erasing an entry leaves a sequence of the same kind, whether there is such an entry or not.
LEMMA OmitType ==
  ASSUME NEW E, NEW s \in Seq(E), NEW k \in Nat
  PROVE  Omit(s, k) \in Seq(E)
<1>1. CASE k \in DOMAIN s
  BY <1>1, OmitEntry, LenProperties
<1>2. CASE k \notin DOMAIN s
  BY <1>2 DEF Omit
<1> QED
  BY <1>1, <1>2

-----------------------------------------------------------------------------
(* The inductive invariant: the tables.                                    *)

TableTypes ==
  /\ alive \subseteq Component
  /\ components \in [Device -> Seq(Component)] /\ devices \in [Device -> Seq(Nat)]
  /\ local_index \in [Component -> Nat] /\ flags \in [Device -> Nat]
  /\ building \in Seq(Device)

RestTypes ==
  /\ clocks \subseteq Clock /\ errors \in BOOLEAN
  /\ propagate_next_tick \in [Device -> Seq(Nat)] /\ queued \in [Device -> Seq(Device)]
  /\ connections \in [Source -> [Pin -> Nat]]
  /\ drive_in \in [Pin -> BOOLEAN] /\ drive_out \in [Pin -> BOOLEAN]

\* What is above the j-th of the Devices under construction, a path down the tree from
\* the Simulation: those before it.
Above(s, j) == {s[i] : i \in 1 .. j - 1}
Path ==
  /\ building # <<>> /\ building[1] = Sim
  /\ \A j \in 1 .. Len(building) :
       building[j] \in alive /\ Ancestors[building[j]] = Above(building, j)
  /\ \A j \in 2 .. Len(building) : building[j] # Sim /\ Parent[building[j]] = building[j - 1]

\* m_components holds, once each, children that exist and are complete.
Children ==
  \A d \in Device :
    /\ IsInjective(components[d])
    /\ \A x \in Range(components[d]) :
         x \in alive /\ x # Sim /\ Parent[x] = d /\ x \notin Range(building)

\* A Device under construction has the index and the flag that its entry will need.
Reserved ==
  \A j \in 2 .. Len(building) :
    /\ local_index[building[j]] = Len(components[building[j - 1]])
    /\ Len(components[building[j - 1]]) < flags[building[j - 1]]

\* What exists is so many levels below the Simulation, and not more.
Deep == \A x \in alive : IsFiniteSet(Ancestors[x])

TableInv == TableTypes /\ Path /\ Children /\ IndexIsPosition /\ Reserved /\ Deep

\* The last of the Devices under construction is none of the others, nor above them.
LEMMA HereIsLast ==
  ASSUME TableTypes, Path
  PROVE  /\ Len(building) \in Nat \ {0} /\ DOMAIN building = 1 .. Len(building)
         /\ \A j \in 1 .. Len(building) : building[j] \in Device
         /\ Here \in Device /\ Here \in alive /\ Here \in Range(building)
         /\ \A i, j \in 1 .. Len(building) : i < j => building[i] # building[j]
         /\ Here = Sim => Len(building) = 1
<1> USE NetlistAssumption
<1>1. /\ Len(building) \in Nat \ {0} /\ DOMAIN building = 1 .. Len(building)
      /\ \A j \in 1 .. Len(building) : building[j] \in Device
  <2>1. building \in Seq(Device) /\ building # <<>>
    BY DEF TableTypes, Path
  <2> QED
    BY <2>1, LenProperties, EmptySeq, ElementOfSeq
<1>2. Len(building) \in 1 .. Len(building)
  BY <1>1
<1>3. Here \in Device /\ Here \in alive /\ Here \in Range(building)
  BY <1>1, <1>2 DEF Here, Path, Range
<1>4. ASSUME NEW i \in 1 .. Len(building), NEW j \in 1 .. Len(building), i < j
      PROVE  building[i] # building[j]
  <2>1. i \in 1 .. j - 1
    BY <1>1, <1>4
  <2>2. building[i] \in Ancestors[building[j]]
    <3>1. Ancestors[building[j]] = {building[k] : k \in 1 .. j - 1}
      BY DEF Path, Above
    <3> QED
      BY <2>1, <3>1
  <2>3. j \in 2 .. Len(building)
    BY <1>1, <1>4
  <2>4. building[j] # Sim /\ building[j] \in Component
    BY <1>1, <2>3 DEF Path, Component
  <2>5. building[j] \notin Ancestors[building[j]]
    BY <2>4
  <2> QED
    BY <2>2, <2>5
<1>5. Here = Sim => Len(building) = 1
  <2>1. Len(building) # 1 => Len(building) \in 2 .. Len(building)
    BY <1>1
  <2> QED
    BY <2>1 DEF Here, Path
<1> QED
  BY <1>1, <1>3, <1>4, <1>5

\* What a name finds is a child in the table.
LEMMA VisibleChildren ==
  ASSUME TableTypes, Children, NEW d \in Device, NEW x \in Visible(d)
  PROVE  x \in Range(components[d]) /\ x \in Component /\ x \in alive /\ x # Sim /\ Parent[x] = d
<1>1. \A i \in DOMAIN components[d] : components[d][i] \in Component
  BY ElementOfSeq, LenProperties DEF TableTypes
<1>2. PICK i \in DOMAIN components[d] : x = components[d][i]
  BY DEF Visible
<1>3. x \in Range(components[d])
  BY <1>2 DEF Range
<1> QED
  BY <1>1, <1>2, <1>3 DEF Children

\* What the constructors of Gate and Device leave in the tables.
LEMMA ConstructedTables ==
  ASSUME TableInv, NEW c \in Component, Construct(c)
  PROVE  /\ c \notin alive /\ c # Sim /\ Parent[c] = Here
         /\ alive' = alive \cup {c} /\ alive' \subseteq Component
         /\ local_index' = [local_index EXCEPT ![c] = Len(components[Here])]
         /\ local_index' \in [Component -> Nat]
         /\ flags' = [flags EXCEPT ![Here] = @ + 1] /\ flags' \in [Device -> Nat]
         /\ Deep'
<1> USE NetlistAssumption
<1>1. TableTypes /\ Path /\ Deep
  BY DEF TableInv
<1>2. /\ c \notin alive /\ Parent[c] = Here
      /\ alive' = alive \cup {c}
      /\ local_index' = [local_index EXCEPT ![c] = Len(components[Parent[c]])]
      /\ flags' = [flags EXCEPT ![Parent[c]] = @ + 1]
  BY DEF Construct
<1>3. Here \in Device /\ Here \in alive
  BY <1>1, HereIsLast
<1>4. c # Sim
  <2>1. Len(building) \in Nat \ {0}
    BY <1>1, HereIsLast
  <2>2. 1 \in 1 .. Len(building)
    BY <2>1
  <2>3. Sim \in alive
    BY <1>1, <2>2 DEF Path
  <2> QED
    BY <1>2, <2>3
<1>5. Len(components[Here]) \in Nat
  BY <1>1, <1>3, LenProperties DEF TableTypes
<1>6. local_index' \in [Component -> Nat] /\ flags' \in [Device -> Nat]
  <2>1. Len(components[Parent[c]]) \in Nat
    BY <1>2, <1>5
  <2> HIDE NetlistAssumption
  <2>2. local_index' \in [Component -> Nat]
    BY <1>1, <1>2, <2>1 DEF TableTypes
  <2>3. flags' \in [Device -> Nat]
    <3>1. flags \in [Device -> Nat] /\ \A d \in Device : flags[d] + 1 \in Nat
      BY <1>1 DEF TableTypes
    <3>2. flags' = [flags EXCEPT ![Parent[c]] = flags[Parent[c]] + 1] /\ Parent[c] \in Device
      BY <1>2, <1>3
    <3> QED
      BY <3>1, <3>2
  <2> QED
    BY <2>2, <2>3
<1>7. IsFiniteSet(Ancestors[c])
  <2>1. Ancestors[c] = {Here} \cup Ancestors[Here]
    BY <1>2, <1>4
  <2>2. IsFiniteSet(Ancestors[Here])
    BY <1>1, <1>3 DEF Deep
  <2> QED
    BY <2>1, <2>2, FS_AddElement
<1>8. Deep'
  BY <1>1, <1>2, <1>7 DEF Deep
<1> QED
  BY <1>1, <1>2, <1>4, <1>6, <1>8 DEF TableTypes

\* The old entries of the tables, and the Devices under construction, are not the new
\* Component: their indices stay.
LEMMA OthersKeepIndex ==
  ASSUME TableInv, NEW c \in Component, Construct(c)
  PROVE  /\ c \notin Range(building)
         /\ \A d \in Device : c \notin Range(components[d])
         /\ \A d \in Device : \A i \in DOMAIN components[d] :
              local_index'[components[d][i]] = local_index[components[d][i]]
         /\ \A j \in 1 .. Len(building) : local_index'[building[j]] = local_index[building[j]]
<1>1. TableTypes /\ Path /\ Children
  BY DEF TableInv
<1>2. c \notin alive /\ local_index' = [local_index EXCEPT ![c] = Len(components[Here])]
  BY ConstructedTables
<1>3. DOMAIN building = 1 .. Len(building) /\ \A j \in 1 .. Len(building) : building[j] \in Device
  BY <1>1, HereIsLast
<1>4. \A j \in 1 .. Len(building) : building[j] \in alive /\ building[j] \in Component
  BY <1>1, <1>3 DEF Path, Component
<1>5. c \notin Range(building)
  BY <1>2, <1>3, <1>4 DEF Range
<1>6. \A d \in Device : c \notin Range(components[d])
  BY <1>1, <1>2 DEF Children
<1>7. ASSUME NEW d \in Device, NEW i \in DOMAIN components[d]
      PROVE  local_index'[components[d][i]] = local_index[components[d][i]]
  <2>1. components[d][i] \in Range(components[d])
    BY DEF Range
  <2>2. components[d][i] \in Component
    BY <1>1, ElementOfSeq, LenProperties DEF TableTypes
  <2>3. components[d][i] # c
    BY <1>6, <2>1
  <2> QED
    BY <1>1, <1>2, <2>2, <2>3 DEF TableTypes
<1>8. \A j \in 1 .. Len(building) : local_index'[building[j]] = local_index[building[j]]
  BY <1>1, <1>2, <1>4 DEF TableTypes
<1> QED
  BY <1>5, <1>6, <1>7, <1>8

\* A new entry in the table of one Device, with the index and the flag it has.
LEMMA ChildAppended ==
  ASSUME TableInv, NEW c \in Component, NEW h \in Device,
         c # Sim, Parent[c] = h, c \in alive', c \notin Range(building'),
         \A d \in Device : c \notin Range(components[d]),
         components' = [components EXCEPT ![h] = Append(@, c)],
         alive \subseteq alive', Range(building') \subseteq Range(building),
         \A d \in Device : \A i \in DOMAIN components[d] :
           local_index'[components[d][i]] = local_index[components[d][i]],
         local_index'[c] = Len(components[h]),
         \A d \in Device : flags'[d] \in Nat /\ flags'[d] >= flags[d],
         flags'[h] > Len(components[h])
  PROVE  components' \in [Device -> Seq(Component)] /\ Children' /\ IndexIsPosition'
<1>1. TableTypes /\ Children /\ IndexIsPosition
  BY DEF TableInv
<1>2. components[h] \in Seq(Component) /\ components \in [Device -> Seq(Component)]
  BY <1>1 DEF TableTypes
<1>3. PICK s \in Seq(Component) : s = components[h]
  BY <1>2
<1>4. /\ Append(s, c) \in Seq(Component) /\ Range(Append(s, c)) = Range(s) \cup {c}
      /\ Len(Append(s, c)) = Len(s) + 1 /\ \A i \in 1 .. Len(s) : Append(s, c)[i] = s[i]
      /\ Append(s, c)[Len(s) + 1] = c
  BY AppendElements
<1>5. IsInjective(s) /\ c \notin Range(s) /\ DOMAIN s = 1 .. Len(s) /\ Len(s) \in Nat
  BY <1>1, <1>3, LenProperties DEF Children
<1>6. IsInjective(Append(s, c)) /\ DOMAIN Append(s, c) = 1 .. Len(s) + 1
  <2>1. IsInjective(Append(s, c))
    BY <1>5, AppendNew
  <2> QED
    BY <1>4, <2>1, LenProperties
<1>7. PICK t \in Seq(Component) : t = Append(s, c)
  BY <1>4
<1>8. /\ components'[h] = t
      /\ \A d \in Device \ {h} : components'[d] = components[d]
      /\ components' \in [Device -> Seq(Component)]
  BY <1>2, <1>3, <1>7
<1>9. Children'
  <2> SUFFICES ASSUME NEW d \in Device
               PROVE  /\ IsInjective(components'[d])
                      /\ \A x \in Range(components'[d]) :
                           x \in alive' /\ x # Sim /\ Parent[x] = d /\ x \notin Range(building')
    BY DEF Children, IsInjective, Range
  <2>1. CASE d = h
    <3>1. components'[d] = t /\ IsInjective(t) /\ Range(t) = Range(s) \cup {c}
      BY <1>4, <1>6, <1>7, <1>8, <2>1
    <3>2. \A x \in Range(s) : x \in alive /\ x # Sim /\ Parent[x] = h /\ x \notin Range(building)
      BY <1>1, <1>3 DEF Children
    <3>3. Range(components'[d]) = Range(s) \cup {c} /\ IsInjective(components'[d])
      BY <3>1
    <3>4. ASSUME NEW x \in Range(s) \cup {c}
          PROVE  x \in alive' /\ x # Sim /\ Parent[x] = d /\ x \notin Range(building')
      BY <2>1, <3>2
    <3> QED
      BY <3>3, <3>4
  <2>2. CASE d # h
    <3>1. components'[d] = components[d]
      BY <1>8, <2>2
    <3>2. /\ IsInjective(components[d])
          /\ \A x \in Range(components[d]) :
               x \in alive /\ x # Sim /\ Parent[x] = d /\ x \notin Range(building)
      BY <1>1 DEF Children
    <3> QED
      BY <3>1, <3>2
  <2> QED
    BY <2>1, <2>2
<1>10. IndexIsPosition'
  <2> SUFFICES ASSUME NEW d \in Device
               PROVE  /\ \A i \in DOMAIN components'[d] : local_index'[components'[d][i]] = i - 1
                      /\ Len(components'[d]) <= flags'[d]
    BY DEF IndexIsPosition
  <2>1. CASE d = h
    <3>1. ASSUME NEW i \in 1 .. Len(s) + 1 PROVE local_index'[t[i]] = i - 1
      <4>1. CASE i = Len(s) + 1
        BY <1>3, <1>4, <1>5, <1>7, <4>1
      <4>2. CASE i \in 1 .. Len(s)
        <5>1. t[i] = components[h][i] /\ i \in DOMAIN components[h]
          BY <1>3, <1>4, <1>5, <1>7, <4>2
        <5> QED
          BY <1>1, <5>1 DEF IndexIsPosition
      <4> QED
        BY <1>5, <4>1, <4>2
    <3>2. Len(t) <= flags'[h]
      BY <1>3, <1>4, <1>5, <1>7
    <3> QED
      BY <1>6, <1>7, <1>8, <2>1, <3>1, <3>2
  <2>2. CASE d # h
    <3>1. components'[d] = components[d]
      BY <1>8, <2>2
    <3>2. Len(components[d]) <= flags[d] /\ Len(components[d]) \in Nat /\ flags[d] \in Nat
      BY <1>1, LenProperties DEF IndexIsPosition, TableTypes
    <3>3. Len(components[d]) <= flags'[d]
      BY <3>2
    <3> QED
      BY <1>1, <3>1, <3>3 DEF IndexIsPosition
  <2> QED
    BY <2>1, <2>2
<1> QED
  BY <1>8, <1>9, <1>10

\* Device::AddGate keeps the tables.
LEMMA TablesAddGate ==
  ASSUME TableInv, NEW g \in Gate, AddGate(g)
  PROVE  TableInv'
<1>1. TableTypes /\ Path /\ Children /\ Reserved
  BY DEF TableInv
<1>2. /\ Construct(g) /\ g \in Component /\ building' = building /\ devices' = devices
      /\ components' = [components EXCEPT ![Here] = Append(@, g)]
  BY DEF AddGate, Component
<1>3. /\ g \notin alive /\ g # Sim /\ Parent[g] = Here
      /\ alive' = alive \cup {g} /\ alive' \subseteq Component
      /\ local_index' = [local_index EXCEPT ![g] = Len(components[Here])]
      /\ local_index' \in [Component -> Nat]
      /\ flags' = [flags EXCEPT ![Here] = @ + 1] /\ flags' \in [Device -> Nat]
      /\ Deep'
  BY <1>2, ConstructedTables
<1>4. /\ g \notin Range(building)
      /\ \A d \in Device : g \notin Range(components[d])
      /\ \A d \in Device : \A i \in DOMAIN components[d] :
           local_index'[components[d][i]] = local_index[components[d][i]]
      /\ \A j \in 1 .. Len(building) : local_index'[building[j]] = local_index[building[j]]
  BY <1>2, OthersKeepIndex
<1>5. /\ Here \in Device /\ Len(building) \in Nat \ {0}
      /\ \A j \in 1 .. Len(building) : building[j] \in Device
      /\ \A i, j \in 1 .. Len(building) : i < j => building[i] # building[j]
  BY <1>1, HereIsLast
<1>6. /\ \A d \in Device : flags'[d] >= flags[d] /\ flags[d] \in Nat
      /\ \A d \in Device \ {Here} : flags'[d] = flags[d] /\ components'[d] = components[d]
      /\ flags'[Here] = flags[Here] + 1
  <2>1. /\ flags \in [Device -> Nat] /\ flags' = [flags EXCEPT ![Here] = @ + 1]
        /\ components \in [Device -> Seq(Component)]
        /\ components' = [components EXCEPT ![Here] = Append(@, g)]
    BY <1>1, <1>2, <1>3 DEF TableTypes
  <2>2. /\ \A d \in Device : flags[d] \in Nat
        /\ \A d \in Device \ {Here} : flags'[d] = flags[d]
        /\ flags'[Here] = flags[Here] + 1
    BY <1>5, <2>1
  <2>3. \A d \in Device \ {Here} : components'[d] = components[d]
    BY <2>1
  <2>4. \A d \in Device : flags'[d] >= flags[d]
    BY <1>5, <2>2
  <2> QED
    BY <2>2, <2>3, <2>4
<1>7. Len(components[Here]) <= flags[Here] /\ Len(components[Here]) \in Nat
  BY <1>1, <1>5, LenProperties DEF TableInv, IndexIsPosition, TableTypes
<1>8. Range(building') = Range(building)
  BY <1>2 DEF Range
<1>9. components' \in [Device -> Seq(Component)] /\ Children' /\ IndexIsPosition'
  <2>1. local_index'[g] = Len(components[Here])
    BY <1>1, <1>2, <1>3 DEF TableTypes
  <2>2. flags'[Here] > Len(components[Here])
    BY <1>5, <1>6, <1>7
  <2>3. g \in alive' /\ g \notin Range(building') /\ Range(building') \subseteq Range(building)
    BY <1>3, <1>4, <1>8
  <2>4. \A d \in Device : flags'[d] \in Nat /\ flags'[d] >= flags[d]
    BY <1>3, <1>6
  <2>5. alive \subseteq alive'
    BY <1>3
  <2> QED
    BY <1>2, <1>3, <1>4, <1>5, <2>1, <2>2, <2>3, <2>4, <2>5, ChildAppended
<1>10. Path'
  <2>1. \A j \in 1 .. Len(building) :
          building[j] \in alive' /\ Ancestors[building[j]] = Above(building, j)
    BY <1>1, <1>3 DEF Path
  <2> QED
    BY <1>1, <1>2, <2>1 DEF Path
<1>11. Reserved'
  <2> SUFFICES ASSUME NEW j \in 2 .. Len(building)
               PROVE  /\ local_index'[building[j]] = Len(components'[building[j - 1]])
                      /\ Len(components'[building[j - 1]]) < flags'[building[j - 1]]
    BY <1>2 DEF Reserved
  <2>1. /\ j \in 1 .. Len(building) /\ j - 1 \in 1 .. Len(building)
        /\ Len(building) \in 1 .. Len(building) /\ j - 1 < Len(building)
    BY <1>5
  <2>2. building[j - 1] \in Device \ {Here}
    BY <1>5, <2>1 DEF Here
  <2> QED
    BY <1>1, <1>4, <1>6, <2>1, <2>2 DEF Reserved
<1> QED
  BY <1>1, <1>2, <1>3, <1>9, <1>10, <1>11 DEF TableInv, TableTypes

\* The constructor of a Device up to its Build() keeps the tables.
LEMMA TablesBeginDevice ==
  ASSUME TableInv, NEW d \in Device, BeginDevice(d)
  PROVE  TableInv'
<1> USE NetlistAssumption
<1>1. TableTypes /\ Path /\ Children /\ IndexIsPosition /\ Reserved
  BY DEF TableInv
<1>2. /\ Construct(d) /\ d \in Component /\ building' = Append(building, d)
      /\ components' = components /\ devices' = devices
  BY DEF BeginDevice, Component
<1>3. /\ d \notin alive /\ d # Sim /\ Parent[d] = Here
      /\ alive' = alive \cup {d} /\ alive' \subseteq Component
      /\ local_index' = [local_index EXCEPT ![d] = Len(components[Here])]
      /\ local_index' \in [Component -> Nat]
      /\ flags' = [flags EXCEPT ![Here] = @ + 1] /\ flags' \in [Device -> Nat]
      /\ Deep'
  BY <1>2, ConstructedTables
<1>4. /\ d \notin Range(building)
      /\ \A e \in Device : d \notin Range(components[e])
      /\ \A e \in Device : \A i \in DOMAIN components[e] :
           local_index'[components[e][i]] = local_index[components[e][i]]
      /\ \A j \in 1 .. Len(building) : local_index'[building[j]] = local_index[building[j]]
  BY <1>2, OthersKeepIndex
<1>5. /\ Here \in Device /\ Len(building) \in Nat \ {0}
      /\ \A j \in 1 .. Len(building) : building[j] \in Device
      /\ \A i, j \in 1 .. Len(building) : i < j => building[i] # building[j]
  BY <1>1, HereIsLast
<1>6. PICK n \in Nat \ {0} : n = Len(building)
  BY <1>5
<1>7. /\ building' \in Seq(Device) /\ Len(building') = n + 1 /\ building' # <<>>
      /\ \A i \in 1 .. n : building'[i] = building[i]
      /\ building'[n + 1] = d
      /\ Range(building') = Range(building) \cup {d}
  <2>1. PICK s \in Seq(Device) : s = building
    BY <1>1 DEF TableTypes
  <2>2. /\ Append(s, d) \in Seq(Device) /\ Range(Append(s, d)) = Range(s) \cup {d}
        /\ Len(Append(s, d)) = Len(s) + 1 /\ \A i \in 1 .. Len(s) : Append(s, d)[i] = s[i]
        /\ Append(s, d)[Len(s) + 1] = d
    BY AppendElements
  <2>3. PICK t \in Seq(Device) : t = Append(s, d)
    BY <2>2
  <2>4. building' = t /\ n = Len(s)
    BY <1>2, <1>6, <2>1, <2>3
  <2>5. Range(building') = Range(t)
    BY <2>4 DEF Range
  <2>6. t # <<>>
    BY <2>2, <2>3, <2>4, EmptySeq
  <2> QED
    BY <2>1, <2>2, <2>3, <2>4, <2>5, <2>6
<1>8. Path'
  <2>1. building'[1] = Sim
    BY <1>1, <1>6, <1>7 DEF Path
  <2>2. ASSUME NEW j \in 1 .. n
        PROVE  /\ building'[j] \in alive'
               /\ Ancestors[building'[j]] = Above(building', j)
    <3>1. \A i \in 1 .. j - 1 : i \in 1 .. n
      BY <1>6
    <3>2. {building'[i] : i \in 1 .. j - 1} = {building[i] : i \in 1 .. j - 1}
      BY <1>7, <3>1
    <3>3. Above(building', j) = Above(building, j)
      BY <3>2 DEF Above
    <3>4. building[j] \in alive /\ Ancestors[building[j]] = Above(building, j)
      BY <1>1, <1>6 DEF Path
    <3> QED
      BY <1>3, <1>7, <3>3, <3>4
  <2>3. Ancestors[d] = Above(building', n + 1)
    <3>1. Ancestors[d] = {building[n]} \cup Ancestors[building[n]]
      BY <1>2, <1>3, <1>6 DEF Here
    <3>2. n \in 1 .. n /\ Ancestors[building[n]] = {building[i] : i \in 1 .. n - 1}
      <4>1. n \in 1 .. n
        BY <1>6
      <4>2. Ancestors[building[n]] = Above(building, n)
        BY <1>1, <1>6, <4>1 DEF Path
      <4> QED
        BY <4>1, <4>2 DEF Above
    <3>3. \A i \in 1 .. n : i = n \/ i \in 1 .. n - 1
      BY <1>6
    <3>4. \A i \in 1 .. n - 1 : i \in 1 .. n
      BY <1>6
    <3>5. {building[i] : i \in 1 .. n} = {building[n]} \cup {building[i] : i \in 1 .. n - 1}
      BY <3>2, <3>3, <3>4
    <3>6. {building'[i] : i \in 1 .. (n + 1) - 1} = {building[i] : i \in 1 .. n}
      <4>1. (n + 1) - 1 = n
        BY <1>6
      <4> QED
        BY <1>7, <4>1
    <3> QED
      BY <3>1, <3>2, <3>5, <3>6 DEF Above
  <2>4. ASSUME NEW j \in 2 .. n + 1
        PROVE  building'[j] # Sim /\ Parent[building'[j]] = building'[j - 1]
    <3>1. CASE j = n + 1
      <4>1. n \in 1 .. n /\ j - 1 = n
        BY <3>1
      <4> QED
        BY <1>3, <1>6, <1>7, <3>1, <4>1 DEF Here
    <3>2. CASE j \in 2 .. n
      <4>1. j \in 1 .. n /\ j - 1 \in 1 .. n
        BY <3>2
      <4> QED
        BY <1>1, <1>6, <1>7, <3>2, <4>1 DEF Path
    <3> QED
      BY <3>1, <3>2
  <2>5. \A j \in 1 .. n + 1 : j = n + 1 \/ j \in 1 .. n
    OBVIOUS
  <2>6. ASSUME NEW j \in 1 .. n + 1
        PROVE  building'[j] \in alive' /\ Ancestors[building'[j]] = Above(building', j)
    <3>1. CASE j = n + 1
      BY <1>3, <1>7, <2>3, <3>1
    <3>2. CASE j \in 1 .. n
      BY <2>2, <3>2
    <3> QED
      BY <2>5, <3>1, <3>2
  <2> QED
    BY <1>7, <2>1, <2>4, <2>6 DEF Path
<1>9. Children'
  <2> SUFFICES ASSUME NEW e \in Device
               PROVE  /\ IsInjective(components[e])
                      /\ \A x \in Range(components[e]) :
                           x \in alive' /\ x # Sim /\ Parent[x] = e /\ x \notin Range(building')
    <3>1. components' = components
      BY <1>2
    <3> QED
      BY <3>1 DEF Children, IsInjective, Range
  <2>1. /\ IsInjective(components[e])
        /\ \A x \in Range(components[e]) :
             x \in alive /\ x # Sim /\ Parent[x] = e /\ x \notin Range(building)
    BY <1>1 DEF Children
  <2>2. \A x \in Range(components[e]) : x # d
    BY <1>4
  <2>3. ASSUME NEW x \in Range(components[e]) PROVE x \in alive' /\ x \notin Range(building')
    BY <1>3, <1>7, <2>1, <2>2
  <2> QED
    BY <2>1, <2>3
<1>10. /\ \A e \in Device : flags'[e] >= flags[e] /\ flags[e] \in Nat /\ flags'[e] \in Nat
       /\ flags'[Here] = flags[Here] + 1
  <2>1. flags \in [Device -> Nat] /\ flags' = [flags EXCEPT ![Here] = flags[Here] + 1]
    BY <1>1, <1>3 DEF TableTypes
  <2> QED
    BY <1>5, <2>1
<1>11. \A e \in Device : Len(components[e]) <= flags[e] /\ Len(components[e]) \in Nat
  BY <1>1, LenProperties DEF IndexIsPosition, TableTypes
<1>12. IndexIsPosition'
  <2>1. \A e \in Device : Len(components[e]) <= flags'[e]
    BY <1>10, <1>11
  <2> QED
    BY <1>1, <1>2, <1>4, <2>1 DEF IndexIsPosition
<1>13. Reserved'
  <2> SUFFICES ASSUME NEW j \in 2 .. n + 1
               PROVE  /\ local_index'[building'[j]] = Len(components[building'[j - 1]])
                      /\ Len(components[building'[j - 1]]) < flags'[building'[j - 1]]
    BY <1>2, <1>7 DEF Reserved
  <2>1. CASE j = n + 1
    <3>1. building'[j] = d /\ building'[j - 1] = Here
      <4>1. n \in 1 .. n /\ j - 1 = n
        BY <2>1
      <4> QED
        BY <1>6, <1>7, <2>1, <4>1 DEF Here
    <3>2. local_index'[d] = Len(components[Here])
      BY <1>1, <1>2, <1>3 DEF TableTypes
    <3>3. Len(components[Here]) < flags'[Here]
      BY <1>5, <1>10, <1>11
    <3> QED
      BY <3>1, <3>2, <3>3
  <2>2. CASE j \in 2 .. n
    <3>1. j \in 1 .. n /\ j - 1 \in 1 .. n
      BY <2>2
    <3>2. building'[j] = building[j] /\ building'[j - 1] = building[j - 1]
      BY <1>7, <3>1
    <3>3. /\ local_index[building[j]] = Len(components[building[j - 1]])
          /\ Len(components[building[j - 1]]) < flags[building[j - 1]]
      BY <1>1, <1>6, <2>2 DEF Reserved
    <3>4. building[j - 1] \in Device
      BY <1>5, <1>6, <3>1
    <3>5. Len(components[building[j - 1]]) < flags'[building[j - 1]]
      BY <1>10, <1>11, <3>3, <3>4
    <3>6. local_index'[building[j]] = local_index[building[j]]
      BY <1>4, <1>6, <3>1
    <3> QED
      BY <3>2, <3>3, <3>5, <3>6
  <2> QED
    BY <2>1, <2>2
<1> QED
  BY <1>1, <1>2, <1>3, <1>7, <1>8, <1>9, <1>12, <1>13 DEF TableInv, TableTypes

\* A Device's Build() has ended, and AddComponent enters it in its parent's tables.
LEMMA TablesEndDevice ==
  ASSUME TableInv, NEW outputsChanged \in BOOLEAN, EndDevice(outputsChanged)
  PROVE  TableInv'
<1> USE NetlistAssumption
<1>1. TableTypes /\ Path /\ Children /\ Reserved
  BY DEF TableInv
<1>2. /\ Here # Sim /\ building' = SubSeq(building, 1, Len(building) - 1)
      /\ components' = [components EXCEPT ![Parent[Here]] = Append(@, Here)]
      /\ devices' = [devices EXCEPT ![Parent[Here]] = Append(@, local_index[Here])]
      /\ UNCHANGED <<alive, local_index, flags>>
  BY DEF EndDevice
<1>3. /\ Here \in Device /\ Here \in alive /\ Here \in Range(building)
      /\ Len(building) \in Nat \ {0} /\ DOMAIN building = 1 .. Len(building)
      /\ \A j \in 1 .. Len(building) : building[j] \in Device
      /\ \A i, j \in 1 .. Len(building) : i < j => building[i] # building[j]
  BY <1>1, HereIsLast
<1>4. PICK n \in Nat : n = Len(building) /\ n >= 2
  <2>1. Len(building) # 1
    BY <1>1, <1>2 DEF Here, Path
  <2>2. PICK m \in Nat \ {0} : m = Len(building)
    BY <1>3
  <2>3. m >= 2
    BY <2>1, <2>2
  <2> QED
    BY <2>2, <2>3
<1>5. /\ n \in 2 .. n /\ n \in 1 .. n /\ n - 1 \in 1 .. n /\ n - 1 < n
  BY <1>4
<1>6. /\ Here = building[n] /\ Parent[Here] = building[n - 1] /\ building[n - 1] \in Device
      /\ Here \in Component
  BY <1>1, <1>3, <1>4, <1>5 DEF Here, Path, Component
<1>7. /\ building' \in Seq(Device) /\ Len(building') = n - 1 /\ DOMAIN building' = 1 .. n - 1
      /\ \A i \in 1 .. n - 1 : building'[i] = building[i]
  <2>1. PICK s \in Seq(Device) : s = building
    BY <1>1 DEF TableTypes
  <2>2. PICK t : t = SubSeq(s, 1, n - 1)
    OBVIOUS
  <2>3. /\ t \in Seq(Device) /\ Len(t) = IF 1 <= n - 1 THEN n - 1 - 1 + 1 ELSE 0
        /\ \A i \in 1 .. n - 1 - 1 + 1 : t[i] = s[1 + i - 1]
    <3>1. \A i \in 1 .. n - 1 : s[i] \in Device
      BY <1>3, <1>4, <2>1
    <3> QED
      BY <1>4, <2>2, <3>1, SubSeqProperties
  <2>4. t \in Seq(Device) /\ Len(t) = n - 1 /\ \A i \in 1 .. n - 1 : t[i] = s[i]
    BY <1>4, <2>3
  <2>5. DOMAIN t = 1 .. n - 1
    BY <2>4, LenProperties
  <2>6. building' = t
    BY <1>2, <1>4, <2>1, <2>2
  <2> QED
    BY <2>1, <2>4, <2>5, <2>6
<1>8. \A i \in 1 .. n - 1 : i \in 1 .. n /\ i < n /\ building[i] # Here
  <2>1. n \in 1 .. n /\ \A i \in 1 .. n - 1 : i \in 1 .. n /\ i < n
    BY <1>4
  <2>2. \A i \in 1 .. n - 1 : building[i] # building[n]
    BY <1>3, <1>4, <2>1
  <2> QED
    BY <1>4, <2>1, <2>2 DEF Here
<1>9. Range(building') \subseteq Range(building) /\ Here \notin Range(building')
  <2>1. ASSUME NEW i \in 1 .. n - 1 PROVE building'[i] \in Range(building) /\ building'[i] # Here
    <3>1. building'[i] = building[i] /\ i \in 1 .. n /\ building[i] # Here
      BY <1>7, <1>8
    <3>2. i \in DOMAIN building
      BY <1>3, <1>4, <3>1
    <3> QED
      BY <3>1, <3>2 DEF Range
  <2> QED
    BY <1>7, <2>1 DEF Range
<1>10. components' \in [Device -> Seq(Component)] /\ Children' /\ IndexIsPosition'
  <2>1. \A d \in Device : Here \notin Range(components[d])
    BY <1>1, <1>3 DEF Children
  <2>2. local_index'[Here] = Len(components[Parent[Here]])
    BY <1>1, <1>2, <1>4, <1>5, <1>6 DEF Reserved
  <2>3. \A d \in Device : flags[d] \in Nat
    BY <1>1 DEF TableTypes
  <2>4. flags'[Parent[Here]] > Len(components[Parent[Here]])
    <3>1. Len(components[building[n - 1]]) < flags[building[n - 1]]
      BY <1>1, <1>4, <1>5 DEF Reserved
    <3>2. Len(components[building[n - 1]]) \in Nat /\ flags[building[n - 1]] \in Nat
      BY <1>1, <1>6, LenProperties DEF TableTypes
    <3> QED
      BY <1>2, <1>6, <3>1, <3>2
  <2>5. \A d \in Device : flags'[d] \in Nat /\ flags'[d] >= flags[d]
    BY <1>2, <2>3
  <2>6. Here \in alive' /\ alive \subseteq alive'
    BY <1>2, <1>3
  <2>7. \A d \in Device : \A i \in DOMAIN components[d] :
          local_index'[components[d][i]] = local_index[components[d][i]]
    BY <1>2
  <2>8. Here \in Component /\ Parent[Here] \in Device
    BY <1>6
  <2>9. PICK c \in Component, h \in Device : c = Here /\ h = Parent[Here]
    BY <2>8
  <2>10. /\ c # Sim /\ Parent[c] = h /\ c \in alive' /\ c \notin Range(building')
         /\ \A d \in Device : c \notin Range(components[d])
         /\ components' = [components EXCEPT ![h] = Append(@, c)]
         /\ local_index'[c] = Len(components[h]) /\ flags'[h] > Len(components[h])
    BY <1>2, <1>9, <2>1, <2>2, <2>4, <2>6, <2>9
  <2> QED
    BY <1>9, <2>5, <2>6, <2>7, <2>10, ChildAppended
<1>11. Path'
  <2>1. building' # <<>>
    BY <1>4, <1>7, EmptySeq
  <2>2. building'[1] = Sim
    BY <1>1, <1>4, <1>7 DEF Path
  <2>3. ASSUME NEW j \in 1 .. n - 1
        PROVE  building'[j] \in alive' /\ Ancestors[building'[j]] = Above(building', j)
    <3>1. \A i \in 1 .. j - 1 : i \in 1 .. n - 1
      BY <1>4
    <3>2. {building'[i] : i \in 1 .. j - 1} = {building[i] : i \in 1 .. j - 1}
      BY <1>7, <3>1
    <3>3. Above(building', j) = Above(building, j)
      BY <3>2 DEF Above
    <3>4. building[j] \in alive /\ Ancestors[building[j]] = Above(building, j)
      BY <1>1, <1>4, <1>8 DEF Path
    <3> QED
      BY <1>2, <1>7, <3>3, <3>4
  <2>4. ASSUME NEW j \in 2 .. n - 1
        PROVE  building'[j] # Sim /\ Parent[building'[j]] = building'[j - 1]
    <3>1. j \in 2 .. n /\ j \in 1 .. n - 1 /\ j - 1 \in 1 .. n - 1
      BY <1>4
    <3>2. building[j] # Sim /\ Parent[building[j]] = building[j - 1]
      BY <1>1, <1>4, <3>1 DEF Path
    <3> QED
      BY <1>7, <3>1, <3>2
  <2> QED
    BY <1>7, <2>1, <2>2, <2>3, <2>4 DEF Path
<1>12. Reserved'
  <2>1. ASSUME NEW j \in 2 .. n - 1
        PROVE  /\ local_index'[building'[j]] = Len(components'[building'[j - 1]])
               /\ Len(components'[building'[j - 1]]) < flags'[building'[j - 1]]
    <3>1. /\ j \in 2 .. n /\ j \in 1 .. n - 1 /\ j - 1 \in 1 .. n - 1
          /\ j - 1 \in 1 .. n /\ j - 1 < n - 1
      BY <1>4
    <3>2. building[j - 1] # building[n - 1] /\ building[j - 1] \in Device
      BY <1>3, <1>4, <1>5, <3>1
    <3>3. components'[building[j - 1]] = components[building[j - 1]]
      BY <1>1, <1>2, <1>6, <3>2 DEF TableTypes
    <3>4. /\ local_index[building[j]] = Len(components[building[j - 1]])
          /\ Len(components[building[j - 1]]) < flags[building[j - 1]]
      BY <1>1, <1>4, <3>1 DEF Reserved
    <3> QED
      BY <1>2, <1>7, <3>1, <3>3, <3>4
  <2> QED
    BY <1>7, <2>1 DEF Reserved
<1>13. devices' \in [Device -> Seq(Nat)]
  <2>1. local_index[Here] \in Nat /\ Parent[Here] \in Device /\ devices[Parent[Here]] \in Seq(Nat)
    BY <1>1, <1>6 DEF TableTypes
  <2>2. Append(devices[Parent[Here]], local_index[Here]) \in Seq(Nat)
    BY <2>1, AppendElements
  <2> QED
    BY <1>1, <1>2, <2>2 DEF TableTypes
<1>14. Deep'
  BY <1>2 DEF TableInv, Deep
<1> QED
  BY <1>1, <1>2, <1>7, <1>10, <1>11, <1>12, <1>13, <1>14 DEF TableInv, TableTypes

\* What a purge leaves in the tables: nothing within c, and the parent's without it.
LEMMA PurgedTables ==
  ASSUME TableInv, NEW c \in Component, c # Sim, c \in Range(components[Parent[c]]),
         PurgeIdentifiers(c)
  PROVE  /\ Position(c) \in 1 .. Len(components[Parent[c]])
         /\ components[Parent[c]][Position(c)] = c
         /\ ~Within(Parent[c], c) /\ Parent[c] \in Device
         /\ alive' = {x \in alive : ~Within(x, c)}
         /\ components' \in [Device -> Seq(Component)]
         /\ components'[Parent[c]] = Omit(components[Parent[c]], Position(c))
         /\ \A d \in Device \ {Parent[c]} :
              components'[d] = IF Within(d, c) THEN <<>> ELSE components[d]
         /\ devices' \in [Device -> Seq(Nat)]
         /\ flags' \in [Device -> Nat]
         /\ flags'[Parent[c]] = IF c \in Device THEN flags[Parent[c]] - 1 ELSE flags[Parent[c]]
         /\ \A d \in Device \ {Parent[c]} : flags'[d] = IF Within(d, c) THEN 0 ELSE flags[d]
<1> USE NetlistAssumption
<1>1. TableTypes /\ Children /\ IndexIsPosition
  BY DEF TableInv
<1>2. Parent[c] \in Device /\ ~Within(Parent[c], c)
  BY WithinParent
<1>3. PICK h \in Device : h = Parent[c]
  BY <1>2
<1>4. PICK s \in Seq(Component) : s = components[h]
  BY <1>1 DEF TableTypes
<1>5. PICK k \in 1 .. Len(s) : s[k] = c
  BY <1>3, <1>4, LenProperties DEF Range
<1>6. Position(c) \in 1 .. Len(s) /\ s[Position(c)] = c
  <2>1. DOMAIN s = 1 .. Len(s)
    BY LenProperties
  <2> QED
    BY <1>3, <1>4, <1>5, <2>1 DEF Position
<1>7. PICK i \in 1 .. Len(s) : i = Position(c)
  BY <1>6
<1>8. Omit(s, i) \in Seq(Component)
  BY OmitEntry
<1>9. /\ alive' = {x \in alive : ~Within(x, c)}
      /\ components' = [[x \in Device |-> IF Within(x, c) THEN <<>> ELSE components[x]]
           EXCEPT ![h] = Omit(@, i)]
      /\ devices' = [[x \in Device |-> IF Within(x, c) THEN <<>> ELSE devices[x]] EXCEPT
           ![h] = IF c \in Device THEN Omit(@, local_index[c] + 1) ELSE @]
      /\ flags' = [[x \in Device |-> IF Within(x, c) THEN 0 ELSE flags[x]]
           EXCEPT ![h] = IF c \in Device THEN @ - 1 ELSE @]
  BY <1>3, <1>7 DEF PurgeIdentifiers
<1>10. /\ components'[h] = Omit(s, i)
       /\ \A d \in Device \ {h} : components'[d] = IF Within(d, c) THEN <<>> ELSE components[d]
  BY <1>2, <1>3, <1>4, <1>9
<1>11. components' \in [Device -> Seq(Component)]
  <2>1. \A d \in Device : components'[d] \in Seq(Component)
    <3> TAKE d \in Device
    <3>1. CASE d = h
      BY <1>8, <1>10, <3>1
    <3>2. CASE d # h
      <4>1. components[d] \in Seq(Component) /\ <<>> \in Seq(Component)
        BY <1>1, EmptySeq DEF TableTypes
      <4> QED
        BY <1>10, <3>2, <4>1
    <3> QED
      BY <3>1, <3>2
  <2> QED
    BY <1>9, <2>1
<1>12. devices' \in [Device -> Seq(Nat)]
  <2>1. devices[h] \in Seq(Nat) /\ local_index[c] + 1 \in Nat
    <3>1. devices[h] \in Seq(Nat) /\ local_index[c] \in Nat
      BY <1>1 DEF TableTypes
    <3> QED
      BY <3>1
  <2>2. Omit(devices[h], local_index[c] + 1) \in Seq(Nat)
    BY <2>1, OmitType
  <2>3. \A d \in Device : devices'[d] \in Seq(Nat)
    <3> TAKE d \in Device
    <3>1. CASE d = h
      <4>1. devices'[h] = IF c \in Device THEN Omit(devices[h], local_index[c] + 1) ELSE devices[h]
        BY <1>2, <1>3, <1>9
      <4> QED
        BY <2>1, <2>2, <3>1, <4>1
    <3>2. CASE d # h
      <4>1. devices'[d] = IF Within(d, c) THEN <<>> ELSE devices[d]
        BY <1>9, <3>2
      <4>2. devices[d] \in Seq(Nat)
        BY <1>1 DEF TableTypes
      <4> QED
        BY <4>1, <4>2
    <3> QED
      BY <3>1, <3>2
  <2> QED
    BY <1>9, <2>3
<1>13. /\ flags'[h] = IF c \in Device THEN flags[h] - 1 ELSE flags[h]
       /\ \A d \in Device \ {h} : flags'[d] = IF Within(d, c) THEN 0 ELSE flags[d]
  BY <1>2, <1>3, <1>9
<1>14. flags' \in [Device -> Nat]
  <2>1. flags[h] \in Nat /\ flags[h] > 0
    <3>1. Len(s) <= flags[h] /\ flags[h] \in Nat /\ Len(s) \in Nat
      BY <1>1, <1>4, LenProperties DEF IndexIsPosition, TableTypes
    <3> QED
      BY <1>5, <3>1
  <2>2. \A d \in Device : flags'[d] \in Nat
    <3> TAKE d \in Device
    <3>1. CASE d = h
      BY <1>13, <2>1, <3>1
    <3>2. CASE d # h
      <4>1. flags[d] \in Nat
        BY <1>1 DEF TableTypes
      <4> QED
        BY <1>13, <3>2, <4>1
    <3> QED
      BY <3>1, <3>2
  <2> QED
    BY <1>9, <2>2
<1> QED
  BY <1>2, <1>3, <1>4, <1>6, <1>7, <1>9, <1>10, <1>11, <1>12, <1>13, <1>14

\* No Device under construction is within a child that is in a table.
LEMMA BuildingStays ==
  ASSUME TableInv, NEW c \in Component, c # Sim, c \in Range(components[Parent[c]])
  PROVE  \A j \in 1 .. Len(building) : ~Within(building[j], c)
<1> USE NetlistAssumption
<1>1. TableTypes /\ Path /\ Children
  BY DEF TableInv
<1>2. c \notin Range(building)
  <2>1. Parent[c] \in Device
    OBVIOUS
  <2> QED
    BY <1>1, <2>1 DEF Children
<1>3. DOMAIN building = 1 .. Len(building) /\ Len(building) \in Nat
  BY <1>1, HereIsLast
<1>4. ASSUME NEW j \in 1 .. Len(building) PROVE ~Within(building[j], c)
  <2>1. building[j] # c
    BY <1>2, <1>3 DEF Range
  <2>2. Ancestors[building[j]] = Above(building, j)
    BY <1>1 DEF Path
  <2>3. \A i \in 1 .. j - 1 : building[i] # c
    <3>1. \A i \in 1 .. j - 1 : i \in 1 .. Len(building)
      BY <1>3
    <3> QED
      BY <1>2, <1>3, <3>1 DEF Range
  <2> QED
    BY <2>1, <2>2, <2>3 DEF Within, Above
<1> QED
  BY <1>4

\* The tables lose what is within c, and nothing else.
LEMMA PurgedChildren ==
  ASSUME TableInv, NEW c \in Component, c # Sim, c \in Range(components[Parent[c]]),
         PurgeIdentifiers(c), NEW d \in Device
  PROVE  /\ Range(components'[d]) = {x \in Range(components[d]) : ~Within(x, c)}
         /\ IsInjective(components'[d])
<1> USE NetlistAssumption
<1>1. TableTypes /\ Children
  BY DEF TableInv
<1>2. PICK h \in Device : h = Parent[c]
  OBVIOUS
<1>3. PICK s \in Seq(Component) : s = components[d]
  BY <1>1 DEF TableTypes
<1>4. IsInjective(s) /\ \A x \in Range(s) : x \in Component /\ x # Sim /\ Parent[x] = d
  BY <1>1, <1>3, EmptyQueue DEF Children
<1>5. \A x \in Range(s) : Within(x, c) <=> x = c \/ Within(d, c)
  BY <1>4, WithinParent
<1>6. CASE d = h
  <2>1. PICK k \in 1 .. Len(s) : k = Position(c) /\ s[k] = c /\ components'[d] = Omit(s, k)
    <3>1. /\ Position(c) \in 1 .. Len(components[Parent[c]])
          /\ components[Parent[c]][Position(c)] = c
          /\ components'[Parent[c]] = Omit(components[Parent[c]], Position(c))
      BY PurgedTables
    <3>2. components[Parent[c]] = s /\ Parent[c] = d
      BY <1>2, <1>3, <1>6
    <3> QED
      BY <3>1, <3>2
  <2>2. Range(Omit(s, k)) = Range(s) \ {c} /\ IsInjective(Omit(s, k))
    BY <1>4, <2>1, OmitElements
  <2>3. ~Within(d, c)
    BY <1>2, <1>6, PurgedTables
  <2>4. Range(components'[d]) = Range(s) \ {c} /\ IsInjective(components'[d])
    BY <2>1, <2>2
  <2> QED
    BY <1>3, <1>5, <2>3, <2>4
<1>7. CASE d # h /\ Within(d, c)
  <2>1. components'[d] = <<>>
    BY <1>2, <1>7, PurgedTables
  <2>2. Range(components'[d]) = {} /\ IsInjective(components'[d])
    BY <2>1, EmptyQueue DEF Range, IsInjective
  <2> QED
    BY <1>3, <1>5, <1>7, <2>2
<1>8. CASE d # h /\ ~Within(d, c)
  <2>1. components'[d] = s
    BY <1>2, <1>3, <1>8, PurgedTables
  <2>2. c \notin Range(s)
    BY <1>2, <1>4, <1>8
  <2>3. Range(components'[d]) = Range(s) /\ IsInjective(components'[d])
    BY <1>4, <2>1
  <2> QED
    BY <1>3, <1>5, <1>8, <2>2, <2>3
<1> QED
  BY <1>6, <1>7, <1>8

\* Where a child is, in a table without repetition.
LEMMA PositionIs ==
  ASSUME TableInv, NEW d \in Device, NEW i \in 1 .. Len(components[d]), NEW x,
         x = components[d][i]
  PROVE  Position(x) = i
<1>1. TableTypes /\ Children
  BY DEF TableInv
<1>2. DOMAIN components[d] = 1 .. Len(components[d])
  BY <1>1, LenProperties DEF TableTypes
<1>3. IsInjective(components[d]) /\ x \in Range(components[d])
  BY <1>1, <1>2 DEF Children, Range
<1>4. Parent[x] = d
  BY <1>1, <1>3 DEF Children
<1>5. \A j \in DOMAIN components[d] : components[d][j] = x => j = i
  BY <1>2, <1>3 DEF IsInjective
<1> QED
  BY <1>2, <1>4, <1>5 DEF Position

\* What a purge does to the local indices.
LEMMA PurgedIndices ==
  ASSUME TableInv, NEW c \in Component, c # Sim, c \in Range(components[Parent[c]]),
         PurgeIdentifiers(c)
  PROVE  /\ local_index' \in [Component -> Nat]
         /\ \A x \in Component : ~Within(x, c) /\ x \notin Range(components[Parent[c]]) =>
              local_index'[x] = local_index[x]
         /\ \A i \in 1 .. Len(components[Parent[c]]) :
              i # Position(c) =>
                local_index'[components[Parent[c]][i]] = IF i > Position(c) THEN i - 2 ELSE i - 1
<1> USE NetlistAssumption
<1>1. TableTypes /\ Children /\ IndexIsPosition
  BY DEF TableInv
<1>2. PICK h \in Device : h = Parent[c]
  OBVIOUS
<1>3. PICK s \in Seq(Component) : s = components[h]
  BY <1>1 DEF TableTypes
<1>4. DOMAIN s = 1 .. Len(s) /\ Len(s) \in Nat /\ \A i \in 1 .. Len(s) : s[i] \in Component
  BY LenProperties, ElementOfSeq
<1>5. PICK k \in 1 .. Len(s) : k = Position(c) /\ s[k] = c
  BY <1>2, <1>3, PurgedTables
<1>6. local_index' = [x \in Component |->
        IF Within(x, c) THEN 0
        ELSE IF x \in Range(s) /\ Position(x) > k THEN Position(x) - 2 ELSE local_index[x]]
  BY <1>2, <1>3, <1>5 DEF PurgeIdentifiers, Renumber
<1>7. \A i \in 1 .. Len(s) : Position(s[i]) = i
  BY <1>2, <1>3, PositionIs
<1>8. ASSUME NEW i \in 1 .. Len(s), i # k
      PROVE  local_index'[s[i]] = IF i > k THEN i - 2 ELSE i - 1
  <2>1. s[i] \in Range(s) /\ s[i] \in Component /\ Position(s[i]) = i
    BY <1>4, <1>7 DEF Range
  <2>2. s[i] # Sim /\ Parent[s[i]] = h /\ s[i] # c
    <3>1. s[i] # c
      BY <1>5, <1>7, <1>8
    <3> QED
      BY <1>1, <1>3, <2>1, <3>1 DEF Children
  <2>3. ~Within(s[i], c)
    BY <1>2, <2>1, <2>2, WithinParent
  <2>4. local_index'[s[i]] = IF Position(s[i]) > k THEN Position(s[i]) - 2 ELSE local_index[s[i]]
    BY <1>6, <2>1, <2>3
  <2>5. local_index[s[i]] = i - 1
    BY <1>1, <1>3, <1>4 DEF IndexIsPosition
  <2> QED
    BY <2>1, <2>4, <2>5
<1>9. local_index' \in [Component -> Nat]
  <2>1. ASSUME NEW x \in Component PROVE local_index'[x] \in Nat
    <3>1. CASE x \in Range(s) /\ Position(x) > k
      <4>1. PICK i \in 1 .. Len(s) : x = s[i]
        BY <1>4, <3>1 DEF Range
      <4>2. Position(x) = i /\ i > k /\ i - 2 \in Nat
        BY <1>4, <1>7, <3>1, <4>1
      <4>3. local_index'[x] = IF Within(x, c) THEN 0 ELSE Position(x) - 2
        BY <1>6, <3>1
      <4>4. Position(x) - 2 = i - 2
        BY <4>2
      <4> QED
        BY <4>2, <4>3, <4>4
    <3>2. CASE ~(x \in Range(s) /\ Position(x) > k)
      <4>1. local_index[x] \in Nat
        BY <1>1 DEF TableTypes
      <4> QED
        BY <1>6, <3>2, <4>1
    <3> QED
      BY <3>1, <3>2
  <2> QED
    BY <1>6, <2>1
<1>10. \A x \in Component : ~Within(x, c) /\ x \notin Range(s) => local_index'[x] = local_index[x]
  BY <1>6
<1> QED
  BY <1>2, <1>3, <1>5, <1>8, <1>9, <1>10

\* PurgeComponent keeps the tables; the parent of what goes is none of the Devices that
\* wait for the Build() of another one.
LEMMA TablesPurge ==
  ASSUME TableInv, NEW c \in Component, c # Sim, c \in Range(components[Parent[c]]), Purge(c),
         \A j \in 2 .. Len(building) : Parent[c] # building[j - 1]
  PROVE  TableInv'
<1> USE NetlistAssumption
<1>1. TableTypes /\ Path /\ Children /\ IndexIsPosition /\ Reserved /\ Deep
  BY DEF TableInv
<1>2. PurgeIdentifiers(c) /\ building' = building
  BY DEF Purge
<1>3. PICK h \in Device : h = Parent[c]
  OBVIOUS
<1>4. PICK s \in Seq(Component) : s = components[h]
  BY <1>1 DEF TableTypes
<1>5. /\ ~Within(h, c) /\ alive' = {x \in alive : ~Within(x, c)}
      /\ components' \in [Device -> Seq(Component)]
      /\ \A d \in Device \ {h} : components'[d] = IF Within(d, c) THEN <<>> ELSE components[d]
      /\ devices' \in [Device -> Seq(Nat)] /\ flags' \in [Device -> Nat]
      /\ flags'[h] = IF c \in Device THEN flags[h] - 1 ELSE flags[h]
      /\ \A d \in Device \ {h} : flags'[d] = IF Within(d, c) THEN 0 ELSE flags[d]
  BY <1>2, <1>3, PurgedTables
<1>6. PICK k \in 1 .. Len(s) : k = Position(c) /\ s[k] = c /\ components'[h] = Omit(s, k)
  <2>1. /\ Position(c) \in 1 .. Len(components[Parent[c]])
        /\ components[Parent[c]][Position(c)] = c
        /\ components'[Parent[c]] = Omit(components[Parent[c]], Position(c))
    BY <1>2, PurgedTables
  <2> QED
    BY <1>3, <1>4, <2>1
<1>7. /\ local_index' \in [Component -> Nat]
      /\ \A x \in Component : ~Within(x, c) /\ x \notin Range(s) => local_index'[x] = local_index[x]
      /\ \A i \in 1 .. Len(s) :
           i # k => local_index'[s[i]] = IF i > k THEN i - 2 ELSE i - 1
  BY <1>2, <1>3, <1>4, <1>6, PurgedIndices
<1>8. \A j \in 1 .. Len(building) : ~Within(building[j], c)
  BY BuildingStays
<1>9. /\ Len(building) \in Nat \ {0} /\ DOMAIN building = 1 .. Len(building)
      /\ \A j \in 1 .. Len(building) : building[j] \in Device
  BY <1>1, HereIsLast
<1>10. Len(s) \in Nat /\ DOMAIN s = 1 .. Len(s) /\ Len(s) <= flags[h] /\ flags[h] \in Nat
  BY <1>1, <1>4, LenProperties DEF IndexIsPosition, TableTypes
<1>11. PICK t \in Seq(Component) :
         /\ t = Omit(s, k) /\ Len(t) = Len(s) - 1 /\ DOMAIN t = 1 .. Len(s) - 1
         /\ \A i \in 1 .. Len(s) - 1 : t[i] = IF i < k THEN s[i] ELSE s[i + 1]
  <2> HIDE NetlistAssumption
  <2> QED
    BY OmitWitness
<1>12. Path'
  <2>1. \A j \in 1 .. Len(building) :
          building[j] \in alive' /\ Ancestors[building[j]] = Above(building, j)
    BY <1>1, <1>5, <1>8 DEF Path
  <2> QED
    BY <1>1, <1>2, <2>1 DEF Path
<1>13. Children'
  <2> SUFFICES ASSUME NEW d \in Device
               PROVE  /\ IsInjective(components'[d])
                      /\ \A x \in Range(components'[d]) :
                           x \in alive' /\ x # Sim /\ Parent[x] = d /\ x \notin Range(building)
    BY <1>2 DEF Children, IsInjective, Range
  <2>1. /\ Range(components'[d]) = {x \in Range(components[d]) : ~Within(x, c)}
        /\ IsInjective(components'[d])
    BY <1>2, PurgedChildren
  <2>2. \A x \in Range(components[d]) :
          x \in alive /\ x # Sim /\ Parent[x] = d /\ x \notin Range(building)
    BY <1>1 DEF Children
  <2> QED
    BY <1>5, <2>1, <2>2
<1>14. IndexIsPosition'
  <2> SUFFICES ASSUME NEW d \in Device
               PROVE  /\ \A i \in DOMAIN components'[d] : local_index'[components'[d][i]] = i - 1
                      /\ Len(components'[d]) <= flags'[d]
    BY DEF IndexIsPosition
  <2>1. CASE d = h
    <3>1. ASSUME NEW i \in 1 .. Len(s) - 1 PROVE local_index'[t[i]] = i - 1
      <4>1. CASE i < k
        <5>1. i \in 1 .. Len(s) /\ i # k /\ ~(i > k) /\ t[i] = s[i]
          BY <1>10, <1>11, <4>1
        <5> QED
          BY <1>7, <5>1
      <4>2. CASE ~(i < k)
        <5>1. i + 1 \in 1 .. Len(s) /\ i + 1 # k /\ i + 1 > k /\ t[i] = s[i + 1]
          BY <1>10, <1>11, <4>2
        <5>2. local_index'[s[i + 1]] = (i + 1) - 2
          BY <1>7, <5>1
        <5> QED
          BY <5>1, <5>2
      <4> QED
        BY <4>1, <4>2
    <3>2. Len(t) <= flags'[h]
      <4>1. PICK m \in Nat, n \in Nat : m = Len(s) /\ n = flags[h] /\ m <= n
        BY <1>10
      <4>2. Len(t) = m - 1 /\ flags'[h] \in {n - 1, n}
        BY <1>5, <1>11, <4>1
      <4> QED
        BY <4>1, <4>2
    <3> QED
      BY <1>6, <1>11, <2>1, <3>1, <3>2
  <2>2. CASE d # h /\ Within(d, c)
    <3>1. components'[d] = <<>> /\ flags'[d] = 0
      BY <1>5, <2>2
    <3> QED
      BY <3>1
  <2>3. CASE d # h /\ ~Within(d, c)
    <3>1. components'[d] = components[d] /\ flags'[d] = flags[d]
      BY <1>5, <2>3
    <3>2. ASSUME NEW i \in DOMAIN components[d]
          PROVE  local_index'[components[d][i]] = i - 1
      <4>1. components[d][i] \in Range(components[d]) /\ components[d][i] \in Component
        <5>1. components[d] \in Seq(Component)
          BY <1>1 DEF TableTypes
        <5>2. components[d][i] \in Range(components[d])
          BY DEF Range
        <5> QED
          BY <5>1, <5>2, EmptyQueue
      <4>2. Parent[components[d][i]] = d /\ components[d][i] # Sim
        BY <1>1, <4>1 DEF Children
      <4>3. components[d][i] \notin Range(s) /\ components[d][i] # c
        BY <1>1, <1>3, <1>4, <2>3, <4>2 DEF Children
      <4>4. ~Within(components[d][i], c)
        BY <2>3, <4>1, <4>2, <4>3, WithinParent
      <4>5. local_index'[components[d][i]] = local_index[components[d][i]]
        BY <1>7, <4>1, <4>3, <4>4
      <4> QED
        BY <1>1, <4>5 DEF IndexIsPosition
    <3> QED
      BY <1>1, <3>1, <3>2 DEF IndexIsPosition
  <2> QED
    BY <2>1, <2>2, <2>3
<1>15. Reserved'
  <2>1. ASSUME NEW j \in 2 .. Len(building)
        PROVE  /\ local_index'[building[j]] = Len(components'[building[j - 1]])
               /\ Len(components'[building[j - 1]]) < flags'[building[j - 1]]
    <3>1. j \in 1 .. Len(building) /\ j - 1 \in 1 .. Len(building)
      BY <1>9
    <3>2. /\ building[j - 1] \in Device \ {h} /\ ~Within(building[j - 1], c)
          /\ building[j] \in Component /\ ~Within(building[j], c) /\ building[j] \in Range(building)
      BY <1>3, <1>8, <1>9, <3>1 DEF Component, Range
    <3>3. /\ components'[building[j - 1]] = components[building[j - 1]]
          /\ flags'[building[j - 1]] = flags[building[j - 1]]
      BY <1>5, <3>2
    <3>4. building[j] \notin Range(s)
      BY <1>1, <1>4, <3>2 DEF Children
    <3>5. local_index'[building[j]] = local_index[building[j]]
      BY <1>7, <3>2, <3>4
    <3> QED
      BY <1>1, <3>3, <3>5 DEF Reserved
  <2> QED
    BY <1>2, <2>1 DEF Reserved
<1>16. Deep' /\ alive' \subseteq Component
  BY <1>1, <1>5 DEF Deep, TableTypes
<1> QED
  BY <1>1, <1>2, <1>5, <1>7, <1>12, <1>13, <1>14, <1>15, <1>16 DEF TableInv, TableTypes

\* What leaves m_components, the indices and the flags alone keeps the invariant.
LEMMA TablesUntouched ==
  ASSUME TableInv, UNCHANGED <<tables, building>>
  PROVE  TableInv'
<1>1. UNCHANGED <<alive, components, devices, local_index, flags, building>>
  BY DEF tables
<1>2. TableTypes' /\ Path' /\ Deep'
  BY <1>1 DEF TableInv, TableTypes, Path, Deep
<1>3. Children'
  BY <1>1 DEF TableInv, Children, IsInjective, Range
<1>4. IndexIsPosition' /\ Reserved'
  BY <1>1 DEF TableInv, IndexIsPosition, Reserved
<1> QED
  BY <1>2, <1>3, <1>4 DEF TableInv

-----------------------------------------------------------------------------
(* The inductive invariant: the connections.                               *)

\* Where a connection from s can lead: a Clock's to a child of the Simulation, an inner
\* pin's to a child of its Device, any other's to a sibling or to the parent of its owner.
Leads(s, q) ==
  IF s \in Clock THEN Owner[q] \in Range(components[Sim])
  ELSE IF Inner(s) THEN Owner[q] \in Range(components[Owner[s]])
  ELSE /\ Direction[s] = 2
       /\ Owner[s] \in Range(components[Parent[Owner[s]]])
       /\ Owner[q] \in Range(components[Parent[Owner[s]]]) \cup {Parent[Owner[s]]}
Wired == \A s \in Source : \A q \in Targets(s) : Leads(s, q)

\* What drives a pin is alone in that, and drives it once; no magic engine sets it too.
Single ==
  \A s \in Source : \A q \in Targets(s) :
    /\ connections[s][q] = 1 /\ q \notin MarkedIn(Owner[q])
    /\ \A t \in Source : q \in Targets(t) => t = s

WireInv == RestTypes /\ Wired /\ NothingDangling /\ Single /\ DriveFlags

NetInv == TableInv /\ WireInv

\* What the connections look like, one at a time.
LEMMA Wire1 ==
  ASSUME WireInv, NEW s \in Source, NEW q \in Pin, connections[s][q] > 0
  PROVE  /\ Leads(s, q) /\ Owner[q] \in alive
         /\ s \in Clock => s \in clocks /\ Parent[Owner[q]] = Sim
         /\ s \in Pin => Owner[s] \in alive
         /\ connections[s][q] = 1 /\ q \notin MarkedIn(Owner[q])
         /\ \A t \in Source : connections[t][q] > 0 => t = s
         /\ drive_in[q] /\ (s \in Pin => drive_out[s])
<1>1. q \in Targets(s)
  BY DEF Targets
<1>2. Leads(s, q)
  BY <1>1 DEF WireInv, Wired
<1>3. /\ Owner[q] \in alive
      /\ s \in Clock => s \in clocks /\ Parent[Owner[q]] = Sim
      /\ s \in Pin => Owner[s] \in alive
  BY <1>1 DEF WireInv, NothingDangling
<1>4. connections[s][q] = 1 /\ q \notin MarkedIn(Owner[q])
  BY <1>1 DEF WireInv, Single
<1>5. \A t \in Source : connections[t][q] > 0 => t = s
  BY <1>1 DEF WireInv, Single, Targets
<1>6. drive_in[q] /\ (s \in Pin => drive_out[s])
  BY <1>1 DEF WireInv, DriveFlags
<1> QED
  BY <1>2, <1>3, <1>4, <1>5, <1>6

\* The converse: what has to hold of every connection, and of the flags, afterwards.
LEMMA WiresAfter ==
  ASSUME RestTypes',
         \A s \in Source, q \in Pin : connections'[s][q] > 0 =>
           /\ Leads(s, q)' /\ Owner[q] \in alive'
           /\ s \in Clock => s \in clocks' /\ Parent[Owner[q]] = Sim
           /\ s \in Pin => Owner[s] \in alive'
           /\ connections'[s][q] = 1 /\ q \notin MarkedIn(Owner[q])
           /\ \A t \in Source : connections'[t][q] > 0 => t = s
           /\ drive_in'[q] /\ (s \in Pin => drive_out'[s]),
         \A q \in Pin : drive_in'[q] =>
           \/ Owner[q] \in alive' /\ q \in MarkedIn(Owner[q])
           \/ \E s \in Source : connections'[s][q] > 0,
         \A q \in Pin : Owner[q] \in alive' /\ q \in MarkedIn(Owner[q]) => drive_in'[q]
  PROVE  WireInv'
<1>1. \A s \in Source : \A q \in Targets(s)' : q \in Pin /\ connections'[s][q] > 0
  BY DEF Targets
<1>2. Wired'
  BY <1>1 DEF Wired
<1>3. NothingDangling'
  BY <1>1 DEF NothingDangling
<1>4. Single'
  <2>1. ASSUME NEW s \in Source, NEW q \in Targets(s)'
        PROVE  /\ connections'[s][q] = 1 /\ q \notin MarkedIn(Owner[q])
               /\ \A t \in Source : q \in Targets(t)' => t = s
    BY <1>1
  <2> QED
    BY <2>1 DEF Single
<1>5. DriveFlags'
  <2>1. ASSUME NEW q \in Pin
        PROVE  drive_in'[q] <=> \/ Owner[q] \in alive' /\ q \in MarkedIn(Owner[q])
                                \/ \E s \in Source : connections'[s][q] > 0
    OBVIOUS
  <2>2. ASSUME NEW s \in Pin, Targets(s)' # {} PROVE drive_out'[s]
    <3>1. s \in Source
      BY DEF Source
    <3>2. PICK q \in Targets(s)' : TRUE
      BY <2>2
    <3> QED
      BY <1>1, <3>1, <3>2
  <2> QED
    BY <2>1, <2>2, Zenon DEF DriveFlags
<1> QED
  BY <1>2, <1>3, <1>4, <1>5 DEF WireInv

\* What neither connects nor purges keeps the connections: something may be new, its
\* pins unconnected, and the tables may grow.
LEMMA WiresKept ==
  ASSUME WireInv, RestTypes',
         \A s \in Source, q \in Pin : connections'[s][q] = connections[s][q],
         alive \subseteq alive', clocks \subseteq clocks',
         \A d \in Device : Range(components[d]) \subseteq Range(components'[d]),
         \A s \in Pin : Owner[s] \in alive /\ drive_out[s] => drive_out'[s],
         \A q \in Pin : Owner[q] \in alive' \ alive => (drive_in'[q] <=> q \in MarkedIn(Owner[q])),
         \A q \in Pin : Owner[q] \notin alive' \ alive => (drive_in'[q] <=> drive_in[q])
  PROVE  WireInv'
<1>1. ASSUME NEW s \in Source, NEW q \in Pin, connections'[s][q] > 0
      PROVE  /\ Leads(s, q)' /\ Owner[q] \in alive'
             /\ s \in Clock => s \in clocks' /\ Parent[Owner[q]] = Sim
             /\ s \in Pin => Owner[s] \in alive'
             /\ connections'[s][q] = 1 /\ q \notin MarkedIn(Owner[q])
             /\ \A t \in Source : connections'[t][q] > 0 => t = s
             /\ drive_in'[q] /\ (s \in Pin => drive_out'[s])
  <2>1. connections[s][q] > 0
    BY <1>1
  <2>2. /\ Leads(s, q) /\ Owner[q] \in alive
        /\ s \in Clock => s \in clocks /\ Parent[Owner[q]] = Sim
        /\ s \in Pin => Owner[s] \in alive
        /\ connections[s][q] = 1 /\ q \notin MarkedIn(Owner[q])
        /\ \A t \in Source : connections[t][q] > 0 => t = s
        /\ drive_in[q] /\ (s \in Pin => drive_out[s])
    BY <2>1, Wire1
  <2>3. Leads(s, q)'
    <3>1. Sim \in Device /\ (s \in Pin => Owner[s] \in Component /\ Parent[Owner[s]] \in Device)
      BY NetlistAssumption
    <3>2. s \notin Clock => s \in Pin
      BY DEF Source
    <3> QED
      BY <2>2, <3>1, <3>2 DEF Leads, Inner
  <2>4. \A t \in Source : connections'[t][q] > 0 => t = s
    BY <2>2
  <2>5. drive_in'[q] /\ (s \in Pin => drive_out'[s])
    BY <2>2, Zenon
  <2> QED
    BY <1>1, <2>2, <2>3, <2>4, <2>5
<1>2. ASSUME NEW q \in Pin, drive_in'[q]
      PROVE  \/ Owner[q] \in alive' /\ q \in MarkedIn(Owner[q])
             \/ \E s \in Source : connections'[s][q] > 0
  <2>1. CASE Owner[q] \in alive' \ alive
    BY <1>2, <2>1, Zenon
  <2>2. CASE Owner[q] \notin alive' \ alive
    <3>1. drive_in[q]
      BY <1>2, <2>2, Zenon
    <3>2. \/ Owner[q] \in alive /\ q \in MarkedIn(Owner[q])
          \/ \E s \in Source : connections[s][q] > 0
      BY <3>1, Zenon DEF WireInv, DriveFlags
    <3> QED
      BY <3>2
  <2> QED
    BY <2>1, <2>2
<1>3. ASSUME NEW q \in Pin, Owner[q] \in alive', q \in MarkedIn(Owner[q])
      PROVE  drive_in'[q]
  <2>1. CASE Owner[q] \in alive
    <3>1. drive_in[q]
      BY <1>3, <2>1, Zenon DEF WireInv, DriveFlags
    <3> QED
      BY <2>1, <3>1, Zenon
  <2>2. CASE Owner[q] \notin alive
    BY <1>3, <2>2, Zenon
  <2> QED
    BY <2>1, <2>2
<1> QED
  BY <1>1, <1>2, <1>3, WiresAfter

\* The constructors: nothing leads to or from the pins of what did not exist.
LEMMA WiresConstruct ==
  ASSUME TableInv, WireInv, NEW c \in Component, Construct(c),
         clocks' = clocks, errors' \in BOOLEAN, pending' = pending,
         \A d \in Device : Range(components[d]) \subseteq Range(components'[d])
  PROVE  /\ WireInv'
         /\ \A s \in Source, q \in Pin : connections'[s][q] = connections[s][q]
<1> USE NetlistAssumption
<1>1. RestTypes /\ c \notin alive /\ alive' = alive \cup {c}
  BY DEF WireInv, Construct
<1>2. /\ connections' = [s \in Source |->
                           IF s \in PinsOf(c) THEN [q \in Pin |-> 0] ELSE connections[s]]
      /\ drive_in' = [p \in Pin |-> IF Owner[p] = c THEN p \in MarkedIn(c) ELSE drive_in[p]]
      /\ drive_out' = [p \in Pin |-> IF Owner[p] = c THEN p \in MarkedOut(c) ELSE drive_out[p]]
  BY DEF Construct
<1>3. ASSUME NEW s \in Source, NEW q \in Pin PROVE connections'[s][q] = connections[s][q]
  <2>1. CASE s \in PinsOf(c)
    <3>1. s \in Pin /\ Owner[s] \notin alive
      BY <1>1, <2>1 DEF PinsOf
    <3>2. ~(connections[s][q] > 0)
      BY <3>1, Wire1
    <3>3. connections[s][q] \in Nat
      BY <1>1 DEF RestTypes
    <3>4. connections'[s][q] = 0
      BY <1>2, <2>1
    <3> QED
      BY <3>2, <3>3, <3>4
  <2>2. CASE s \notin PinsOf(c)
    BY <1>2, <2>2
  <2> QED
    BY <2>1, <2>2
<1>4. RestTypes'
  <2>1. connections' \in [Source -> [Pin -> Nat]]
    BY <1>1, <1>2 DEF RestTypes
  <2>2. drive_in' \in [Pin -> BOOLEAN]
    <3>1. ASSUME NEW p \in Pin
          PROVE  (IF Owner[p] = c THEN p \in MarkedIn(c) ELSE drive_in[p]) \in BOOLEAN
      <4>1. (p \in MarkedIn(c)) \in BOOLEAN
        OBVIOUS
      <4>2. drive_in[p] \in BOOLEAN
        BY <1>1 DEF RestTypes
      <4> QED
        BY <4>1, <4>2
    <3> QED
      BY <1>2, <3>1, Zenon
  <2>3. drive_out' \in [Pin -> BOOLEAN]
    <3>1. ASSUME NEW p \in Pin
          PROVE  (IF Owner[p] = c THEN p \in MarkedOut(c) ELSE drive_out[p]) \in BOOLEAN
      <4>1. (p \in MarkedOut(c)) \in BOOLEAN
        OBVIOUS
      <4>2. drive_out[p] \in BOOLEAN
        BY <1>1 DEF RestTypes
      <4> QED
        BY <4>1, <4>2
    <3> QED
      BY <1>2, <3>1, Zenon
  <2> QED
    BY <1>1, <2>1, <2>2, <2>3 DEF RestTypes, pending
<1>5. \A q \in Pin : Owner[q] \in alive' \ alive => (drive_in'[q] <=> q \in MarkedIn(Owner[q]))
  BY <1>1, <1>2
<1>6. \A q \in Pin : Owner[q] \notin alive' \ alive => (drive_in'[q] <=> drive_in[q])
  <2> TAKE q \in Pin
  <2>1. ASSUME Owner[q] \notin alive' \ alive PROVE Owner[q] # c
    BY <1>1, <2>1
  <2> QED
    BY <1>2, <2>1
<1>7. \A s \in Pin : Owner[s] \in alive /\ drive_out[s] => drive_out'[s]
  <2> TAKE s \in Pin
  <2>1. ASSUME Owner[s] \in alive PROVE drive_out'[s] = drive_out[s]
    <3>1. Owner[s] # c
      BY <1>1, <2>1
    <3> QED
      BY <1>2, <3>1
  <2> QED
    BY <2>1
<1>8. alive \subseteq alive' /\ clocks \subseteq clocks'
  BY <1>1
<1> QED
  BY <1>3, <1>4, <1>5, <1>6, <1>7, <1>8, WiresKept

\* Device::AddGate keeps the connections.
LEMMA WiresAddGate ==
  ASSUME TableInv, WireInv, NEW g \in Gate, AddGate(g)
  PROVE  /\ WireInv'
         /\ \A s \in Source, q \in Pin : connections'[s][q] = connections[s][q]
<1>1. /\ Construct(g) /\ g \in Component /\ clocks' = clocks /\ pending' = pending
      /\ components' = [components EXCEPT ![Here] = Append(@, g)]
      /\ errors' \in BOOLEAN
  BY DEF AddGate, Component
<1>2. TableTypes /\ Here \in Device
  BY HereIsLast DEF TableInv
<1>3. ASSUME NEW d \in Device PROVE Range(components[d]) \subseteq Range(components'[d])
  <2>1. CASE d = Here
    <3>1. PICK s \in Seq(Component) : s = components[Here]
      BY <1>2 DEF TableTypes
    <3>2. Range(Append(s, g)) = Range(s) \cup {g}
      BY <1>1, AppendElements
    <3>3. components'[d] = Append(s, g) /\ components[d] = s
      BY <1>1, <1>2, <2>1, <3>1 DEF TableTypes
    <3> QED
      BY <3>2, <3>3
  <2>2. CASE d # Here
    <3>1. components'[d] = components[d]
      BY <1>1, <1>2, <2>2 DEF TableTypes
    <3> QED
      BY <3>1
  <2> QED
    BY <2>1, <2>2
<1> QED
  BY <1>1, <1>3, WiresConstruct

\* The constructor of a Device up to its Build() keeps the connections.
LEMMA WiresBeginDevice ==
  ASSUME TableInv, WireInv, NEW d \in Device, BeginDevice(d)
  PROVE  /\ WireInv'
         /\ \A s \in Source, q \in Pin : connections'[s][q] = connections[s][q]
<1>1. Construct(d) /\ d \in Component /\ clocks' = clocks /\ pending' = pending
  BY DEF BeginDevice, Component
<1>2. errors' \in BOOLEAN
  BY DEF BeginDevice, WireInv, RestTypes
<1>3. components' = components
  BY DEF BeginDevice
<1>4. \A e \in Device : Range(components[e]) \subseteq Range(components'[e])
  BY <1>3
<1> QED
  BY <1>1, <1>2, <1>4, WiresConstruct

\* What leaves the connections and the drive-in flags alone, and takes nothing away.
LEMMA WiresUntouched ==
  ASSUME WireInv, RestTypes', UNCHANGED <<alive, connections, drive_in>>,
         clocks \subseteq clocks',
         \A d \in Device : Range(components[d]) \subseteq Range(components'[d]),
         \A s \in Pin : drive_out[s] => drive_out'[s]
  PROVE  WireInv'
<1>1. \A s \in Source, q \in Pin : connections'[s][q] = connections[s][q]
  OBVIOUS
<1>2. alive \subseteq alive'
  OBVIOUS
<1>3. \A s \in Pin : Owner[s] \in alive /\ drive_out[s] => drive_out'[s]
  OBVIOUS
<1>4. \A q \in Pin : Owner[q] \in alive' \ alive => (drive_in'[q] <=> q \in MarkedIn(Owner[q]))
  OBVIOUS
<1>5. \A q \in Pin : Owner[q] \notin alive' \ alive => (drive_in'[q] <=> drive_in[q])
  OBVIOUS
<1> QED
  BY <1>1, <1>2, <1>3, <1>4, <1>5, WiresKept

\* The end of a Device's constructor keeps the connections.
LEMMA WiresEndDevice ==
  ASSUME TableInv, WireInv, NEW outputsChanged \in BOOLEAN, EndDevice(outputsChanged)
  PROVE  WireInv'
<1> USE NetlistAssumption
<1>1. TableTypes /\ RestTypes
  BY DEF TableInv, WireInv
<1>2. Here \in Device /\ Here \in Component
  BY <1>1, HereIsLast DEF TableInv, Component
<1>3. PICK d \in Device, p \in Device : d = Here /\ p = Parent[d]
  BY <1>2
<1>4. /\ propagate_next_tick' = [propagate_next_tick EXCEPT ![d] = <<>>,
           ![p] = IF outputsChanged THEN Append(@, local_index[d]) ELSE @]
      /\ queued' = [queued EXCEPT ![d] = <<>>, ![p] = IF outputsChanged THEN Append(@, d) ELSE @]
      /\ components' = [components EXCEPT ![p] = Append(@, d)]
      /\ UNCHANGED <<alive, clocks, connections, drive_in, drive_out, errors>>
  BY <1>3 DEF EndDevice, wiring
<1>5. propagate_next_tick' \in [Device -> Seq(Nat)] /\ queued' \in [Device -> Seq(Device)]
  <2>1. local_index[d] \in Nat
    BY <1>1, <1>2, <1>3 DEF TableTypes
  <2>2. \A t \in Seq(Nat) : Append(t, local_index[d]) \in Seq(Nat)
    BY <2>1, AppendElements
  <2>3. \A t \in Seq(Device) : Append(t, d) \in Seq(Device)
    BY AppendElements
  <2> HIDE NetlistAssumption
  <2>4. propagate_next_tick' \in [Device -> Seq(Nat)]
    <3>1. ASSUME NEW x \in Device
          PROVE  [propagate_next_tick EXCEPT ![d] = <<>>][x] \in Seq(Nat)
      BY <1>1, EmptyQueue DEF RestTypes
    <3>2. CASE outputsChanged
      BY <1>1, <1>4, <2>2, <3>1, <3>2 DEF RestTypes
    <3>3. CASE ~outputsChanged
      BY <1>1, <1>4, <3>1, <3>3 DEF RestTypes
    <3> QED
      BY <3>2, <3>3
  <2>5. queued' \in [Device -> Seq(Device)]
    <3>1. ASSUME NEW x \in Device
          PROVE  [queued EXCEPT ![d] = <<>>][x] \in Seq(Device)
      BY <1>1, EmptyQueue DEF RestTypes
    <3>2. CASE outputsChanged
      BY <1>1, <1>4, <2>3, <3>1, <3>2 DEF RestTypes
    <3>3. CASE ~outputsChanged
      BY <1>1, <1>4, <3>1, <3>3 DEF RestTypes
    <3> QED
      BY <3>2, <3>3
  <2> QED
    BY <2>4, <2>5
<1>6. RestTypes'
  BY <1>1, <1>4, <1>5 DEF RestTypes
<1>7. ASSUME NEW x \in Device PROVE Range(components[x]) \subseteq Range(components'[x])
  <2>1. CASE x = p
    <3>1. PICK s \in Seq(Component) : s = components[p]
      BY <1>1 DEF TableTypes
    <3>2. Range(Append(s, d)) = Range(s) \cup {d}
      BY AppendElements DEF Component
    <3>3. components'[x] = Append(s, d) /\ components[x] = s
      BY <1>1, <1>4, <2>1, <3>1 DEF TableTypes
    <3> QED
      BY <3>2, <3>3
  <2>2. CASE x # p
    <3>1. components'[x] = components[x]
      BY <1>1, <1>4, <2>2 DEF TableTypes
    <3> QED
      BY <3>1
  <2> QED
    BY <2>1, <2>2
<1>8. UNCHANGED <<alive, connections, drive_in>> /\ clocks \subseteq clocks' /\ drive_out' = drive_out
  BY <1>4
<1> QED
  BY <1>6, <1>7, <1>8, WiresUntouched

\* A connection to a pin that is not marked as driven is its first and only one.
LEMMA WireAdded ==
  ASSUME WireInv, NEW s \in Source, NEW q \in Pin, Wire(s, q),
         UNCHANGED <<tables, pending, clocks, errors>>,
         ~drive_in[q], Leads(s, q), Owner[q] \in alive,
         s \in Clock => s \in clocks /\ Parent[Owner[q]] = Sim,
         s \in Pin => Owner[s] \in alive
  PROVE  /\ WireInv'
         /\ \A t \in Source, r \in Pin :
              connections'[t][r] > 0 <=> connections[t][r] > 0 \/ (t = s /\ r = q)
<1>0. UNCHANGED <<alive, components, clocks, errors, propagate_next_tick, queued>>
  BY DEF tables, pending
<1>1. RestTypes /\ \A t \in Source, r \in Pin : connections[t][r] \in Nat
  BY DEF WireInv, RestTypes
<1>2. /\ connections' = [connections EXCEPT ![s][q] = @ + 1]
      /\ drive_in' = [drive_in EXCEPT ![q] = TRUE]
      /\ drive_out' = [p \in Pin |-> p = s \/ drive_out[p]]
  BY DEF Wire
<1>3. \A t \in Source : ~(connections[t][q] > 0)
  BY Wire1
<1>4. connections[s][q] = 0
  BY <1>1, <1>3
<1>5. \A t \in Source, r \in Pin :
        connections'[t][r] = IF t = s /\ r = q THEN 1 ELSE connections[t][r]
  <2>1. connections \in [Source -> [Pin -> Nat]]
    BY <1>1 DEF RestTypes
  <2>2. ASSUME NEW t \in Source, NEW r \in Pin
        PROVE  connections'[t][r] = IF t = s /\ r = q THEN 0 + 1 ELSE connections[t][r]
    BY <1>2, <1>4, <2>1
  <2> QED
    BY <2>2
<1>6. RestTypes'
  <2>1. connections' \in [Source -> [Pin -> Nat]]
    BY <1>1, <1>2 DEF RestTypes
  <2>2. drive_in' \in [Pin -> BOOLEAN] /\ drive_out' \in [Pin -> BOOLEAN]
    <3>1. drive_in' \in [Pin -> BOOLEAN]
      BY <1>1, <1>2 DEF RestTypes
    <3>2. drive_out' \in [Pin -> BOOLEAN]
      BY <1>1, <1>2 DEF RestTypes
    <3> QED
      BY <3>1, <3>2
  <2> QED
    BY <1>0, <1>1, <2>1, <2>2 DEF RestTypes
<1>7. ASSUME NEW t \in Source, NEW r \in Pin
      PROVE  connections'[t][r] > 0 <=> connections[t][r] > 0 \/ (t = s /\ r = q)
  <2>1. CASE t = s /\ r = q
    BY <1>5, <2>1
  <2>2. CASE ~(t = s /\ r = q)
    BY <1>5, <2>2
  <2> QED
    BY <2>1, <2>2
<1>8. \A p \in Pin : drive_in'[p] <=> p = q \/ drive_in[p]
  <2>1. drive_in \in [Pin -> BOOLEAN]
    BY <1>1 DEF RestTypes
  <2> QED
    BY <1>2, <2>1
<1>9. \A p \in Pin : drive_out'[p] <=> p = s \/ drive_out[p]
  BY <1>2, Zenon
<1>10. ASSUME NEW t \in Source, NEW r \in Pin PROVE Leads(t, r)' <=> Leads(t, r)
  BY <1>0 DEF Leads, Inner
<1>11. ASSUME NEW t \in Source, NEW r \in Pin, connections'[t][r] > 0
       PROVE  /\ Leads(t, r)' /\ Owner[r] \in alive'
              /\ t \in Clock => t \in clocks' /\ Parent[Owner[r]] = Sim
              /\ t \in Pin => Owner[t] \in alive'
              /\ connections'[t][r] = 1 /\ r \notin MarkedIn(Owner[r])
              /\ \A u \in Source : connections'[u][r] > 0 => u = t
              /\ drive_in'[r] /\ (t \in Pin => drive_out'[t])
  <2>1. CASE t = s /\ r = q
    <3>1. /\ Leads(t, r)' /\ Owner[r] \in alive'
          /\ t \in Clock => t \in clocks' /\ Parent[Owner[r]] = Sim
          /\ t \in Pin => Owner[t] \in alive'
      BY <1>0, <1>10, <2>1
    <3>2. connections'[t][r] = 1
      BY <1>5, <2>1
    <3>3. r \notin MarkedIn(Owner[r])
      BY <2>1, Zenon DEF WireInv, DriveFlags
    <3>4. \A u \in Source : connections'[u][r] > 0 => u = t
      BY <1>3, <1>7, <2>1
    <3>5. drive_in'[r] /\ (t \in Pin => drive_out'[t])
      BY <1>8, <1>9, <2>1, Zenon
    <3> QED
      BY <3>1, <3>2, <3>3, <3>4, <3>5
  <2>2. CASE ~(t = s /\ r = q)
    <3>0. connections[t][r] > 0
      BY <1>7, <1>11, <2>2
    <3>1. /\ Leads(t, r) /\ Owner[r] \in alive
          /\ t \in Clock => t \in clocks /\ Parent[Owner[r]] = Sim
          /\ t \in Pin => Owner[t] \in alive
          /\ connections[t][r] = 1 /\ r \notin MarkedIn(Owner[r])
          /\ \A u \in Source : connections[u][r] > 0 => u = t
          /\ drive_in[r] /\ (t \in Pin => drive_out[t])
      BY <3>0, Wire1
    <3>2. connections'[t][r] = 1
      BY <1>5, <2>2, <3>1
    <3>3. r # q
      BY <1>3, <3>0
    <3>4. \A u \in Source : connections'[u][r] > 0 => u = t
      BY <1>7, <3>1, <3>3
    <3>5. drive_in'[r] /\ (t \in Pin => drive_out'[t])
      BY <1>8, <1>9, <3>1, Zenon
    <3>6. /\ Leads(t, r)' /\ Owner[r] \in alive'
          /\ t \in Clock => t \in clocks' /\ Parent[Owner[r]] = Sim
          /\ t \in Pin => Owner[t] \in alive'
      BY <1>0, <1>10, <3>1
    <3> QED
      BY <3>1, <3>2, <3>4, <3>5, <3>6
  <2> QED
    BY <2>1, <2>2
<1>12. ASSUME NEW r \in Pin, drive_in'[r]
       PROVE  \/ Owner[r] \in alive' /\ r \in MarkedIn(Owner[r])
              \/ \E t \in Source : connections'[t][r] > 0
  <2>1. CASE r = q
    BY <1>7, <2>1
  <2>2. CASE drive_in[r]
    <3>1. \/ Owner[r] \in alive /\ r \in MarkedIn(Owner[r])
          \/ \E t \in Source : connections[t][r] > 0
      BY <2>2, Zenon DEF WireInv, DriveFlags
    <3> QED
      BY <1>0, <1>7, <3>1
  <2> QED
    BY <1>8, <1>12, <2>1, <2>2, Zenon
<1>13. ASSUME NEW r \in Pin, Owner[r] \in alive', r \in MarkedIn(Owner[r]) PROVE drive_in'[r]
  <2>1. drive_in[r]
    BY <1>0, <1>13, Zenon DEF WireInv, DriveFlags
  <2> QED
    BY <1>8, <2>1, Zenon
<1>14. WireInv'
  BY <1>6, <1>11, <1>12, <1>13, WiresAfter
<1> QED
  BY <1>7, <1>14

\* A refusal changes nothing that the connections depend on.
LEMMA WiresRefuse ==
  ASSUME WireInv, Refuse, UNCHANGED <<tables, pending, clocks>>
  PROVE  WireInv'
<1>1. /\ UNCHANGED <<alive, components, clocks, propagate_next_tick, queued>>
      /\ UNCHANGED <<connections, drive_in, drive_out>> /\ errors' \in BOOLEAN
  BY DEF tables, pending, Refuse, wiring
<1>2. RestTypes'
  BY <1>1 DEF WireInv, RestTypes
<1>3. components' = components
  BY <1>1
<1>4. \A d \in Device : Range(components[d]) \subseteq Range(components'[d])
  BY <1>3
<1>5. UNCHANGED <<alive, connections, drive_in>> /\ clocks \subseteq clocks' /\ drive_out' = drive_out
  BY <1>1
<1> QED
  BY <1>2, <1>4, <1>5, WiresUntouched

\* What can be named as the two ends of a connection.
LEMMA NamedEnds ==
  ASSUME TableInv, NEW s \in Connectable, NEW q \in Reach(s), Inner(s) \/ Direction[s] = 2
  PROVE  /\ s \in Pin /\ q \in Pin /\ s \notin Clock /\ Leads(s, q)
         /\ Owner[s] \in alive /\ Owner[q] \in alive
<1> USE NetlistAssumption
<1>1. TableTypes /\ Path /\ Children
  BY DEF TableInv
<1>2. Here \in Device /\ Here \in alive
  BY <1>1, HereIsLast
<1>3. /\ s \in Pin /\ s \notin Clock
      /\ Owner[s] \in {Here} \cup Visible(Here) /\ (Owner[s] = Here => Inner(s))
  BY DEF Connectable
<1>4. Owner[s] \in alive
  BY <1>1, <1>2, <1>3, VisibleChildren
<1>5. PICK c \in Scope(s) : q \in Pin /\ Owner[q] = c
  BY DEF Reach, PinsOf
<1>6. CASE Inner(s)
  <2>1. c \in Visible(Owner[s]) /\ Owner[s] \in Device
    BY <1>5, <1>6 DEF Scope, Inner
  <2>2. c \in Range(components[Owner[s]]) /\ c \in alive
    BY <1>1, <2>1, VisibleChildren
  <2> QED
    BY <1>3, <1>4, <1>5, <1>6, <2>2 DEF Leads
<1>7. CASE ~Inner(s)
  <2>1. Owner[s] \in Visible(Here) /\ Direction[s] = 2
    BY <1>3, <1>7
  <2>2. Owner[s] \in Range(components[Here]) /\ Parent[Owner[s]] = Here
    BY <1>1, <1>2, <2>1, VisibleChildren
  <2>3. c \in Visible(Here) \cup {Here}
    BY <1>5, <1>7, <2>2 DEF Scope
  <2>4. c \in Range(components[Here]) \cup {Here} /\ c \in alive
    BY <1>1, <1>2, <2>3, VisibleChildren
  <2> QED
    BY <1>3, <1>4, <1>5, <1>7, <2>1, <2>2, <2>4 DEF Leads
<1> QED
  BY <1>6, <1>7

\* Device::ChildConnect and Connect, to a pin of a child or of the parent.
LEMMA WiresConnect ==
  ASSUME TableInv, WireInv, NEW s \in Connectable, NEW q \in Reach(s),
         GateConnect(s, q) \/ DeviceConnect(s, q)
  PROVE  /\ WireInv' /\ UNCHANGED <<tables, clocks, building>>
         /\ \/ /\ errors' = errors /\ s \in Pin /\ q \in Pin
               /\ Owner[s] \in alive /\ Owner[q] \in alive /\ ~drive_in[q]
               /\ \A t \in Source, r \in Pin :
                    connections'[t][r] > 0 <=> connections[t][r] > 0 \/ (t = s /\ r = q)
            \/ errors' = TRUE /\ connections' = connections
<1> USE NetlistAssumption
<1>1. PICK allowed \in BOOLEAN : Connect(s, q, allowed) /\ (allowed => Inner(s) \/ Direction[s] = 2)
  <2>1. CASE GateConnect(s, q)
    BY <2>1 DEF GateConnect
  <2>2. CASE DeviceConnect(s, q)
    <3>1. Connect(s, q, Compatible(s, q)) /\ Compatible(s, q) \in BOOLEAN
      BY <2>2 DEF DeviceConnect, Compatible
    <3> QED
      BY <3>1 DEF Compatible
  <2> QED
    BY <2>1, <2>2
<1>2. UNCHANGED <<tables, pending, clocks, building>>
  BY <1>1 DEF Connect
<1>3. CASE allowed /\ Free(s, q)
  <2>1. Wire(s, q) /\ errors' = errors /\ ~drive_in[q]
    BY <1>1, <1>3 DEF Connect, Free
  <2>2. /\ s \in Pin /\ q \in Pin /\ s \notin Clock /\ Leads(s, q)
        /\ Owner[s] \in alive /\ Owner[q] \in alive
    BY <1>1, <1>3, NamedEnds
  <2>3. s \in Source
    BY <2>2 DEF Source
  <2> HIDE NetlistAssumption
  <2>4. /\ WireInv'
        /\ \A t \in Source, r \in Pin :
             connections'[t][r] > 0 <=> connections[t][r] > 0 \/ (t = s /\ r = q)
    BY <1>2, <2>1, <2>2, <2>3, WireAdded
  <2> QED
    BY <1>2, <2>1, <2>2, <2>4
<1>4. CASE ~(allowed /\ Free(s, q))
  <2>1. Refuse
    BY <1>1, <1>4 DEF Connect
  <2> QED
    BY <1>2, <2>1, WiresRefuse DEF Refuse, wiring
<1> QED
  BY <1>3, <1>4

\* Clock::Connect.
LEMMA WiresClockConnect ==
  ASSUME TableInv, WireInv, NEW k \in clocks, NEW c \in Visible(Sim), NEW q \in PinsOf(c),
         ClockConnect(k, q)
  PROVE  /\ WireInv' /\ UNCHANGED <<tables, clocks, building>>
         /\ \/ /\ errors' = errors /\ k \in Clock /\ q \in Pin /\ Owner[q] \in alive /\ ~drive_in[q]
               /\ \A t \in Source, r \in Pin :
                    connections'[t][r] > 0 <=> connections[t][r] > 0 \/ (t = k /\ r = q)
            \/ errors' = TRUE /\ connections' = connections
<1>1. UNCHANGED <<tables, pending, clocks, building>>
  BY DEF ClockConnect
<1>2. CASE ~drive_in[q] /\ Direction[q] = 1
  <2>1. Wire(k, q) /\ errors' = errors /\ ~drive_in[q]
    BY <1>2 DEF ClockConnect
  <2>2. k \in Clock /\ k \notin Pin /\ k \in Source /\ q \in Pin /\ Owner[q] = c
    BY NetlistAssumption DEF WireInv, RestTypes, Source, PinsOf
  <2>3. c \in Range(components[Sim]) /\ c \in alive /\ Parent[c] = Sim
    BY VisibleChildren, NetlistAssumption DEF TableInv
  <2>4. Leads(k, q)
    BY <2>2, <2>3 DEF Leads
  <2>5. /\ WireInv'
        /\ \A t \in Source, r \in Pin :
             connections'[t][r] > 0 <=> connections[t][r] > 0 \/ (t = k /\ r = q)
    BY <1>1, <2>1, <2>2, <2>3, <2>4, WireAdded
  <2> QED
    BY <1>1, <2>1, <2>2, <2>3, <2>5
<1>3. CASE ~(~drive_in[q] /\ Direction[q] = 1)
  <2>1. Refuse
    BY <1>3 DEF ClockConnect
  <2> QED
    BY <1>1, <2>1, WiresRefuse DEF Refuse, wiring
<1> QED
  BY <1>2, <1>3

\* Those who are asked forget exactly the connections into what goes, and what goes
\* drives something outside of it by its own out pins only.
LEMMA RightlyForgotten ==
  ASSUME TableInv, WireInv, NEW c \in Component, c # Sim,
         NEW s \in Source, NEW q \in Pin, connections[s][q] > 0
  PROVE  /\ ~Lost(c, s) => (Forgets(c, s, q) <=> Within(Owner[q], c))
         /\ Lost(c, s) /\ ~Within(Owner[q], c) => s \in OutPins(c)
<1> USE NetlistAssumption
<1>1. Children
  BY DEF TableInv
<1>2. Leads(s, q)
  BY Wire1
<1>3. CASE s \in Clock
  <2>1. s \notin Pin
    BY <1>3
  <2> QED
    BY <1>3, <2>1 DEF Lost, Forgets, Asked
<1>4. CASE s \notin Clock
  <2>1. s \in Pin
    BY <1>4 DEF Source
  <2>2. PICK x \in Component : x = Owner[s]
    BY <2>1
  <2>3. PICK y \in Component : y = Owner[q]
    OBVIOUS
  <2>4. /\ Lost(c, s) <=> Within(x, c)
        /\ Forgets(c, s, q) <=> x \in {Parent[c]} \cup Range(components[Parent[c]]) /\ y = c
    BY <1>4, <2>1, <2>2, <2>3 DEF Lost, Forgets, Asked
  <2>5. CASE Inner(s)
    <3>1. x \in Device /\ y \in Range(components[x])
      BY <1>2, <1>4, <2>2, <2>3, <2>5 DEF Leads, Inner
    <3>2. y # Sim /\ Parent[y] = x
      BY <1>1, <3>1 DEF Children
    <3>3. Within(y, c) <=> y = c \/ Within(x, c)
      BY <3>2, WithinParent
    <3>4. y = c => x = Parent[c]
      BY <3>2
    <3> QED
      BY <2>3, <2>4, <3>3, <3>4
  <2>6. CASE ~Inner(s)
    <3>1. PICK p \in Device : p = Parent[x]
      OBVIOUS
    <3>2. Direction[s] = 2 /\ x \in Range(components[p]) /\ y \in Range(components[p]) \cup {p}
      BY <1>2, <1>4, <2>2, <2>3, <2>6, <3>1 DEF Leads
    <3>3. x # Sim
      BY <1>1, <3>2 DEF Children
    <3>4. Within(x, c) <=> x = c \/ Within(p, c)
      BY <3>1, <3>3, WithinParent
    <3>5. Within(y, c) <=> y = c \/ Within(p, c)
      <4>1. CASE y = p
        BY <4>1 DEF Within
      <4>2. CASE y # p
        <5>1. y # Sim /\ Parent[y] = p
          BY <1>1, <3>2, <4>2 DEF Children
        <5> QED
          BY <5>1, WithinParent
      <4> QED
        BY <4>1, <4>2
    <3>6. y = c /\ ~Within(x, c) => x \in Range(components[Parent[c]])
      <4>1. CASE y = p
        BY <3>4, <4>1 DEF Within
      <4>2. CASE y # p
        <5>1. Parent[y] = p
          BY <1>1, <3>2, <4>2 DEF Children
        <5> QED
          BY <3>2, <5>1
      <4> QED
        BY <4>1, <4>2
    <3>7. Within(x, c) /\ ~Within(y, c) => s \in OutPins(c)
      BY <2>1, <2>2, <3>2, <3>4, <3>5 DEF OutPins, PinsOf
    <3> QED
      BY <2>3, <2>4, <3>4, <3>5, <3>6, <3>7
  <2> QED
    BY <2>5, <2>6
<1> QED
  BY <1>3, <1>4

\* So PurgeComponent takes away the connections from and to what goes, and no other.
LEMMA PurgedWires ==
  ASSUME TableInv, WireInv, NEW c \in Component, c # Sim, PurgeConnections(c)
  PROVE  \A s \in Source, q \in Pin :
           connections'[s][q] =
             IF Lost(c, s) \/ Within(Owner[q], c) THEN 0 ELSE connections[s][q]
<1>1. \A s \in Source, q \in Pin :
        connections'[s][q] = IF Lost(c, s) \/ Forgets(c, s, q) THEN 0 ELSE connections[s][q]
  BY DEF PurgeConnections, NoTargets
<1>2. ASSUME NEW s \in Source, NEW q \in Pin
      PROVE  connections'[s][q] =
               IF Lost(c, s) \/ Within(Owner[q], c) THEN 0 ELSE connections[s][q]
  <2>1. CASE Lost(c, s)
    BY <1>1, <2>1
  <2>2. CASE ~Lost(c, s) /\ connections[s][q] > 0
    BY <1>1, <2>2, RightlyForgotten
  <2>3. CASE ~(connections[s][q] > 0)
    <3>1. connections[s][q] = 0
      BY <2>3 DEF WireInv, RestTypes
    <3> QED
      BY <1>1, <3>1
  <2> QED
    BY <2>1, <2>2, <2>3
<1> QED
  BY <1>2

\* PurgeComponent keeps the types of what it does not look up in the tables.
LEMMA PurgedTypes ==
  ASSUME WireInv, NEW c \in Component, Purge(c)
  PROVE  RestTypes'
<1>1. RestTypes /\ PurgeConnections(c) /\ PurgeIdentifiers(c) /\ UNCHANGED <<clocks, errors>>
  BY DEF WireInv, Purge
<1>2. connections' \in [Source -> [Pin -> Nat]]
  <2>1. ASSUME NEW s \in Source
        PROVE  [q \in Pin |-> IF Forgets(c, s, q) THEN 0 ELSE connections[s][q]] \in [Pin -> Nat]
    BY <1>1 DEF RestTypes
  <2>2. NoTargets \in [Pin -> Nat]
    BY DEF NoTargets
  <2> QED
    BY <1>1, <2>1, <2>2 DEF PurgeConnections
<1>3. drive_in' \in [Pin -> BOOLEAN] /\ drive_out' \in [Pin -> BOOLEAN]
  <2>1. drive_in' \in [Pin -> BOOLEAN]
    BY <1>1 DEF PurgeConnections
  <2>2. drive_out' \in [Pin -> BOOLEAN]
    BY <1>1 DEF PurgeConnections
  <2> QED
    BY <2>1, <2>2
<1>4. propagate_next_tick' \in [Device -> Seq(Nat)] /\ queued' \in [Device -> Seq(Device)]
  <2>1. /\ propagate_next_tick' = [x \in Device |->
                                     IF Within(x, c) THEN <<>> ELSE propagate_next_tick[x]]
        /\ queued' = [x \in Device |-> IF Within(x, c) THEN <<>> ELSE queued[x]]
    BY <1>1 DEF PurgeIdentifiers
  <2>2. <<>> \in Seq(Nat) /\ <<>> \in Seq(Device)
    OBVIOUS
  <2>3. ASSUME NEW x \in Device PROVE propagate_next_tick[x] \in Seq(Nat) /\ queued[x] \in Seq(Device)
    BY <1>1 DEF RestTypes
  <2> QED
    BY <2>1, <2>2, <2>3
<1> QED
  BY <1>1, <1>2, <1>3, <1>4 DEF RestTypes

\* PurgeComponent keeps the connections.
LEMMA WiresPurge ==
  ASSUME TableInv, WireInv, NEW c \in Component, c # Sim, c \in Range(components[Parent[c]]),
         Purge(c)
  PROVE  WireInv'
<1> USE NetlistAssumption
<1>1. PurgeConnections(c) /\ PurgeIdentifiers(c) /\ clocks' = clocks
  BY DEF Purge
<1>2. /\ drive_in' = [p \in Pin |-> drive_in[p] /\ ~Lost(c, p) /\ ~Outbound(c, p)]
      /\ drive_out' = [p \in Pin |-> drive_out[p] /\ ~Lost(c, p) /\ ~Emptied(c, p)]
  BY <1>1 DEF PurgeConnections
<1>3. alive' = {x \in alive : ~Within(x, c)}
  BY <1>1 DEF PurgeIdentifiers
<1>4. \A s \in Source, q \in Pin :
        connections'[s][q] =
          IF Lost(c, s) \/ Within(Owner[q], c) THEN 0 ELSE connections[s][q]
  BY <1>1, PurgedWires
<1>5. \A d \in Device : Range(components'[d]) = {x \in Range(components[d]) : ~Within(x, c)}
  BY <1>1, PurgedChildren
<1>6. \A q \in Pin : Lost(c, q) <=> Within(Owner[q], c)
  BY DEF Lost
<1>7. ASSUME NEW s \in Source, NEW q \in Pin, connections'[s][q] > 0
      PROVE  ~Lost(c, s) /\ ~Within(Owner[q], c) /\ connections[s][q] > 0
             /\ connections'[s][q] = connections[s][q]
  <2>1. ~(Lost(c, s) \/ Within(Owner[q], c))
    BY <1>4, <1>7
  <2> QED
    BY <1>4, <1>7, <2>1
<1>8. ASSUME NEW s \in Source, NEW q \in Pin, connections'[s][q] > 0
      PROVE  /\ Leads(s, q)' /\ Owner[q] \in alive'
             /\ s \in Clock => s \in clocks' /\ Parent[Owner[q]] = Sim
             /\ s \in Pin => Owner[s] \in alive'
             /\ connections'[s][q] = 1 /\ q \notin MarkedIn(Owner[q])
             /\ \A t \in Source : connections'[t][q] > 0 => t = s
             /\ drive_in'[q] /\ (s \in Pin => drive_out'[s])
  <2>1. ~Lost(c, s) /\ ~Within(Owner[q], c) /\ connections[s][q] > 0
        /\ connections'[s][q] = connections[s][q]
    BY <1>7, <1>8
  <2>2. /\ Leads(s, q) /\ Owner[q] \in alive
        /\ s \in Clock => s \in clocks /\ Parent[Owner[q]] = Sim
        /\ s \in Pin => Owner[s] \in alive
        /\ connections[s][q] = 1 /\ q \notin MarkedIn(Owner[q])
        /\ \A t \in Source : connections[t][q] > 0 => t = s
        /\ drive_in[q] /\ (s \in Pin => drive_out[s])
    BY <2>1, Wire1
  <2>3. s \in Pin => ~Within(Owner[s], c)
    BY <2>1 DEF Lost
  <2>4. Leads(s, q)'
    <3>1. s \notin Clock => s \in Pin
      BY DEF Source
    <3>2. s \in Pin => Owner[s] \in Component /\ Parent[Owner[s]] \in Device
      OBVIOUS
    <3>3. CASE s \in Clock
      BY <1>5, <2>1, <2>2, <3>3 DEF Leads
    <3>4. CASE s \notin Clock /\ Inner(s)
      BY <1>5, <2>1, <2>2, <3>4 DEF Leads, Inner
    <3>5. CASE s \notin Clock /\ ~Inner(s)
      BY <1>5, <2>1, <2>2, <2>3, <3>1, <3>2, <3>5 DEF Leads, Inner
    <3> QED
      BY <3>3, <3>4, <3>5
  <2>5. Owner[q] \in alive' /\ (s \in Pin => Owner[s] \in alive')
    BY <1>3, <2>1, <2>2, <2>3
  <2>6. \A t \in Source : connections'[t][q] > 0 => t = s
    BY <1>7, <2>2
  <2>7. drive_in'[q]
    <3>1. ~Outbound(c, q)
      <4>1. ASSUME NEW t \in OutPins(c), connections[t][q] > 0 PROVE FALSE
        <5>1. t \in Source /\ t \in Pin /\ Owner[t] = c
          BY DEF OutPins, PinsOf, Source
        <5>2. t = s
          BY <2>2, <4>1, <5>1
        <5> QED
          BY <2>3, <5>1, <5>2 DEF Within
      <4> QED
        BY <4>1 DEF Outbound
    <3>2. drive_in[q] /\ ~Lost(c, q) /\ ~Outbound(c, q)
      BY <1>6, <2>1, <2>2, <3>1, Zenon
    <3> QED
      BY <1>2, <3>2, Zenon
  <2>8. s \in Pin => drive_out'[s]
    <3>1. Owner[q] # c
      BY <2>1 DEF Within
    <3>2. ~Emptied(c, s)
      BY <2>1, <3>1 DEF Emptied
    <3>3. s \in Pin => drive_out[s] /\ ~Lost(c, s) /\ ~Emptied(c, s)
      BY <2>1, <2>2, <3>2, Zenon
    <3> QED
      BY <1>2, <3>3, Zenon
  <2>9. (s \in Clock => s \in clocks' /\ Parent[Owner[q]] = Sim) /\ connections'[s][q] = 1
    BY <1>1, <2>1, <2>2
  <2> QED
    BY <2>2, <2>4, <2>5, <2>6, <2>7, <2>8, <2>9
<1>9. ASSUME NEW q \in Pin, drive_in'[q]
      PROVE  \/ Owner[q] \in alive' /\ q \in MarkedIn(Owner[q])
             \/ \E s \in Source : connections'[s][q] > 0
  <2>1. drive_in[q] /\ ~Lost(c, q) /\ ~Outbound(c, q)
    BY <1>2, <1>9, Zenon
  <2>2. \/ Owner[q] \in alive /\ q \in MarkedIn(Owner[q])
        \/ \E s \in Source : connections[s][q] > 0
    BY <2>1, Zenon DEF WireInv, DriveFlags
  <2>3. ~Within(Owner[q], c)
    BY <1>6, <2>1
  <2>4. CASE Owner[q] \in alive /\ q \in MarkedIn(Owner[q])
    BY <1>3, <2>3, <2>4
  <2>5. ASSUME NEW s \in Source, connections[s][q] > 0
        PROVE  \E t \in Source : connections'[t][q] > 0
    <3>1. ~Lost(c, s)
      <4>1. Lost(c, s) => s \in OutPins(c)
        BY <2>3, <2>5, RightlyForgotten
      <4> QED
        BY <2>1, <2>5, <4>1 DEF Outbound
    <3>2. connections'[s][q] = connections[s][q]
      BY <1>4, <2>3, <3>1
    <3> QED
      BY <2>5, <3>2
  <2> QED
    BY <2>2, <2>4, <2>5
<1>10. ASSUME NEW q \in Pin, Owner[q] \in alive', q \in MarkedIn(Owner[q]) PROVE drive_in'[q]
  <2>1. Owner[q] \in alive /\ ~Within(Owner[q], c)
    BY <1>3, <1>10
  <2>2. drive_in[q]
    BY <1>10, <2>1, Zenon DEF WireInv, DriveFlags
  <2>3. ~Outbound(c, q)
    <3>1. ASSUME NEW t \in OutPins(c), connections[t][q] > 0 PROVE FALSE
      <4>1. t \in Source
        BY DEF OutPins, PinsOf, Source
      <4>2. q \notin MarkedIn(Owner[q])
        BY <3>1, <4>1, Wire1
      <4> QED
        BY <1>10, <4>2
    <3> QED
      BY <3>1 DEF Outbound
  <2>4. drive_in[q] /\ ~Lost(c, q) /\ ~Outbound(c, q)
    BY <1>6, <2>1, <2>2, <2>3, Zenon
  <2> QED
    BY <1>2, <2>4, Zenon
<1>11. RestTypes'
  BY PurgedTypes
<1> QED
  BY <1>8, <1>9, <1>10, <1>11, WiresAfter

\* A Clock that goes takes along its connections and the marks of what it drove.
LEMMA WiresPurgeClock ==
  ASSUME WireInv, NEW k \in Clock, PurgeClock(k)
  PROVE  /\ WireInv'
         /\ TableInv => TableInv'
         /\ \A s \in Source, q \in Pin :
              connections'[s][q] = IF s = k THEN 0 ELSE connections[s][q]
<1>1. /\ UNCHANGED <<tables, building, pending, drive_out, errors>> /\ clocks' = clocks \ {k}
      /\ connections' = [connections EXCEPT ![k] = NoTargets]
      /\ drive_in' = [p \in Pin |-> p \notin Targets(k) /\ drive_in[p]]
  BY DEF PurgeClock
<1>2. UNCHANGED <<alive, components, propagate_next_tick, queued>>
  BY <1>1 DEF tables, pending
<1>3. RestTypes
  BY DEF WireInv
<1>4. ASSUME NEW s \in Source, NEW q \in Pin
      PROVE  connections'[s][q] = IF s = k THEN 0 ELSE connections[s][q]
  BY <1>1, <1>3 DEF RestTypes, NoTargets
<1>5. RestTypes'
  <2>1. connections' \in [Source -> [Pin -> Nat]]
    <3>1. NoTargets \in [Pin -> Nat]
      BY DEF NoTargets
    <3> QED
      BY <1>1, <1>3, <3>1 DEF RestTypes
  <2>2. drive_in' \in [Pin -> BOOLEAN]
    BY <1>1, <1>3 DEF RestTypes
  <2> QED
    BY <1>1, <1>2, <1>3, <2>1, <2>2 DEF RestTypes
<1>6. ASSUME NEW s \in Source, NEW q \in Pin PROVE Leads(s, q)' <=> Leads(s, q)
  BY <1>2 DEF Leads, Inner
<1>7. ASSUME NEW s \in Source, NEW q \in Pin, connections'[s][q] > 0
      PROVE  /\ Leads(s, q)' /\ Owner[q] \in alive'
             /\ s \in Clock => s \in clocks' /\ Parent[Owner[q]] = Sim
             /\ s \in Pin => Owner[s] \in alive'
             /\ connections'[s][q] = 1 /\ q \notin MarkedIn(Owner[q])
             /\ \A t \in Source : connections'[t][q] > 0 => t = s
             /\ drive_in'[q] /\ (s \in Pin => drive_out'[s])
  <2>1. s # k /\ connections[s][q] > 0 /\ connections'[s][q] = connections[s][q]
    <3>1. s # k
      BY <1>4, <1>7
    <3> QED
      BY <1>4, <1>7, <3>1
  <2>2. /\ Leads(s, q) /\ Owner[q] \in alive
        /\ s \in Clock => s \in clocks /\ Parent[Owner[q]] = Sim
        /\ s \in Pin => Owner[s] \in alive
        /\ connections[s][q] = 1 /\ q \notin MarkedIn(Owner[q])
        /\ \A t \in Source : connections[t][q] > 0 => t = s
        /\ drive_in[q] /\ (s \in Pin => drive_out[s])
    BY <2>1, Wire1
  <2>3. /\ Leads(s, q)' /\ Owner[q] \in alive'
        /\ s \in Clock => s \in clocks' /\ Parent[Owner[q]] = Sim
        /\ s \in Pin => Owner[s] \in alive'
    BY <1>1, <1>2, <1>6, <2>1, <2>2
  <2>4. \A t \in Source : connections'[t][q] > 0 => t = s
    <3> TAKE t \in Source
    <3>1. ASSUME connections'[t][q] > 0 PROVE t = s
      <4>1. t # k
        BY <1>4, <3>1
      <4> QED
        BY <1>4, <2>2, <3>1, <4>1
    <3> QED
      BY <3>1
  <2>5. drive_in'[q] /\ (s \in Pin => drive_out'[s])
    <3>1. q \notin Targets(k)
      <4>1. k \in Source
        BY DEF Source
      <4> QED
        BY <2>1, <2>2, <4>1 DEF Targets
    <3> QED
      BY <1>1, <2>2, <3>1, Zenon
  <2> QED
    BY <2>1, <2>2, <2>3, <2>4, <2>5
<1>8. ASSUME NEW q \in Pin, drive_in'[q]
      PROVE  \/ Owner[q] \in alive' /\ q \in MarkedIn(Owner[q])
             \/ \E s \in Source : connections'[s][q] > 0
  <2>1. q \notin Targets(k) /\ drive_in[q]
    BY <1>1, <1>8, Zenon
  <2>2. \/ Owner[q] \in alive /\ q \in MarkedIn(Owner[q])
        \/ \E s \in Source : connections[s][q] > 0
    BY <2>1, Zenon DEF WireInv, DriveFlags
  <2>3. ASSUME NEW s \in Source, connections[s][q] > 0
        PROVE  connections'[s][q] > 0
    <3>1. s # k
      BY <2>1, <2>3 DEF Targets
    <3> QED
      BY <1>4, <2>3, <3>1
  <2> QED
    BY <1>2, <2>2, <2>3
<1>9. ASSUME NEW q \in Pin, Owner[q] \in alive', q \in MarkedIn(Owner[q]) PROVE drive_in'[q]
  <2>1. drive_in[q]
    BY <1>2, <1>9, Zenon DEF WireInv, DriveFlags
  <2>2. q \notin Targets(k)
    <3>1. k \in Source
      BY DEF Source
    <3> QED
      BY <1>9, <3>1, Wire1 DEF Targets
  <2> QED
    BY <1>1, <2>1, <2>2, Zenon
<1>10. WireInv'
  BY <1>5, <1>7, <1>8, <1>9, WiresAfter
<1>11. TableInv => TableInv'
  BY <1>1, TablesUntouched
<1> QED
  BY <1>4, <1>10, <1>11

\* Device::PurgeChildComponent and Simulation::PurgeGlobalComponent purge a child that is
\* in its parent's table, and no Build() but that of the parent is under way there.
LEMMA PurgeReaches ==
  ASSUME TableInv, NEW c \in Component, PurgeChild(c) \/ PurgeGlobal(c)
  PROVE  /\ c # Sim /\ c \in Range(components[Parent[c]]) /\ c \in alive /\ Purge(c)
         /\ \A j \in 2 .. Len(building) : Parent[c] # building[j - 1]
<1> USE NetlistAssumption
<1>1. TableTypes /\ Path /\ Children
  BY DEF TableInv
<1>2. c # Sim /\ Purge(c) /\ c \in Visible(Parent[c]) /\ (Parent[c] = Here \/ Here = Sim)
  BY DEF PurgeChild, PurgeGlobal
<1>3. c \in Range(components[Parent[c]]) /\ c \in alive
  <2>1. Parent[c] \in Device
    OBVIOUS
  <2> QED
    BY <1>1, <1>2, <2>1, VisibleChildren
<1>4. PICK n \in Nat \ {0} : n = Len(building)
  BY <1>1, HereIsLast
<1>5. ASSUME NEW j \in 2 .. n PROVE Parent[c] # building[j - 1]
  <2>1. n \in 1 .. n /\ j - 1 \in 1 .. n /\ j - 1 < n /\ n # 1
    BY <1>4
  <2>2. Here # Sim
    BY <1>1, <1>4, <2>1, HereIsLast
  <2>3. building[j - 1] # building[n]
    BY <1>1, <1>4, <2>1, HereIsLast
  <2> QED
    BY <1>2, <1>4, <2>2, <2>3 DEF Here
<1> QED
  BY <1>2, <1>3, <1>4, <1>5

-----------------------------------------------------------------------------
(* The theorems.                                                           *)

\* The builder starts with a Simulation that has nothing in it.
LEMMA NetInit ==
  ASSUME Init
  PROVE  NetInv
<1> USE NetlistAssumption
<1>1. TableTypes
  BY DEF Init, TableTypes, Component
<1>2. RestTypes
  <2>1. NoTargets \in [Pin -> Nat] /\ <<>> \in Seq(Nat) /\ <<>> \in Seq(Device)
    BY DEF NoTargets
  <2>2. connections \in [Source -> [Pin -> Nat]]
    BY <2>1 DEF Init
  <2>3. propagate_next_tick \in [Device -> Seq(Nat)] /\ queued \in [Device -> Seq(Device)]
    BY <2>1 DEF Init
  <2>4. drive_in \in [Pin -> BOOLEAN] /\ drive_out \in [Pin -> BOOLEAN]
    BY DEF Init
  <2> QED
    BY <2>2, <2>3, <2>4 DEF Init, RestTypes
<1>3. Path
  <2>1. building = <<Sim>> /\ Len(building) = 1 /\ building[1] = Sim /\ building # <<>>
    BY DEF Init
  <2>2. Above(building, 1) = {}
    BY DEF Above
  <2>3. ASSUME NEW j \in 1 .. Len(building)
        PROVE  building[j] \in alive /\ Ancestors[building[j]] = Above(building, j)
    <3>1. j = 1
      BY <2>1
    <3> QED
      BY <2>1, <2>2, <3>1 DEF Init
  <2>4. \A j \in 2 .. Len(building) : FALSE
    BY <2>1
  <2> QED
    BY <2>1, <2>3, <2>4 DEF Path
<1>4. ASSUME NEW d \in Device
      PROVE  components[d] = <<>> /\ Range(components[d]) = {} /\ IsInjective(components[d])
  BY DEF Init, Range, IsInjective
<1>5. Children
  BY <1>4 DEF Children
<1>6. IndexIsPosition
  <2>1. ASSUME NEW d \in Device
        PROVE  DOMAIN components[d] = {} /\ Len(components[d]) = 0 /\ flags[d] = 0
    BY DEF Init
  <2> QED
    BY <2>1 DEF IndexIsPosition
<1>7. Reserved
  <2>1. Len(building) = 1
    BY DEF Init
  <2> QED
    BY <2>1 DEF Reserved
<1>8. Deep
  <2>1. alive = {Sim} /\ Ancestors[Sim] = {}
    BY DEF Init
  <2> HIDE NetlistAssumption
  <2>2. IsFiniteSet({})
    BY FS_EmptySet
  <2> QED
    BY <2>1, <2>2 DEF Deep
<1>9. \A s \in Source : Targets(s) = {}
  BY DEF Init, Targets, NoTargets
<1>10. Wired /\ NothingDangling /\ Single
  BY <1>9 DEF Wired, NothingDangling, Single
<1>11. DriveFlags
  <2>1. ASSUME NEW q \in Pin
        PROVE  /\ ~drive_in[q] /\ ~(Owner[q] \in alive /\ q \in MarkedIn(Owner[q]))
               /\ ~\E s \in Source : connections[s][q] > 0
    <3>1. MarkedIn(Sim) = {}
      BY DEF MarkedIn, InnerTerminals
    <3>2. ~\E s \in Source : connections[s][q] > 0
      BY <1>9 DEF Targets
    <3> QED
      BY <3>1, <3>2 DEF Init
  <2>2. \A s \in Pin : Targets(s) = {}
    BY <1>9 DEF Source
  <2> QED
    BY <2>1, <2>2 DEF DriveFlags
<1> QED
  BY <1>1, <1>2, <1>3, <1>5, <1>6, <1>7, <1>8, <1>10, <1>11 DEF NetInv, TableInv, WireInv

\* Every operation of the builder keeps the invariant.
LEMMA NetStep ==
  ASSUME NetInv, [Next]_vars
  PROVE  NetInv'
<1>0. TableInv /\ WireInv
  BY DEF NetInv
<1>1. ASSUME NEW g \in Gate, AddGate(g) PROVE NetInv'
  BY <1>0, <1>1, TablesAddGate, WiresAddGate DEF NetInv
<1>2. ASSUME NEW d \in Device, BeginDevice(d) PROVE NetInv'
  BY <1>0, <1>2, TablesBeginDevice, WiresBeginDevice DEF NetInv
<1>3. ASSUME NEW outputsChanged \in BOOLEAN, EndDevice(outputsChanged) PROVE NetInv'
  BY <1>0, <1>3, TablesEndDevice, WiresEndDevice DEF NetInv
<1>4. CASE StabiliseSim
  <2>1. TableInv'
    BY <1>0, <1>4, TablesUntouched DEF StabiliseSim
  <2>2. /\ UNCHANGED <<alive, components, clocks, connections, drive_in, drive_out>>
        /\ propagate_next_tick' = [propagate_next_tick EXCEPT ![Sim] = <<>>]
        /\ queued' = [queued EXCEPT ![Sim] = <<>>] /\ errors' \in BOOLEAN
    BY <1>4 DEF StabiliseSim, tables, wiring
  <2>3. RestTypes'
    <3>1. RestTypes
      BY <1>0 DEF WireInv
    <3>2. <<>> \in Seq(Nat) /\ <<>> \in Seq(Device)
      OBVIOUS
    <3>3. propagate_next_tick' \in [Device -> Seq(Nat)] /\ queued' \in [Device -> Seq(Device)]
      BY <2>2, <3>1, <3>2 DEF RestTypes
    <3> QED
      BY <2>2, <3>1, <3>3 DEF RestTypes
  <2>4. components' = components
    BY <2>2
  <2>5. \A d \in Device : Range(components[d]) \subseteq Range(components'[d])
    BY <2>4
  <2>6. UNCHANGED <<alive, connections, drive_in>> /\ clocks \subseteq clocks' /\ drive_out' = drive_out
    BY <2>2
  <2>7. WireInv'
    BY <1>0, <2>3, <2>5, <2>6, WiresUntouched
  <2> QED
    BY <2>1, <2>7 DEF NetInv
<1>5. ASSUME NEW s \in Connectable, NEW q \in Reach(s), GateConnect(s, q) \/ DeviceConnect(s, q)
      PROVE  NetInv'
  BY <1>0, <1>5, WiresConnect, TablesUntouched DEF NetInv
<1>6. ASSUME NEW k \in clocks, NEW q \in UNION {PinsOf(c) : c \in Visible(Sim)}, ClockConnect(k, q)
      PROVE  NetInv'
  <2>1. PICK c \in Visible(Sim) : q \in PinsOf(c)
    OBVIOUS
  <2>2. WireInv' /\ UNCHANGED <<tables, building>>
    BY <1>0, <1>6, <2>1, WiresClockConnect
  <2> QED
    BY <1>0, <2>2, TablesUntouched DEF NetInv
<1>7. CASE Misnamed
  BY <1>0, <1>7, WiresRefuse, TablesUntouched DEF Misnamed, NetInv
<1>8. ASSUME NEW p \in Spare, MarkNotConnected(p) PROVE NetInv'
  <2>1. TableInv'
    BY <1>0, <1>8, TablesUntouched DEF MarkNotConnected
  <2>2. /\ UNCHANGED <<alive, components, clocks, connections, drive_in, errors>>
        /\ UNCHANGED <<propagate_next_tick, queued>>
        /\ drive_out' = [drive_out EXCEPT ![p] = TRUE]
    BY <1>8 DEF MarkNotConnected, tables, pending
  <2>3. RestTypes
    BY <1>0 DEF WireInv
  <2>4. drive_out' \in [Pin -> BOOLEAN] /\ \A s \in Pin : drive_out[s] => drive_out'[s]
    <3>1. drive_out \in [Pin -> BOOLEAN]
      BY <2>3 DEF RestTypes
    <3>2. drive_out' \in [Pin -> BOOLEAN]
      BY <2>2, <3>1
    <3> QED
      BY <2>2, <3>1, <3>2
  <2>5. RestTypes'
    BY <2>2, <2>3, <2>4 DEF RestTypes
  <2>6. components' = components
    BY <2>2
  <2>7. \A d \in Device : Range(components[d]) \subseteq Range(components'[d])
    BY <2>6
  <2>8. UNCHANGED <<alive, connections, drive_in>> /\ clocks \subseteq clocks'
    BY <2>2
  <2>9. WireInv'
    BY <1>0, <2>4, <2>5, <2>7, <2>8, WiresUntouched
  <2> QED
    BY <2>1, <2>9 DEF NetInv
<1>9. ASSUME NEW c \in Component, PurgeChild(c) \/ PurgeGlobal(c) PROVE NetInv'
  <2>1. /\ c # Sim /\ c \in Range(components[Parent[c]]) /\ Purge(c)
        /\ \A j \in 2 .. Len(building) : Parent[c] # building[j - 1]
    BY <1>0, <1>9, PurgeReaches
  <2> QED
    BY <1>0, <2>1, TablesPurge, WiresPurge DEF NetInv
<1>10. ASSUME NEW k \in Clock, AddClock(k) PROVE NetInv'
  <2>1. TableInv'
    BY <1>0, <1>10, TablesUntouched DEF AddClock
  <2>2. /\ UNCHANGED <<alive, components, connections, drive_in, drive_out, errors>>
        /\ UNCHANGED <<propagate_next_tick, queued>> /\ clocks' = clocks \cup {k}
    BY <1>10 DEF AddClock, tables, pending, wiring
  <2>3. RestTypes'
    BY <1>0, <2>2 DEF WireInv, RestTypes
  <2>4. components' = components
    BY <2>2
  <2>5. \A d \in Device : Range(components[d]) \subseteq Range(components'[d])
    BY <2>4
  <2>6. UNCHANGED <<alive, connections, drive_in>> /\ clocks \subseteq clocks' /\ drive_out' = drive_out
    BY <2>2
  <2>7. WireInv'
    BY <1>0, <2>3, <2>5, <2>6, WiresUntouched
  <2> QED
    BY <2>1, <2>7 DEF NetInv
<1>11. ASSUME NEW k \in Clock, PurgeClock(k) PROVE NetInv'
  BY <1>0, <1>11, WiresPurgeClock DEF NetInv
<1>12. CASE UNCHANGED vars
  <2>1. UNCHANGED <<tables, building>>
    BY <1>12 DEF vars
  <2>2. /\ UNCHANGED <<alive, components, clocks, connections, drive_in, drive_out, errors>>
        /\ UNCHANGED <<propagate_next_tick, queued>>
    BY <1>12 DEF vars, tables, pending, wiring
  <2>3. RestTypes'
    BY <1>0, <2>2 DEF WireInv, RestTypes
  <2>4. components' = components
    BY <2>2
  <2>5. \A d \in Device : Range(components[d]) \subseteq Range(components'[d])
    BY <2>4
  <2>6. UNCHANGED <<alive, connections, drive_in>> /\ clocks \subseteq clocks' /\ drive_out' = drive_out
    BY <2>2
  <2>7. WireInv'
    BY <1>0, <2>3, <2>5, <2>6, WiresUntouched
  <2> QED
    BY <1>0, <2>1, <2>7, TablesUntouched DEF NetInv
<1>13. CASE Next
  <2>1. CASE \/ \E g \in Gate : AddGate(g)
             \/ \E d \in Device : BeginDevice(d)
             \/ \E outputsChanged \in BOOLEAN : EndDevice(outputsChanged)
             \/ StabiliseSim
    BY <1>1, <1>2, <1>3, <1>4, <2>1
  <2>2. CASE \E s \in Connectable : \E q \in Reach(s) : GateConnect(s, q) \/ DeviceConnect(s, q)
    BY <1>5, <2>2
  <2>3. CASE \E k \in clocks : \E q \in UNION {PinsOf(c) : c \in Visible(Sim)} : ClockConnect(k, q)
    BY <1>6, <2>3, Zenon
  <2>4. CASE Misnamed \/ \E p \in Spare : MarkNotConnected(p)
    BY <1>7, <1>8, <2>4
  <2>5. CASE \/ \E c \in Component : PurgeChild(c) \/ PurgeGlobal(c)
             \/ \E k \in Clock : AddClock(k) \/ PurgeClock(k)
    BY <1>9, <1>10, <1>11, <2>5
  <2> QED
    BY <1>13, <2>1, <2>2, <2>3, <2>4, <2>5, Zenon DEF Next
<1> QED
  BY <1>12, <1>13

\* Whatever is added, connected and purged, in whichever order: the tables, the local
\* indices, the connections and the drive flags stay right together.
THEOREM NetlistInvariant == Spec => []NetInv
<1>1. Init => NetInv
  BY NetInit
<1>2. NetInv /\ [Next]_vars => NetInv'
  BY NetStep
<1> QED
  BY <1>1, <1>2, PTL DEF Spec

\* m_components, m_devices, the indices, flags, queues and connections are of their types:
\* no purge leaves a negative number of flags, and none an entry that is no Component.
THEOREM NetlistTypes == Spec => []TypeOK
<1>1. NetInv => TypeOK
  BY DEF NetInv, TableInv, WireInv, TableTypes, RestTypes, TypeOK
<1> QED
  BY <1>1, NetlistInvariant, PTL

\* No order of Connect calls and purges gets a second driver past the drive-in flag
\* (Device::ChildConnect, Gate::Connect, Device::Connect, Clock::Connect).
THEOREM AtMostOneDriver == Spec => []OneDriver
<1>1. ASSUME NetInv PROVE OneDriver
  <2>1. ASSUME NEW q \in Pin
        PROVE  LET drivers == {s \in Source : connections[s][q] > 0} IN
               Cardinality(drivers) <= 1 /\ \A s \in drivers : connections[s][q] = 1
    <3> DEFINE drivers == {s \in Source : connections[s][q] > 0}
    <3>1. WireInv
      BY <1>1 DEF NetInv
    <3>2. \A s \in drivers : connections[s][q] = 1 /\ \A t \in drivers : t = s
      BY <3>1, Wire1
    <3> HIDE DEF drivers
    <3>3. drivers = {} \/ \E s : drivers = {s}
      BY <3>2
    <3>4. Cardinality(drivers) <= 1
      <4>1. CASE drivers = {}
        <5>1. Cardinality(drivers) = 0
          BY <4>1, FS_EmptySet
        <5> QED
          BY <5>1
      <4>2. CASE \E s : drivers = {s}
        <5>1. PICK s : drivers = {s}
          BY <4>2
        <5>2. Cardinality({s}) = 1
          BY FS_Singleton
        <5> QED
          BY <5>1, <5>2
      <4> QED
        BY <3>3, <4>1, <4>2
    <3> QED
      BY <3>2, <3>4 DEF drivers
  <2> QED
    BY <2>1 DEF OneDriver
<1> QED
  BY <1>1, NetlistInvariant, PTL

\* pin.drive[0] and pin.drive[1] say what the connections say: Connect, the purges of
\* both ends and the magic engine's marks keep them apart from nothing.
THEOREM FlagsAgree == Spec => []DriveFlags
<1>1. NetInv => DriveFlags
  BY DEF NetInv, WireInv
<1> QED
  BY <1>1, NetlistInvariant, PTL

\* PurgeChildConnections asks the right ones to forget: no descriptor is left of what is
\* deleted, and none of what it owned.
THEOREM NothingDangles == Spec => []NothingDangling
<1>1. NetInv => NothingDangling
  BY DEF NetInv, WireInv
<1> QED
  BY <1>1, NetlistInvariant, PTL

\* The queues index m_components and the propagation flags by local indices: after any
\* number of purges these are positions, and the flags reach as far.
THEOREM IndicesHold == Spec => []IndexIsPosition
<1>1. NetInv => IndexIsPosition
  BY DEF NetInv, TableInv
<1> QED
  BY <1>1, NetlistInvariant, PTL

\* ReportUnConnectedPins at the end of Simulation::Stabilise(): it reads flags only, and
\* they have not lost touch with the connections.
THEOREM CheckIsSound == Spec => []BuildCheckIsSound
<1> USE NetlistAssumption
<1>1. ASSUME NetInv PROVE BuildCheckIsSound
  <2>1. TableTypes /\ Deep /\ DriveFlags
    BY <1>1 DEF NetInv, TableInv, WireInv
  <2> SUFFICES ASSUME Unconnected = {}, NEW q \in Pin, Owner[q] \in alive, Direction[q] \in {1, 2},
                      ~\E s \in Source : connections[s][q] > 0, q \notin MarkedIn(Owner[q])
               PROVE  IF Owner[q] \in Gate THEN Direction[q] = 2
                      ELSE Direction[q] = 1 /\ Nesting(Owner[q]) = 1
    BY DEF BuildCheckIsSound
  <2>2. ~drive_in[q]
    BY <2>1, Zenon DEF DriveFlags
  <2>3. PICK x \in Component : x = Owner[q]
    OBVIOUS
  <2>4. q \in PinsOf(x) /\ x \in alive
    BY <2>3 DEF PinsOf
  <2>5. CASE x \in Gate
    <3>1. Direction[q] = 1 => q \in OpenGatePins(x)
      BY <2>2, <2>4, Zenon DEF OpenGatePins, InPins
    <3>2. q \notin OpenGatePins(x)
      BY <2>4, <2>5 DEF Unconnected
    <3> QED
      BY <2>3, <2>5, <3>1, <3>2
  <2>6. CASE x \notin Gate
    <3>1. x \in Device /\ q \notin OpenDevicePins(x)
      BY <2>4, <2>6 DEF Unconnected, Component
    <3>2. Direction[q] # 2
      <4>1. Direction[q] = 2 => q \in OpenDevicePins(x)
        BY <2>2, <2>4, Zenon DEF OpenDevicePins, OutPins
      <4> QED
        BY <3>1, <4>1
    <3>3. ~(Nesting(x) > 1)
      <4>1. Direction[q] = 1
        BY <3>2
      <4>2. q \in InPins(x)
        BY <2>4, <4>1 DEF InPins
      <4>3. Nesting(x) > 1 => q \in OpenDevicePins(x)
        BY <2>2, <4>2, Zenon DEF OpenDevicePins
      <4> QED
        BY <3>1, <4>3
    <3>4. Nesting(x) \in Nat /\ Nesting(x) # 0
      <4>1. x # Sim
        <5>1. q \in PinsOf(Sim) => Direction[q] \in {3, 4}
          OBVIOUS
        <5> QED
          BY <2>4, <5>1
      <4>2. Ancestors[x] # {}
        BY <4>1
      <4>3. IsFiniteSet(Ancestors[x])
        BY <2>1, <2>4 DEF Deep
      <4> HIDE NetlistAssumption
      <4> QED
        BY <4>2, <4>3, FS_EmptySet, FS_CardinalityType DEF Nesting
    <3>5. Nesting(x) = 1
      <4>1. PICK n \in Nat : n = Nesting(x)
        BY <3>4
      <4> QED
        BY <3>3, <3>4, <4>1
    <3> QED
      BY <2>3, <2>6, <3>2, <3>5
  <2> QED
    BY <2>3, <2>5, <2>6
<1> QED
  BY <1>1, NetlistInvariant, PTL

-----------------------------------------------------------------------------
(* The builder implements Wiring.                                          *)

\* The wires are the connections, before and after a step.
LEMMA WireMember ==
  /\ \A w : w \in Wires <=> \E s \in Source, q \in Pin : w = <<s, q>> /\ connections[s][q] > 0
  /\ \A w : w \in Wires' <=> \E s \in Source, q \in Pin : w = <<s, q>> /\ connections'[s][q] > 0
<1>1. \A w : w \in Wires <=> \E s \in Source, q \in Pin : w = <<s, q>> /\ connections[s][q] > 0
  BY DEF Wires, Targets
<1>2. \A w : w \in Wires' <=> \E s \in Source, q \in Pin : w = <<s, q>> /\ connections'[s][q] > 0
  BY DEF Wires, Targets
<1> QED
  BY <1>1, <1>2

\* Where no connection comes or goes, none does in Wiring.
LEMMA SameWires ==
  ASSUME \A s \in Source, q \in Pin : connections'[s][q] > 0 <=> connections[s][q] > 0
  PROVE  Wires' = Wires
BY WireMember

\* A step of the builder that Wiring does not see.
LEMMA NotSeen ==
  ASSUME UNCHANGED <<alive, clocks, connections, errors>>
  PROVE  UNCHANGED W!vars
<1>1. Wires' = Wires
  BY SameWires
<1> QED
  BY <1>1 DEF W!vars

\* What is within a Component is what Wiring removes with it; a Clock has nothing below.
LEMMA BelowIs ==
  /\ \A c \in Component, y \in Component : y \in W!Below(c) <=> Within(y, c)
  /\ \A k \in Clock : W!Below(k) = {k}
  /\ \A c \in Component, k \in Clock : k \notin W!Below(c)
<1> USE NetlistAssumption
<1>1. \A c \in Component, y \in Component : y \in W!Below(c) <=> Within(y, c)
  BY DEF W!Below, Within
<1>2. \A k \in Clock : W!Below(k) = {k}
  <2>1. ASSUME NEW k \in Clock, NEW y \in Component PROVE k \notin Ancestors[y]
    BY DEF Component
  <2> QED
    BY <2>1 DEF W!Below
<1>3. \A c \in Component, k \in Clock : k \notin W!Below(c)
  BY DEF W!Below
<1> QED
  BY <1>1, <1>2, <1>3

\* Something new, without a connection.
LEMMA AddIsAdd ==
  ASSUME NetInv, NEW c \in Component, Construct(c), clocks' = clocks,
         errors' = errors \/ errors' = TRUE,
         \A s \in Source, q \in Pin : connections'[s][q] = connections[s][q]
  PROVE  W!Next
<1>1. c \notin alive /\ alive' = alive \cup {c}
  BY DEF Construct
<1>2. c \notin clocks
  BY NetlistAssumption DEF NetInv, WireInv, RestTypes
<1>3. Wires' = Wires
  BY SameWires
<1>4. W!Add(c)
  BY <1>1, <1>2, <1>3 DEF W!Add
<1> QED
  BY <1>4 DEF W!Next

\* A new connection between what exists.
LEMMA ConnectIsConnect ==
  ASSUME NetInv, NEW s \in Source, NEW q \in Pin, UNCHANGED <<alive, clocks, errors>>,
         s \in Clock => s \in clocks, s \notin Clock => Owner[s] \in alive, Owner[q] \in alive,
         ~drive_in[q],
         \A t \in Source, r \in Pin :
           connections'[t][r] > 0 <=> connections[t][r] > 0 \/ (t = s /\ r = q)
  PROVE  W!Next
<1>1. W!PartOf(s) \in alive \cup clocks /\ Owner[q] \in alive \cup clocks
  BY DEF W!PartOf
<1>2. \A t \in Source : ~(connections[t][q] > 0)
  BY Wire1 DEF NetInv
<1>3. \A w \in Wires : w[2] # q
  BY <1>2, WireMember
<1>4. Wires' = Wires \cup {<<s, q>>}
  BY WireMember
<1>5. W!Connect(s, q)
  BY <1>1, <1>3, <1>4 DEF W!Connect
<1>6. s \in Pin \cup Clock
  BY DEF Source
<1> QED
  BY <1>5, <1>6 DEF W!Next

\* A refusal is one.
LEMMA RefuseIsRefuse ==
  ASSUME UNCHANGED <<alive, clocks, connections>>, errors' = TRUE
  PROVE  W!Next
<1>1. Wires' = Wires
  BY SameWires
<1> QED
  BY <1>1 DEF W!Next, W!Refuse

\* PurgeComponent takes away what is within c with the wires that end there, and no other.
LEMMA PurgeIsRemove ==
  ASSUME NetInv, NEW c \in Component, c # Sim, c \in alive, Purge(c)
  PROVE  W!Next
<1> USE NetlistAssumption
<1>1. /\ alive' = {x \in alive : ~Within(x, c)} /\ clocks' = clocks /\ errors' = errors
      /\ PurgeConnections(c)
  BY DEF Purge, PurgeIdentifiers
<1>2. alive \subseteq Component /\ clocks \subseteq Clock
  BY DEF NetInv, TableInv, TableTypes, WireInv, RestTypes
<1>3. /\ \A y \in Component : y \in W!Below(c) <=> Within(y, c)
      /\ \A k \in Clock : k \notin W!Below(c)
  BY BelowIs
<1>4. alive' \cup clocks' = (alive \cup clocks) \ W!Below(c)
  BY <1>1, <1>2, <1>3
<1>5. \A s \in Source, q \in Pin :
        connections'[s][q] =
          IF Lost(c, s) \/ Within(Owner[q], c) THEN 0 ELSE connections[s][q]
  BY <1>1, PurgedWires DEF NetInv
<1>6. ASSUME NEW s \in Source, NEW q \in Pin
      PROVE  connections'[s][q] > 0 <=>
               connections[s][q] > 0 /\ W!PartOf(s) \notin W!Below(c) /\ Owner[q] \notin W!Below(c)
  <2>1. Owner[q] \in W!Below(c) <=> Within(Owner[q], c)
    BY <1>3
  <2>2. W!PartOf(s) \in W!Below(c) <=> Lost(c, s)
    <3>1. CASE s \in Clock
      <4>1. s \notin Pin
        BY <3>1
      <4> QED
        BY <1>3, <3>1, <4>1 DEF W!PartOf, Lost
    <3>2. CASE s \notin Clock
      <4>1. s \in Pin /\ Owner[s] \in Component
        BY <3>2 DEF Source
      <4> QED
        BY <1>3, <3>2, <4>1 DEF W!PartOf, Lost
    <3> QED
      BY <3>1, <3>2
  <2>3. CASE Lost(c, s) \/ Within(Owner[q], c)
    <3>1. connections'[s][q] = 0
      BY <1>5, <2>3
    <3> QED
      BY <2>1, <2>2, <2>3, <3>1
  <2>4. CASE ~(Lost(c, s) \/ Within(Owner[q], c))
    <3>1. connections'[s][q] = connections[s][q]
      BY <1>5, <2>4
    <3> QED
      BY <2>1, <2>2, <2>4, <3>1
  <2> QED
    BY <2>3, <2>4
<1> HIDE NetlistAssumption
<1>7. Wires' = {w \in Wires : W!PartOf(w[1]) \notin W!Below(c) /\ Owner[w[2]] \notin W!Below(c)}
  <2>1. ASSUME NEW w \in Wires'
        PROVE  w \in Wires /\ W!PartOf(w[1]) \notin W!Below(c) /\ Owner[w[2]] \notin W!Below(c)
    <3>1. PICK s \in Source, q \in Pin : w = <<s, q>> /\ connections'[s][q] > 0
      BY <2>1, WireMember
    <3>2. connections[s][q] > 0 /\ W!PartOf(s) \notin W!Below(c) /\ Owner[q] \notin W!Below(c)
      BY <1>6, <3>1
    <3>3. w \in Wires
      BY <3>1, <3>2, WireMember
    <3> QED
      BY <3>1, <3>2, <3>3
  <2>2. ASSUME NEW w \in Wires, W!PartOf(w[1]) \notin W!Below(c), Owner[w[2]] \notin W!Below(c)
        PROVE  w \in Wires'
    <3>1. PICK s \in Source, q \in Pin : w = <<s, q>> /\ connections[s][q] > 0
      BY <2>2, WireMember
    <3>2. connections'[s][q] > 0
      BY <1>6, <2>2, <3>1
    <3> QED
      BY <3>1, <3>2, WireMember
  <2> QED
    BY <2>1, <2>2
<1>8. W!Remove(c)
  BY <1>1, <1>4, <1>7 DEF W!Remove
<1> QED
  BY <1>8 DEF W!Next

\* A Clock that goes takes its wires along.
LEMMA ClockIsRemove ==
  ASSUME NetInv, NEW k \in Clock, PurgeClock(k)
  PROVE  W!Next
<1>1. /\ alive' = alive /\ clocks' = clocks \ {k} /\ k \in clocks /\ errors' = errors
  BY DEF PurgeClock, tables
<1>2. alive \subseteq Component /\ k \notin alive /\ k \in Source
  BY NetlistAssumption DEF NetInv, TableInv, TableTypes, Source
<1>3. \A s \in Source, q \in Pin : connections'[s][q] = IF s = k THEN 0 ELSE connections[s][q]
  BY WiresPurgeClock DEF NetInv
<1>4. W!Below(k) = {k}
  BY BelowIs
<1>5. ASSUME NEW s \in Source, NEW q \in Pin
      PROVE  /\ W!PartOf(s) \notin W!Below(k) <=> s # k
             /\ Owner[q] \notin W!Below(k)
  <2>1. Owner[q] \in Component /\ (s \notin Clock => Owner[s] \in Component) /\ k \notin Component
    BY NetlistAssumption DEF Source
  <2> QED
    BY <1>4, <2>1 DEF W!PartOf
<1>6. Wires' = {w \in Wires : W!PartOf(w[1]) \notin W!Below(k) /\ Owner[w[2]] \notin W!Below(k)}
  <2>1. ASSUME NEW w \in Wires'
        PROVE  w \in Wires /\ W!PartOf(w[1]) \notin W!Below(k) /\ Owner[w[2]] \notin W!Below(k)
    <3>1. PICK s \in Source, q \in Pin : w = <<s, q>> /\ connections'[s][q] > 0
      BY <2>1, WireMember
    <3>2. s # k /\ connections[s][q] > 0
      <4>1. s # k
        BY <1>3, <3>1
      <4> QED
        BY <1>3, <3>1, <4>1
    <3>3. w \in Wires
      BY <3>1, <3>2, WireMember
    <3> QED
      BY <1>5, <3>1, <3>2, <3>3
  <2>2. ASSUME NEW w \in Wires, W!PartOf(w[1]) \notin W!Below(k), Owner[w[2]] \notin W!Below(k)
        PROVE  w \in Wires'
    <3>1. PICK s \in Source, q \in Pin : w = <<s, q>> /\ connections[s][q] > 0
      BY <2>2, WireMember
    <3>2. connections'[s][q] > 0
      <4>1. s # k
        BY <1>5, <2>2, <3>1
      <4> QED
        BY <1>3, <3>1, <4>1
    <3> QED
      BY <3>1, <3>2, WireMember
  <2> QED
    BY <2>1, <2>2
<1>7. W!Remove(k)
  BY <1>1, <1>2, <1>4, <1>6 DEF W!Remove
<1> QED
  BY <1>7 DEF W!Next

\* Every operation of the builder is one of Wiring, or one that Wiring does not see.
LEMMA WiringStep ==
  ASSUME NetInv, [Next]_vars
  PROVE  [W!Next]_(W!vars)
<1>0. TableInv /\ WireInv /\ errors \in BOOLEAN
  BY DEF NetInv, WireInv, RestTypes
<1>1. ASSUME NEW g \in Gate, AddGate(g) PROVE W!Next
  <2>1. Construct(g) /\ g \in Component /\ clocks' = clocks
    BY <1>1 DEF AddGate, Component
  <2>2. errors' = errors \/ errors' = TRUE
    <3>1. errors' \in BOOLEAN /\ (errors => errors')
      BY <1>1 DEF AddGate
    <3> QED
      BY <1>0, <3>1
  <2>3. \A s \in Source, q \in Pin : connections'[s][q] = connections[s][q]
    BY <1>0, <1>1, WiresAddGate
  <2> QED
    BY <2>1, <2>2, <2>3, AddIsAdd
<1>2. ASSUME NEW d \in Device, BeginDevice(d) PROVE W!Next
  <2>1. Construct(d) /\ d \in Component /\ clocks' = clocks /\ errors' = errors
    BY <1>2 DEF BeginDevice, Component
  <2>2. \A s \in Source, q \in Pin : connections'[s][q] = connections[s][q]
    BY <1>0, <1>2, WiresBeginDevice
  <2> QED
    BY <2>1, <2>2, AddIsAdd
<1>3. ASSUME NEW outputsChanged \in BOOLEAN, EndDevice(outputsChanged) PROVE UNCHANGED W!vars
  <2>1. UNCHANGED <<alive, clocks, connections, errors>>
    BY <1>3 DEF EndDevice, wiring
  <2> QED
    BY <2>1, NotSeen
<1>4. CASE StabiliseSim
  <2>1. UNCHANGED <<alive, clocks, connections>> /\ errors' \in BOOLEAN /\ (errors => errors')
    BY <1>4 DEF StabiliseSim, tables, wiring
  <2>2. CASE errors' = errors
    BY <2>1, <2>2, NotSeen
  <2>3. CASE errors' = TRUE
    BY <2>1, <2>3, RefuseIsRefuse
  <2> QED
    BY <1>0, <2>1, <2>2, <2>3
<1>5. ASSUME NEW s \in Connectable, NEW q \in Reach(s), GateConnect(s, q) \/ DeviceConnect(s, q)
      PROVE  W!Next
  <2>1. UNCHANGED <<alive, clocks>>
    BY <1>0, <1>5, WiresConnect DEF tables
  <2>2. CASE errors' = TRUE /\ connections' = connections
    BY <2>1, <2>2, RefuseIsRefuse
  <2>3. CASE /\ errors' = errors /\ s \in Pin /\ q \in Pin
             /\ Owner[s] \in alive /\ Owner[q] \in alive /\ ~drive_in[q]
             /\ \A t \in Source, r \in Pin :
                  connections'[t][r] > 0 <=> connections[t][r] > 0 \/ (t = s /\ r = q)
    <3>1. s \in Source /\ s \notin Clock
      BY <2>3, NetlistAssumption DEF Source
    <3> QED
      BY <2>1, <2>3, <3>1, ConnectIsConnect
  <2>4. \/ /\ errors' = errors /\ s \in Pin /\ q \in Pin
           /\ Owner[s] \in alive /\ Owner[q] \in alive /\ ~drive_in[q]
           /\ \A t \in Source, r \in Pin :
                connections'[t][r] > 0 <=> connections[t][r] > 0 \/ (t = s /\ r = q)
        \/ errors' = TRUE /\ connections' = connections
    BY <1>0, <1>5, WiresConnect
  <2> QED
    BY <2>2, <2>3, <2>4, Zenon
<1>6. ASSUME NEW k \in clocks, NEW q \in UNION {PinsOf(c) : c \in Visible(Sim)}, ClockConnect(k, q)
      PROVE  W!Next
  <2>0. PICK c \in Visible(Sim) : q \in PinsOf(c)
    OBVIOUS
  <2>1. UNCHANGED <<alive, clocks>>
    BY <1>0, <1>6, <2>0, WiresClockConnect DEF tables
  <2>2. CASE errors' = TRUE /\ connections' = connections
    BY <2>1, <2>2, RefuseIsRefuse
  <2>3. CASE /\ errors' = errors /\ k \in Clock /\ q \in Pin /\ Owner[q] \in alive /\ ~drive_in[q]
             /\ \A t \in Source, r \in Pin :
                  connections'[t][r] > 0 <=> connections[t][r] > 0 \/ (t = k /\ r = q)
    <3>1. k \in Source
      BY <2>3 DEF Source
    <3> QED
      BY <2>1, <2>3, <3>1, ConnectIsConnect
  <2>4. \/ /\ errors' = errors /\ k \in Clock /\ q \in Pin /\ Owner[q] \in alive /\ ~drive_in[q]
           /\ \A t \in Source, r \in Pin :
                connections'[t][r] > 0 <=> connections[t][r] > 0 \/ (t = k /\ r = q)
        \/ errors' = TRUE /\ connections' = connections
    BY <1>0, <1>6, <2>0, WiresClockConnect
  <2> QED
    BY <2>2, <2>3, <2>4, Zenon
<1>7. CASE Misnamed
  BY <1>7, RefuseIsRefuse DEF Misnamed, Refuse, tables, wiring
<1>8. ASSUME NEW p \in Spare, MarkNotConnected(p) PROVE UNCHANGED W!vars
  <2>1. UNCHANGED <<alive, clocks, connections, errors>>
    BY <1>8 DEF MarkNotConnected, tables
  <2> QED
    BY <2>1, NotSeen
<1>9. ASSUME NEW c \in Component, PurgeChild(c) \/ PurgeGlobal(c) PROVE W!Next
  BY <1>0, <1>9, PurgeReaches, PurgeIsRemove
<1>10. ASSUME NEW k \in Clock, AddClock(k) PROVE W!Next
  <2>1. UNCHANGED <<alive, connections, errors>> /\ k \notin clocks /\ clocks' = clocks \cup {k}
    BY <1>10 DEF AddClock, tables, wiring
  <2>2. k \notin alive
    BY <1>0, NetlistAssumption DEF TableInv, TableTypes
  <2>3. Wires' = Wires
    BY <2>1, SameWires
  <2>4. W!Add(k)
    BY <2>1, <2>2, <2>3 DEF W!Add
  <2> QED
    BY <2>4 DEF W!Next
<1>11. ASSUME NEW k \in Clock, PurgeClock(k) PROVE W!Next
  BY <1>11, ClockIsRemove
<1>12. CASE UNCHANGED vars
  <2>1. UNCHANGED <<alive, clocks, connections, errors>>
    BY <1>12 DEF vars, tables, wiring
  <2> QED
    BY <2>1, NotSeen
<1>13. CASE Next
  <2>1. CASE \/ \E g \in Gate : AddGate(g)
             \/ \E d \in Device : BeginDevice(d)
             \/ \E outputsChanged \in BOOLEAN : EndDevice(outputsChanged)
             \/ StabiliseSim
    BY <1>1, <1>2, <1>3, <1>4, <2>1
  <2>2. CASE \E s \in Connectable : \E q \in Reach(s) : GateConnect(s, q) \/ DeviceConnect(s, q)
    BY <1>5, <2>2
  <2>3. CASE \E k \in clocks : \E q \in UNION {PinsOf(c) : c \in Visible(Sim)} : ClockConnect(k, q)
    BY <1>6, <2>3, Zenon
  <2>4. CASE Misnamed \/ \E p \in Spare : MarkNotConnected(p)
    BY <1>7, <1>8, <2>4
  <2>5. CASE \/ \E c \in Component : PurgeChild(c) \/ PurgeGlobal(c)
             \/ \E k \in Clock : AddClock(k) \/ PurgeClock(k)
    BY <1>9, <1>10, <1>11, <2>5
  <2> QED
    BY <1>13, <2>1, <2>2, <2>3, <2>4, <2>5, Zenon DEF Next
<1> QED
  BY <1>12, <1>13

\* Tables, indices and flags and all: what a program that adds, connects and purges gets
\* is a set of parts with at most one wire into a pin, and what it removes takes along
\* what is below it, every wire that ends there, and nothing else.
THEOREM NetlistImplementsWiring == Spec => ImplementsWiring
<1>1. Init => W!Init
  <2> SUFFICES ASSUME Init PROVE W!Init
    OBVIOUS
  <2>1. \A w : w \notin Wires
    BY WireMember DEF Init, NoTargets
  <2>2. Wires = {}
    BY <2>1
  <2> QED
    BY <2>2 DEF Init, W!Init
<1>2. NetInv /\ [Next]_vars => [W!Next]_(W!vars)
  BY WiringStep
<1> QED
  BY <1>1, <1>2, NetlistInvariant, PTL DEF Spec, ImplementsWiring, W!Spec

=============================================================================
