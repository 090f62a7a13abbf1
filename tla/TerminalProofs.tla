--------------------------- MODULE TerminalProofs ---------------------------
(***************************************************************************)
(* That the Terminal loses, doubles and reorders no character, that its    *)
(* pin data_waiting tells the truth whatever its flag starts as, and that  *)
(* its writes find room, for any set of characters, any capacity of the    *)
(* pipes, any number of keys and any start of the two processes.           *)
(***************************************************************************)
EXTENDS Terminal, SequenceTheorems, TLAPS

-----------------------------------------------------------------------------
(* The buffer, kept with its newest character first.                       *)

\* Turning a sequence of characters round.
LEMMA ReverseElements ==
  ASSUME NEW S, NEW s \in Seq(S)
  PROVE  /\ Reverse(s) \in Seq(S) /\ Len(Reverse(s)) = Len(s)
         /\ \A i \in 1 .. Len(s) : Reverse(s)[i] = s[Len(s) - i + 1]
<1>1. Len(s) \in Nat /\ s \in [1 .. Len(s) -> S]
  BY LenProperties
<1>2. \A i \in 1 .. Len(s) : Len(s) - i + 1 \in 1 .. Len(s)
  BY <1>1
<1>3. Reverse(s) \in [1 .. Len(s) -> S]
  BY <1>1, <1>2 DEF Reverse
<1>4. Reverse(s) \in Seq(S) /\ Len(Reverse(s)) = Len(s)
  <2>1. Reverse(s) \in Seq(S)
    BY <1>1, <1>3, SeqDef
  <2>2. DOMAIN Reverse(s) = 1 .. Len(s)
    BY <1>3
  <2> QED
    BY <1>1, <2>1, <2>2, LenProperties
<1> QED
  BY <1>1, <1>4 DEF Reverse

\* What the pipe is emptied into comes out of it in the order in which it came.
LEMMA ReverseTwice ==
  ASSUME NEW S, NEW s \in Seq(S)
  PROVE  Reverse(Reverse(s)) = s
<1> DEFINE r == Reverse(s)
<1>1. /\ r \in Seq(S) /\ Len(r) = Len(s) /\ Len(s) \in Nat
      /\ \A i \in 1 .. Len(s) : r[i] = s[Len(s) - i + 1]
  BY ReverseElements, LenProperties
<1> HIDE DEF r
<1>2. /\ Reverse(r) \in Seq(S) /\ Len(Reverse(r)) = Len(s)
      /\ \A i \in 1 .. Len(s) : Reverse(r)[i] = r[Len(s) - i + 1]
  BY <1>1, ReverseElements
<1>3. ASSUME NEW i \in 1 .. Len(s) PROVE Reverse(r)[i] = s[i]
  <2>1. Len(s) - i + 1 \in 1 .. Len(s) /\ Len(s) - (Len(s) - i + 1) + 1 = i
    BY <1>1
  <2> QED
    BY <2>1, <1>1, <1>2
<1>4. Reverse(r) = s
  BY <1>1, <1>2, <1>3, SeqEqual
<1> QED
  BY <1>4 DEF r

\* New characters go in front of the buffer, and come after it when it is read.
LEMMA ReverseConcat ==
  ASSUME NEW S, NEW s \in Seq(S), NEW t \in Seq(S)
  PROVE  Reverse(s \o t) = Reverse(t) \o Reverse(s)
<1> DEFINE u == s \o t
           v == Reverse(t) \o Reverse(s)
<1>1. /\ u \in Seq(S) /\ Len(u) = Len(s) + Len(t) /\ Len(s) \in Nat /\ Len(t) \in Nat
      /\ \A i \in 1 .. Len(s) + Len(t) :
           u[i] = IF i <= Len(s) THEN s[i] ELSE t[i - Len(s)]
  BY ConcatProperties, LenProperties
<1>2. /\ Reverse(s) \in Seq(S) /\ Len(Reverse(s)) = Len(s)
      /\ \A i \in 1 .. Len(s) : Reverse(s)[i] = s[Len(s) - i + 1]
  BY ReverseElements
<1>3. /\ Reverse(t) \in Seq(S) /\ Len(Reverse(t)) = Len(t)
      /\ \A i \in 1 .. Len(t) : Reverse(t)[i] = t[Len(t) - i + 1]
  BY ReverseElements
<1>4. /\ v \in Seq(S) /\ Len(v) = Len(t) + Len(s)
      /\ \A i \in 1 .. Len(t) + Len(s) :
           v[i] = IF i <= Len(t) THEN Reverse(t)[i] ELSE Reverse(s)[i - Len(t)]
  <2>1. ASSUME NEW a \in Seq(S), NEW b \in Seq(S), Len(a) = Len(t), Len(b) = Len(s)
        PROVE  /\ a \o b \in Seq(S) /\ Len(a \o b) = Len(t) + Len(s)
               /\ \A i \in 1 .. Len(t) + Len(s) :
                    (a \o b)[i] = IF i <= Len(t) THEN a[i] ELSE b[i - Len(t)]
    <3>1. /\ a \o b \in Seq(S) /\ Len(a \o b) = Len(a) + Len(b)
          /\ \A i \in 1 .. Len(a) + Len(b) :
               (a \o b)[i] = IF i <= Len(a) THEN a[i] ELSE b[i - Len(a)]
      BY ConcatProperties
    <3> QED
      BY <2>1, <3>1, Zenon
  <2> QED
    BY <1>2, <1>3, <2>1
<1> HIDE DEF u, v
<1>5. /\ Reverse(u) \in Seq(S) /\ Len(Reverse(u)) = Len(u)
      /\ \A i \in 1 .. Len(u) : Reverse(u)[i] = u[Len(u) - i + 1]
  BY <1>1, ReverseElements
<1>6. ASSUME NEW i \in 1 .. Len(u) PROVE Reverse(u)[i] = v[i]
  <2>1. Len(u) - i + 1 \in 1 .. Len(s) + Len(t) /\ i \in 1 .. Len(t) + Len(s)
    BY <1>1
  <2>2. CASE i <= Len(t)
    <3>1. /\ ~(Len(u) - i + 1 <= Len(s)) /\ i \in 1 .. Len(t)
          /\ Len(u) - i + 1 - Len(s) = Len(t) - i + 1
      BY <1>1, <2>2
    <3>2. Reverse(u)[i] = u[Len(u) - i + 1]
      BY <1>5
    <3>3. u[Len(u) - i + 1] = t[Len(u) - i + 1 - Len(s)]
      BY <1>1, <2>1, <3>1
    <3>4. v[i] = t[Len(t) - i + 1]
      BY <1>3, <1>4, <2>1, <2>2, <3>1
    <3> QED
      BY <3>1, <3>2, <3>3, <3>4
  <2>3. CASE ~(i <= Len(t))
    <3>1. /\ Len(u) - i + 1 <= Len(s) /\ i - Len(t) \in 1 .. Len(s)
          /\ Len(s) - (i - Len(t)) + 1 = Len(u) - i + 1
      BY <1>1, <2>3
    <3>2. Reverse(u)[i] = s[Len(u) - i + 1]
      BY <1>1, <1>5, <2>1, <3>1
    <3>3. v[i] = Reverse(s)[i - Len(t)]
      BY <1>4, <2>1, <2>3
    <3> QED
      BY <1>2, <3>1, <3>2, <3>3
  <2> QED
    BY <2>2, <2>3
<1>7. Len(Reverse(u)) = Len(v)
  BY <1>1, <1>4, <1>5
<1>8. Reverse(u) = v
  BY <1>4, <1>5, <1>6, <1>7, SeqEqual
<1> QED
  BY <1>8 DEF u, v

\* The character at the back of the buffer is the first to be read.
LEMMA ReverseLast ==
  ASSUME NEW S, NEW s \in Seq(S), s # <<>>
  PROVE  /\ Last(s) \in S /\ Front(s) \in Seq(S) /\ Len(Front(s)) = Len(s) - 1
         /\ Reverse(s) = <<Last(s)>> \o Reverse(Front(s))
<1>1. Len(s) \in Nat \ {0}
  BY EmptySeq
<1>2. Last(s) \in S
  BY <1>1, ElementOfSeq DEF Last
<1>3. SubSeq(s, 1, Len(s)) = SubSeq(s, 1, Len(s) - 1) \o <<s[Len(s)]>>
  BY <1>1, SubSeqRecursiveSecond
<1>4. s = Front(s) \o <<Last(s)>>
  BY <1>3, SubSeqFull DEF Front, Last
<1>5. Front(s) \in Seq(S) /\ Len(Front(s)) = Len(s) - 1
  <2>1. \A i \in 1 .. Len(s) - 1 : s[i] \in S
    BY <1>1, ElementOfSeq
  <2>2. 1 \in Int /\ Len(s) - 1 \in Int
    BY <1>1
  <2>3. /\ SubSeq(s, 1, Len(s) - 1) \in Seq(S)
        /\ Len(SubSeq(s, 1, Len(s) - 1))
             = IF 1 <= Len(s) - 1 THEN Len(s) - 1 - 1 + 1 ELSE 0
    BY <2>1, <2>2, SubSeqProperties
  <2>4. (IF 1 <= Len(s) - 1 THEN Len(s) - 1 - 1 + 1 ELSE 0) = Len(s) - 1
    <3>1. ASSUME NEW n \in Nat \ {0} PROVE (IF 1 <= n - 1 THEN n - 1 - 1 + 1 ELSE 0) = n - 1
      OBVIOUS
    <3> QED
      BY <1>1, <3>1
  <2> QED
    BY <2>3, <2>4 DEF Front
<1>6. <<Last(s)>> \in Seq(S) /\ Reverse(<<Last(s)>>) = <<Last(s)>>
  <2>1. <<Last(s)>> \in Seq(S) /\ Len(<<Last(s)>>) = 1 /\ <<Last(s)>>[1] = Last(s)
    BY <1>2
  <2>2. /\ Reverse(<<Last(s)>>) \in Seq(S) /\ Len(Reverse(<<Last(s)>>)) = 1
        /\ \A i \in 1 .. 1 : Reverse(<<Last(s)>>)[i] = <<Last(s)>>[1 - i + 1]
    BY <2>1, ReverseElements
  <2>3. \A i \in 1 .. 1 : Reverse(<<Last(s)>>)[i] = <<Last(s)>>[i]
    BY <2>2
  <2> QED
    BY <2>1, <2>2, <2>3, SeqEqual
<1>7. Reverse(s) = Reverse(<<Last(s)>>) \o Reverse(Front(s))
  BY <1>4, <1>5, <1>6, ReverseConcat
<1> QED
  BY <1>2, <1>5, <1>6, <1>7

\* What waits, and what came with it, is not nothing.
LEMMA ReverseEmpty ==
  ASSUME NEW S, NEW s \in Seq(S), NEW t \in Seq(S)
  PROVE  /\ Reverse(s) \o t \in Seq(S)
         /\ Reverse(s) \o t = <<>> <=> s = <<>> /\ t = <<>>
<1>1. /\ Reverse(s) \in Seq(S) /\ Len(Reverse(s)) = Len(s)
  BY ReverseElements
<1>2. Reverse(s) = <<>> <=> s = <<>>
  BY <1>1, EmptySeq
<1> QED
  BY <1>1, <1>2, ConcatEqualIffEmpty, ConcatProperties

-----------------------------------------------------------------------------
(* The types, and which pipes are empty when.                              *)

\* The pipes of the keys and of the text hold characters, and none holds too much.
Contents(p) ==
  /\ p \in [1 .. 3 -> Seq(Char \cup {"end"})]
  /\ p[1] \in Seq(Char) /\ p[2] \in Seq(Char)
  /\ \A i \in 1 .. 3 : Len(p[i]) <= PipeSize

\* Nothing is written before the welcome, and the command only at the end.
Stages ==
  /\ master = "fork" => client = "none"
  /\ master \in {"fork", "mkfifo"} => made < 3
  /\ client \in {"none", "open"} <=> tried < 3
  /\ master \in {"fork", "mkfifo", "open"} => pipe[2] = <<>>
  /\ master \notin {"ending", "closed"} => pipe[3] = <<>>

\* The simulator opens a pipe for writing when the client has it open for reading, and
\* gets through its constructor with both.
Connected ==
  /\ master_open > 1 => 2 \in client_open
  /\ master_open > 2 => 3 \in client_open
  /\ master \notin {"fork", "mkfifo", "open"} => master_open = 3

TermInv == TypeOK /\ Contents(pipe) /\ Stages /\ Connected

\* What the two processes do to a pipe.
Added(p, k, c) == [p EXCEPT ![k] = Append(@, c)]
Shifted(p, k) == [p EXCEPT ![k] = Tail(@)]
Emptied(p, k) == [p EXCEPT ![k] = <<>>]

\* A write to a pipe, or a read of one.
LEMMA PipePut ==
  ASSUME NEW p, Contents(p), NEW k \in 1 .. 3, NEW q \in Seq(Char \cup {"end"}),
         k \in {1, 2} => q \in Seq(Char), Len(q) <= PipeSize
  PROVE  /\ Contents([p EXCEPT ![k] = q])
         /\ [p EXCEPT ![k] = q][k] = q
         /\ \A i \in 1 .. 3 : i # k => [p EXCEPT ![k] = q][i] = p[i]
<1> DEFINE r == [p EXCEPT ![k] = q]
<1>1. r \in [1 .. 3 -> Seq(Char \cup {"end"})]
  BY DEF Contents
<1>2. r[k] = q /\ \A i \in 1 .. 3 : i # k => r[i] = p[i]
  BY DEF Contents
<1> HIDE DEF r
<1>3. Contents(r)
  BY <1>1, <1>2 DEF Contents
<1> QED
  BY <1>2, <1>3 DEF r

\* A character, or the command, is added to a pipe that has room.
LEMMA PipeAppend ==
  ASSUME NEW p, Contents(p), NEW k \in 1 .. 3, NEW c \in Char \cup {"end"},
         k \in {1, 2} => c \in Char, Len(p[k]) < PipeSize
  PROVE  /\ Contents(Added(p, k, c))
         /\ Added(p, k, c)[k] = Append(p[k], c)
         /\ \A i \in 1 .. 3 : i # k => Added(p, k, c)[i] = p[i]
<1>1. p[k] \in Seq(Char \cup {"end"}) /\ (k \in {1, 2} => p[k] \in Seq(Char))
  BY DEF Contents
<1>2. /\ Append(p[k], c) \in Seq(Char \cup {"end"})
      /\ Len(Append(p[k], c)) = Len(p[k]) + 1 /\ Len(p[k]) \in Nat
  BY <1>1, LenProperties
<1>3. k \in {1, 2} => Append(p[k], c) \in Seq(Char)
  BY <1>1
<1>4. Len(Append(p[k], c)) <= PipeSize
  BY <1>2, TerminalAssumption
<1> DEFINE q == Append(p[k], c)
<1>5. /\ q \in Seq(Char \cup {"end"}) /\ Len(q) <= PipeSize
      /\ k \in {1, 2} => q \in Seq(Char)
  BY <1>2, <1>3, <1>4
<1>6. Added(p, k, c) = [p EXCEPT ![k] = q]
  BY DEF Added
<1> HIDE DEF q
<1>7. /\ Contents([p EXCEPT ![k] = q])
      /\ [p EXCEPT ![k] = q][k] = q
      /\ \A i \in 1 .. 3 : i # k => [p EXCEPT ![k] = q][i] = p[i]
  BY <1>5, PipePut
<1> QED
  BY <1>6, <1>7 DEF q

\* A key is added to its pipe, or a character of text.
LEMMA CharacterAdded ==
  ASSUME NEW p, Contents(p), NEW c \in Char
  PROVE  /\ Len(p[1]) < PipeSize =>
              /\ Contents(Added(p, 1, c)) /\ Added(p, 1, c)[1] = Append(p[1], c)
              /\ Added(p, 1, c)[2] = p[2] /\ Added(p, 1, c)[3] = p[3]
         /\ Len(p[2]) < PipeSize =>
              /\ Contents(Added(p, 2, c)) /\ Added(p, 2, c)[2] = Append(p[2], c)
              /\ Added(p, 2, c)[1] = p[1] /\ Added(p, 2, c)[3] = p[3]
<1>1. ASSUME NEW k \in 1 .. 3, Len(p[k]) < PipeSize
      PROVE  /\ Contents(Added(p, k, c)) /\ Added(p, k, c)[k] = Append(p[k], c)
             /\ \A i \in 1 .. 3 : i # k => Added(p, k, c)[i] = p[i]
  BY <1>1, PipeAppend
<1> QED
  BY <1>1

\* The oldest character is taken out of a pipe.
LEMMA PipeTail ==
  ASSUME NEW p, Contents(p), NEW k \in 1 .. 3, p[k] # <<>>
  PROVE  /\ Contents(Shifted(p, k))
         /\ Shifted(p, k)[k] = Tail(p[k])
         /\ \A i \in 1 .. 3 : i # k => Shifted(p, k)[i] = p[i]
<1>1. p[k] \in Seq(Char \cup {"end"}) /\ (k \in {1, 2} => p[k] \in Seq(Char))
  BY DEF Contents
<1>2. /\ Tail(p[k]) \in Seq(Char \cup {"end"}) /\ Len(Tail(p[k])) = Len(p[k]) - 1
      /\ Len(p[k]) \in Nat \ {0} /\ Len(p[k]) <= PipeSize
  BY <1>1, HeadTailProperties, EmptySeq DEF Contents
<1>3. k \in {1, 2} => Tail(p[k]) \in Seq(Char)
  BY <1>1, HeadTailProperties
<1>4. Len(Tail(p[k])) <= PipeSize
  BY <1>2, TerminalAssumption
<1> DEFINE q == Tail(p[k])
<1>5. /\ q \in Seq(Char \cup {"end"}) /\ Len(q) <= PipeSize
      /\ k \in {1, 2} => q \in Seq(Char)
  BY <1>2, <1>3, <1>4
<1>6. Shifted(p, k) = [p EXCEPT ![k] = q]
  BY DEF Shifted
<1> HIDE DEF q
<1>7. /\ Contents([p EXCEPT ![k] = q])
      /\ [p EXCEPT ![k] = q][k] = q
      /\ \A i \in 1 .. 3 : i # k => [p EXCEPT ![k] = q][i] = p[i]
  BY <1>5, PipePut
<1> QED
  BY <1>6, <1>7 DEF q

\* A pipe is emptied.
LEMMA PipeEmpty ==
  ASSUME NEW p, Contents(p), NEW k \in 1 .. 3
  PROVE  /\ Contents(Emptied(p, k))
         /\ Emptied(p, k)[k] = <<>>
         /\ \A i \in 1 .. 3 : i # k => Emptied(p, k)[i] = p[i]
<1>1. <<>> \in Seq(Char \cup {"end"}) /\ <<>> \in Seq(Char) /\ Len(<<>>) <= PipeSize
  BY TerminalAssumption
<1> DEFINE q == <<>>
<1>5. /\ q \in Seq(Char \cup {"end"}) /\ Len(q) <= PipeSize
      /\ k \in {1, 2} => q \in Seq(Char)
  BY <1>1
<1>6. Emptied(p, k) = [p EXCEPT ![k] = q]
  BY DEF Emptied
<1> HIDE DEF q
<1>7. /\ Contents([p EXCEPT ![k] = q])
      /\ [p EXCEPT ![k] = q][k] = q
      /\ \A i \in 1 .. 3 : i # k => [p EXCEPT ![k] = q][i] = p[i]
  BY <1>5, PipePut
<1> QED
  BY <1>6, <1>7 DEF q

\* UpdateMagic leaves a buffer of characters.
LEMMA ReceiveType ==
  ASSUME TermInv
  PROVE  Receive \in Seq(Char) /\ Flag \in BOOLEAN /\ Pin \in Pins
<1>1. pipe[1] \in Seq(Char) /\ buffer \in Seq(Char) /\ waiting_flag \in BOOLEAN /\ out \in Pins
  BY DEF TermInv, TypeOK, Contents
<1> QED
  BY <1>1, ReverseEmpty DEF Receive, Flag, Pin, Pins

\* What a read leaves in the buffer and at the pins.
LEMMA ReadType ==
  ASSUME NEW b \in Seq(Char), NEW w \in BOOLEAN, NEW pins \in Pins, taken \in Seq(Char),
         Read(b, w, pins)
  PROVE  /\ buffer' \in Seq(Char) /\ taken' \in Seq(Char)
         /\ waiting_flag' \in BOOLEAN /\ out' \in Pins
<1>1. CASE w /\ b # <<>>
  <2>1. Last(b) \in Char /\ Front(b) \in Seq(Char)
    BY <1>1, ReverseLast
  <2>2. /\ buffer' = Front(b) /\ taken' = Append(taken, Last(b))
        /\ waiting_flag' = (Len(b) > 1)
        /\ out' = [waiting |-> pins.waiting /\ Len(b) > 1, data |-> Last(b)]
    BY <1>1 DEF Read
  <2>3. taken' \in Seq(Char)
    BY <2>1, <2>2
  <2>4. waiting_flag' \in BOOLEAN
    BY <2>2
  <2>5. out' \in Pins
    <3>1. PICK v \in BOOLEAN : v = (pins.waiting /\ Len(b) > 1)
      OBVIOUS
    <3>2. out' = [waiting |-> v, data |-> Last(b)]
      BY <2>2, <3>1, Zenon
    <3> QED
      BY <2>1, <3>2 DEF Pins
  <2> QED
    BY <2>1, <2>2, <2>3, <2>4, <2>5
<1>2. CASE ~(w /\ b # <<>>)
  <2>1. /\ buffer' = b /\ waiting_flag' = w /\ out' = [pins EXCEPT !.data = Zero]
        /\ taken' = taken
    BY <1>2 DEF Read
  <2>2. out' \in Pins
    BY <2>1, TerminalAssumption DEF Pins
  <2> QED
    BY <2>1, <2>2
<1> QED
  BY <1>1, <1>2

\* A step of the Terminal, or of the client, keeps types and stages.
LEMMA TermStep ==
  ASSUME TermInv, [Next]_vars
  PROVE  TermInv'
<1> USE TerminalAssumption
<1>0. /\ TypeOK /\ Contents(pipe) /\ Stages /\ Connected
      /\ PipeSize >= 1 /\ Zero \in Char
  BY DEF TermInv
<1>p. ASSUME Contents(pipe') PROVE \A i \in 1 .. 3 : pipe'[i] \in Seq(Char \cup {"end"}) /\ Len(pipe'[i]) <= PipeSize
  BY <1>p DEF Contents
<1> DEFINE ProcessTypes ==
             /\ master \in {"fork", "mkfifo", "open", "running", "writing", "ending",
                           "closed", "undefined"}
             /\ client \in {"none", "open", "getch", "write", "print", "command", "done"}
             /\ made \in 0 .. 3 /\ master_open \in 0 .. 3
             /\ client_open \in SUBSET (1 .. 3) /\ tried \in 0 .. 3
           EngineTypes ==
             /\ buffer \in Seq(Char) /\ waiting_flag \in BOOLEAN
             /\ clk \in BOOLEAN /\ read \in BOOLEAN /\ out \in Pins
           TextTypes ==
             key \in Char /\ \A s \in {typed, taken, sent, shown} : s \in Seq(Char)
<1>t. ProcessTypes /\ EngineTypes /\ TextTypes
  BY <1>0 DEF TypeOK
<1>q. ASSUME ProcessTypes', EngineTypes', TextTypes', Contents(pipe'), Stages', Connected'
      PROVE  TermInv'
  <2>1. (Contents(pipe))'
    BY <1>q DEF Contents
  <2> QED
    BY <1>q, <1>p, <2>1 DEF TermInv, TypeOK
<1>1. CASE StartClient
  <2>1. ProcessTypes' /\ Stages' /\ Connected'
    BY <1>0, <1>t, <1>1 DEF StartClient, Stages, Connected
  <2>2. EngineTypes' /\ TextTypes' /\ Contents(pipe')
    BY <1>0, <1>t, <1>1 DEF StartClient, engine, keys, text
  <2> QED
    BY <2>1, <2>2, <1>q
<1>2. CASE MakePipe
  <2>1. ProcessTypes' /\ Stages' /\ Connected'
    BY <1>0, <1>t, <1>2 DEF MakePipe, Stages, Connected
  <2>2. EngineTypes' /\ TextTypes' /\ Contents(pipe')
    BY <1>0, <1>t, <1>2 DEF MakePipe, engine, keys, text
  <2> QED
    BY <2>1, <2>2, <1>q
<1>3. CASE OpenPipe
  <2>1. ProcessTypes' /\ Stages' /\ Connected'
    BY <1>0, <1>t, <1>3 DEF OpenPipe, Stages, Connected
  <2>2. EngineTypes' /\ TextTypes' /\ Contents(pipe')
    BY <1>0, <1>t, <1>3 DEF OpenPipe, engine, keys, text
  <2> QED
    BY <2>1, <2>2, <1>q
<1>4. CASE Welcome
  <2>1. PICK c \in Char \ {Zero} :
          pipe' = [pipe EXCEPT ![2] = Append(@, c)] /\ sent' = Append(sent, c)
    BY <1>4 DEF Welcome
  <2>2. pipe[2] = <<>> /\ Len(pipe[2]) < PipeSize
    BY <1>0, <1>4 DEF Welcome, Stages, Connected
  <2>3. Contents(pipe') /\ pipe'[3] = pipe[3]
    <3>1. pipe' = Added(pipe, 2, c) /\ c \in Char \cup {"end"}
      BY <2>1 DEF Added
    <3> QED
      BY <1>0, <2>2, <3>1, PipeAppend
  <2>4. ProcessTypes' /\ Stages' /\ Connected'
    BY <1>0, <1>t, <1>4, <2>3 DEF Welcome, Stages, Connected
  <2>5. EngineTypes' /\ TextTypes'
    BY <1>t, <1>4, <2>1 DEF Welcome, engine, keys
  <2> QED
    BY <2>3, <2>4, <2>5, <1>q
<1>5. CASE OpenClient
  <2>1. tried < 3 /\ tried' = tried + 1
    BY <1>0, <1>5 DEF OpenClient, Stages, Connected
  <2>2. client_open' \in {client_open, client_open \cup {tried + 1}}
    BY <1>5 DEF OpenClient
  <2>3. client_open' \in SUBSET (1 .. 3)
    BY <1>t, <2>1, <2>2
  <2>4. ProcessTypes' /\ Stages' /\ Connected'
    BY <1>0, <1>t, <1>5, <2>1, <2>3 DEF OpenClient, Stages, Connected
  <2>5. EngineTypes' /\ TextTypes' /\ Contents(pipe')
    BY <1>0, <1>t, <1>5 DEF OpenClient, engine, keys, text
  <2> QED
    BY <2>4, <2>5, <1>q
<1>6. CASE Getch
  <2>1. ProcessTypes' /\ Stages' /\ Connected'
    BY <1>0, <1>t, <1>6 DEF Getch, Stages, Connected
  <2>2. EngineTypes' /\ Contents(pipe')
    BY <1>0, <1>t, <1>6 DEF Getch, engine
  <2>3. key' \in Char /\ typed' \in Seq(Char)
    <3>1. CASE key' = key /\ typed' = typed
      BY <3>1, <1>t
    <3>2. CASE \E c \in Char : key' = c /\ typed' = Append(typed, c)
      BY <3>2, <1>t
    <3> QED
      BY <1>6, <3>1, <3>2 DEF Getch
  <2>4. TextTypes'
    BY <1>t, <1>6, <2>3 DEF Getch, text
  <2> QED
    BY <2>1, <2>2, <2>4, <1>q
<1>7. CASE WriteKey
  <2>1. Contents(pipe') /\ pipe'[2] = pipe[2] /\ pipe'[3] = pipe[3]
    <3>1. CASE 1 \in client_open
      <4>1. Len(pipe[1]) < PipeSize /\ pipe' = [pipe EXCEPT ![1] = Append(@, key)]
        BY <3>1, <1>7 DEF WriteKey
      <4>2. pipe' = Added(pipe, 1, key) /\ key \in Char /\ key \in Char \cup {"end"}
        BY <1>t, <4>1 DEF Added
      <4> QED
        <5>1. /\ Contents(Added(pipe, 1, key))
              /\ Added(pipe, 1, key)[2] = pipe[2] /\ Added(pipe, 1, key)[3] = pipe[3]
          BY <1>0, <4>1, <4>2, CharacterAdded, Zenon
        <5> QED
          BY <4>2, <5>1, Zenon
    <3>2. CASE 1 \notin client_open
      BY <3>2, <1>0, <1>7 DEF WriteKey
    <3> QED
      BY <3>1, <3>2
  <2>2. ProcessTypes' /\ Stages' /\ Connected'
    BY <1>0, <1>t, <1>7, <2>1 DEF WriteKey, Stages, Connected
  <2>3. EngineTypes' /\ TextTypes'
    BY <1>t, <1>7 DEF WriteKey, engine, keys, text
  <2> QED
    BY <2>1, <2>2, <2>3, <1>q
<1>8. CASE ShowText
  <2>1. /\ Contents(pipe') /\ pipe'[3] = pipe[3] /\ shown' \in Seq(Char)
        /\ pipe[2] = <<>> => pipe'[2] = <<>>
    <3>1. CASE 2 \in client_open /\ pipe[2] # <<>>
      <4>1. pipe' = [pipe EXCEPT ![2] = Tail(@)] /\ shown' = Append(shown, Head(pipe[2]))
        BY <3>1, <1>8 DEF ShowText
      <4>2. Contents(pipe') /\ pipe'[3] = pipe[3]
        <5>1. pipe' = Shifted(pipe, 2)
          BY <4>1 DEF Shifted
        <5> QED
          BY <1>0, <3>1, <5>1, PipeTail
      <4>3. Head(pipe[2]) \in Char
        BY <1>0, <3>1, HeadTailProperties DEF Contents
      <4> QED
        BY <1>t, <3>1, <4>1, <4>2, <4>3
    <3>2. CASE ~(2 \in client_open /\ pipe[2] # <<>>)
      BY <3>2, <1>0, <1>t, <1>8 DEF ShowText
    <3> QED
      BY <3>1, <3>2
  <2>2. ProcessTypes' /\ Stages' /\ Connected'
    BY <1>0, <1>t, <1>8, <2>1 DEF ShowText, Stages, Connected
  <2>3. EngineTypes' /\ TextTypes'
    BY <1>t, <1>8, <2>1 DEF ShowText, engine, keys
  <2> QED
    BY <2>1, <2>2, <2>3, <1>q
<1>9. CASE Command
  <2>1. /\ Contents(pipe') /\ pipe'[2] = pipe[2]
        /\ pipe[3] = <<>> => pipe'[3] = <<>>
    <3>1. CASE 3 \in client_open /\ pipe[3] # <<>>
      <4>1. pipe' = [pipe EXCEPT ![3] = Tail(@)]
        BY <3>1, <1>9 DEF Command
      <4>2. pipe' = Shifted(pipe, 3)
        BY <4>1 DEF Shifted
      <4> QED
        BY <1>0, <3>1, <4>2, PipeTail
    <3>2. CASE ~(3 \in client_open /\ pipe[3] # <<>>)
      BY <3>2, <1>0, <1>9 DEF Command
    <3> QED
      BY <3>1, <3>2
  <2>2. ProcessTypes' /\ Stages' /\ Connected'
    BY <1>0, <1>t, <1>9, <2>1 DEF Command, Stages, Connected
  <2>3. EngineTypes' /\ TextTypes'
    BY <1>t, <1>9 DEF Command, engine, keys, text
  <2> QED
    BY <2>1, <2>2, <2>3, <1>q
<1>r. Receive \in Seq(Char) /\ Flag \in BOOLEAN /\ Pin \in Pins
  BY ReceiveType
<1>e. ASSUME pipe' = [pipe EXCEPT ![1] = <<>>]
      PROVE  Contents(pipe') /\ pipe'[2] = pipe[2] /\ pipe'[3] = pipe[3]
  <2>1. pipe' = Emptied(pipe, 1)
    BY <1>e DEF Emptied
  <2> QED
    BY <1>0, <2>1, PipeEmpty
<1>10. CASE Idle
  <2>1. Contents(pipe') /\ pipe'[2] = pipe[2] /\ pipe'[3] = pipe[3]
    BY <1>10, <1>e DEF Idle, UpdateMagic
  <2>2. ProcessTypes' /\ Stages' /\ Connected'
    BY <1>0, <1>t, <1>10, <2>1 DEF Idle, processes, Stages, Connected
  <2>3. EngineTypes' /\ TextTypes'
    BY <1>t, <1>10, <1>r DEF Idle, UpdateMagic, keys, text
  <2> QED
    BY <2>1, <2>2, <2>3, <1>q
<1>11. CASE RiseRead
  <2>1. /\ Read(Receive, Flag, Pin) /\ pipe' = [pipe EXCEPT ![1] = <<>>]
        /\ UNCHANGED <<processes, read, key, typed, text>> /\ clk' = TRUE
    BY <1>11 DEF RiseRead
  <2>2. Contents(pipe') /\ pipe'[2] = pipe[2] /\ pipe'[3] = pipe[3]
    BY <2>1, <1>e
  <2>3. PICK b \in Seq(Char), w \in BOOLEAN, pins \in Pins :
          b = Receive /\ w = Flag /\ pins = Pin
    BY <1>r, Zenon
  <2>4. Read(b, w, pins) /\ taken \in Seq(Char)
    BY <1>t, <2>1, <2>3
  <2>5. /\ buffer' \in Seq(Char) /\ taken' \in Seq(Char)
        /\ waiting_flag' \in BOOLEAN /\ out' \in Pins
    BY <2>4, ReadType
  <2>6. ProcessTypes' /\ Stages' /\ Connected'
    BY <1>0, <1>t, <2>1, <2>2 DEF processes, Stages, Connected
  <2>7. EngineTypes' /\ TextTypes'
    BY <1>t, <2>1, <2>5 DEF text
  <2> QED
    BY <2>2, <2>6, <2>7, <1>q
<1>17. CASE ReadNothing
  <2>1. ProcessTypes' /\ Stages' /\ Connected'
    BY <1>0, <1>t, <1>17 DEF ReadNothing, Stages, Connected
  <2>2. EngineTypes' /\ TextTypes' /\ Contents(pipe')
    BY <1>0, <1>t, <1>17 DEF ReadNothing, engine, keys, text
  <2> QED
    BY <2>1, <2>2, <1>q
<1>18. CASE RiseWrite
  <2>1. Contents(pipe') /\ pipe'[2] = pipe[2] /\ pipe'[3] = pipe[3]
    BY <1>18, <1>e DEF RiseWrite, UpdateMagic
  <2>2. ProcessTypes' /\ Stages' /\ Connected'
    BY <1>0, <1>t, <1>18, <2>1 DEF RiseWrite, Stages, Connected
  <2>3. EngineTypes' /\ TextTypes'
    BY <1>t, <1>18, <1>r DEF RiseWrite, UpdateMagic, keys, text
  <2> QED
    BY <2>1, <2>2, <2>3, <1>q
<1>19. ASSUME NEW c \in Char, Write(c) PROVE TermInv'
  <2>1. /\ Len(pipe[2]) < PipeSize /\ sent' = Append(sent, c)
        /\ pipe' = Added(pipe, 2, c)
    BY <1>19 DEF Write, Added
  <2>2. Contents(pipe') /\ pipe'[3] = pipe[3]
    <3>1. Contents(Added(pipe, 2, c)) /\ Added(pipe, 2, c)[3] = pipe[3]
      BY <1>0, <1>19, <2>1, CharacterAdded, Zenon
    <3> QED
      BY <2>1, <3>1, Zenon
  <2>3. ProcessTypes' /\ Stages' /\ Connected'
    BY <1>0, <1>t, <1>19, <2>2 DEF Write, Stages, Connected
  <2>4. sent' \in Seq(Char)
    BY <1>t, <1>19, <2>1
  <2>5. EngineTypes' /\ TextTypes'
    BY <1>t, <1>19, <2>4 DEF Write, keys
  <2> QED
    BY <2>2, <2>3, <2>5, <1>q
<1>12. CASE Fall
  <2>1. Contents(pipe') /\ pipe'[2] = pipe[2] /\ pipe'[3] = pipe[3]
    BY <1>12, <1>e DEF Fall, UpdateMagic
  <2>2. ProcessTypes' /\ Stages' /\ Connected'
    BY <1>0, <1>t, <1>12, <2>1 DEF Fall, processes, Stages, Connected
  <2>3. EngineTypes' /\ TextTypes'
    BY <1>t, <1>12, <1>r DEF Fall, UpdateMagic, keys, text
  <2> QED
    BY <2>1, <2>2, <2>3, <1>q
<1>13. CASE SetRead
  <2>1. ProcessTypes' /\ Stages' /\ Connected'
    BY <1>0, <1>t, <1>13 DEF SetRead, processes, Stages, Connected
  <2>2. EngineTypes' /\ TextTypes' /\ Contents(pipe')
    BY <1>0, <1>t, <1>13 DEF SetRead, keys, text
  <2> QED
    BY <2>1, <2>2, <1>q
<1>14. CASE ShutDown
  <2>1. pipe[3] = <<>> /\ Len(pipe[3]) < PipeSize
    BY <1>0, <1>14 DEF ShutDown, Stages, Connected
  <2>2. Contents(pipe')
    <3>1. pipe' = Added(pipe, 3, "end") /\ "end" \in Char \cup {"end"}
      BY <1>14 DEF ShutDown, Added
    <3> QED
      BY <1>0, <2>1, <3>1, PipeAppend
  <2>3. ProcessTypes' /\ Stages' /\ Connected'
    BY <1>0, <1>t, <1>14 DEF ShutDown, Stages, Connected
  <2>4. EngineTypes' /\ TextTypes'
    BY <1>t, <1>14 DEF ShutDown, engine, keys, text
  <2> QED
    BY <2>2, <2>3, <2>4, <1>q
<1>15. CASE Finish
  <2>1. ProcessTypes' /\ Stages' /\ Connected'
    BY <1>0, <1>t, <1>15 DEF Finish, Stages, Connected
  <2>2. EngineTypes' /\ TextTypes' /\ Contents(pipe')
    BY <1>0, <1>t, <1>15 DEF Finish, engine, keys, text
  <2> QED
    BY <2>1, <2>2, <1>q
<1>16. CASE UNCHANGED vars
  <2>1. ProcessTypes' /\ Stages' /\ Connected'
    BY <1>0, <1>t, <1>16 DEF vars, processes, Stages, Connected
  <2>2. EngineTypes' /\ TextTypes' /\ Contents(pipe')
    BY <1>0, <1>t, <1>16 DEF vars, engine, keys, text
  <2> QED
    BY <2>1, <2>2, <1>q
<1> QED
  BY <1>1, <1>2, <1>3, <1>4, <1>5, <1>6, <1>7, <1>8, <1>9, <1>10, <1>11, <1>12, <1>13,
     <1>14, <1>15, <1>16, <1>17, <1>18, <1>19
     DEF Next, Startup, ClientStep, Closed, Blocked

\* The Terminal starts with its pipes empty.
LEMMA TermInit == Init => TermInv
<1> SUFFICES ASSUME Init PROVE TermInv
  OBVIOUS
<1>1. Contents(pipe)
  <2>1. pipe = [i \in 1 .. 3 |-> <<>>] /\ <<>> \in Seq(Char) /\ <<>> \in Seq(Char \cup {"end"})
    BY DEF Init
  <2> QED
    BY <2>1, TerminalAssumption DEF Contents
<1>2. Stages /\ Connected
  BY DEF Init, Stages, Connected
<1>3. TypeOK
  <2>1. out \in Pins /\ waiting_flag \in BOOLEAN
    BY TerminalAssumption DEF Init, Pins
  <2>2. \A i \in 1 .. 3 : pipe[i] \in Seq(Char \cup {"end"}) /\ Len(pipe[i]) <= PipeSize
    BY <1>1 DEF Contents
  <2>3. <<>> \in Seq(Char) /\ {} \in SUBSET (1 .. 3) /\ 0 \in 0 .. 3
    OBVIOUS
  <2>4. \A s \in {typed, taken, sent, shown} : s \in Seq(Char)
    BY <2>3 DEF Init
  <2>5. /\ made \in 0 .. 3 /\ master_open \in 0 .. 3
        /\ client_open \in SUBSET (1 .. 3) /\ tried \in 0 .. 3
        /\ buffer \in Seq(Char) /\ key \in Char /\ clk \in BOOLEAN /\ read \in BOOLEAN
        /\ master \in {"fork", "mkfifo", "open", "running", "writing", "ending", "closed",
                       "undefined"}
        /\ client \in {"none", "open", "getch", "write", "print", "command", "done"}
    BY <2>3, TerminalAssumption DEF Init
  <2> QED
    BY <2>1, <2>2, <2>4, <2>5 DEF TypeOK
<1> QED
  BY <1>1, <1>2, <1>3 DEF TermInv

(* The variables of the two processes have their types, no pipe is filled   *)
(* beyond its capacity, nothing is written before the welcome, nor an end   *)
(* told before the destructor runs, and the constructor comes back only     *)
(* with the pipes of text and commands open at both ends.                   *)
THEOREM TerminalTypes == Spec => [](TypeOK /\ Stages /\ Connected)
<1>1. TermInv /\ [Next]_vars => TermInv'
  BY TermStep
<1>2. TermInv => TypeOK /\ Stages /\ Connected
  BY DEF TermInv
<1> QED
  BY <1>1, <1>2, TermInit, PTL DEF Spec

-----------------------------------------------------------------------------
(* The order of the characters.                                            *)

\* UpdateMagic: the keys move from the pipe to the buffer, and stay in order.
LEMMA KeysReceived ==
  ASSUME NEW t \in Seq(Char), NEW b \in Seq(Char), NEW p \in Seq(Char)
  PROVE  (t \o Reverse(Reverse(p) \o b)) \o <<>> = (t \o Reverse(b)) \o p
<1>1. /\ Reverse(p) \in Seq(Char) /\ Reverse(b) \in Seq(Char)
      /\ Reverse(Reverse(p)) = p
  BY ReverseElements, ReverseTwice
<1>2. Reverse(Reverse(p) \o b) = Reverse(b) \o p
  <2>1. Reverse(Reverse(p) \o b) = Reverse(b) \o Reverse(Reverse(p))
    BY <1>1, ReverseConcat
  <2> QED
    BY <1>1, <2>1
<1>3. t \o (Reverse(b) \o p) = (t \o Reverse(b)) \o p
  <2>1. PICK r \in Seq(Char) : r = Reverse(b)
    BY <1>1
  <2>2. (t \o r) \o p = t \o (r \o p)
    BY ConcatAssociative
  <2> QED
    BY <2>1, <2>2
<1>4. (t \o Reverse(b)) \o p \in Seq(Char)
  BY <1>1, ConcatProperties
<1>5. ((t \o Reverse(b)) \o p) \o <<>> = (t \o Reverse(b)) \o p
  BY <1>4, ConcatEmptySeq
<1> QED
  BY <1>2, <1>3, <1>5

\* InvokeMagic: the key at the back of the buffer is read, and the others stay in order.
LEMMA KeyTaken ==
  ASSUME NEW t \in Seq(Char), NEW b \in Seq(Char), b # <<>>
  PROVE  Append(t, Last(b)) \o Reverse(Front(b)) = t \o Reverse(b)
<1>1. /\ Last(b) \in Char /\ Front(b) \in Seq(Char)
      /\ Reverse(b) = <<Last(b)>> \o Reverse(Front(b))
  BY ReverseLast
<1>2. Reverse(Front(b)) \in Seq(Char) /\ <<Last(b)>> \in Seq(Char)
  BY <1>1, ReverseElements
<1>3. Append(t, Last(b)) = t \o <<Last(b)>>
  BY <1>1, AppendIsConcat
<1>4. (t \o <<Last(b)>>) \o Reverse(Front(b)) = t \o (<<Last(b)>> \o Reverse(Front(b)))
  BY <1>2, ConcatAssociative
<1> QED
  BY <1>1, <1>3, <1>4

\* The key that the client holds.
InHand == IF client = "write" THEN <<key>> ELSE <<>>

\* Before its loop the client has passed on nothing.
Untyped == client \in {"none", "open"} => typed = <<>> /\ Passed = <<>>

CharInv == TermInv /\ Untyped /\ CharactersInOrder

\* What the keys are made of.
LEMMA KeyTypes ==
  ASSUME TermInv
  PROVE  /\ pipe[1] \in Seq(Char) /\ buffer \in Seq(Char) /\ taken \in Seq(Char)
         /\ typed \in Seq(Char) /\ key \in Char /\ Contents(pipe)
         /\ Reverse(buffer) \in Seq(Char) /\ Passed \in Seq(Char)
<1>1. /\ pipe[1] \in Seq(Char) /\ buffer \in Seq(Char) /\ taken \in Seq(Char)
      /\ typed \in Seq(Char) /\ key \in Char /\ Contents(pipe)
      /\ Reverse(buffer) \in Seq(Char)
  BY ReverseElements DEF TermInv, TypeOK, Contents
<1>2. Passed \in Seq(Char)
  BY <1>1, ConcatProperties DEF Passed
<1> QED
  BY <1>1, <1>2

\* UpdateMagic moves keys from the pipe to the buffer, and leaves their order alone.
LEMMA PassedReceive ==
  ASSUME TermInv
  PROVE  (taken \o Reverse(Receive)) \o <<>> = Passed
<1>1. PICK t \in Seq(Char), b \in Seq(Char), p \in Seq(Char) :
        t = taken /\ b = buffer /\ p = pipe[1]
  BY KeyTypes
<1>2. (t \o Reverse(Reverse(p) \o b)) \o <<>> = (t \o Reverse(b)) \o p
  BY KeysReceived
<1> QED
  BY <1>1, <1>2 DEF Passed, Receive

\* Only the client passes keys on.
LEMMA PassedStep ==
  ASSUME TermInv, [Next]_vars, ~WriteKey
  PROVE  Passed' = Passed
<1>1. /\ pipe[1] \in Seq(Char) /\ buffer \in Seq(Char) /\ taken \in Seq(Char)
      /\ Contents(pipe) /\ Passed \in Seq(Char)
  BY KeyTypes
<1>2. ASSUME taken' = taken, buffer' = buffer, pipe'[1] = pipe[1] PROVE Passed' = Passed
  BY <1>2 DEF Passed
<1>3. ASSUME taken' = taken, UpdateMagic PROVE Passed' = Passed
  <2>1. buffer' = Receive /\ pipe'[1] = <<>>
    BY <1>1, <1>3 DEF UpdateMagic, Contents
  <2> QED
    BY <1>3, <2>1, PassedReceive DEF Passed
<1>4. CASE StartClient \/ MakePipe \/ OpenPipe \/ OpenClient \/ Getch \/ Finish
  <2>1. taken' = taken /\ buffer' = buffer /\ pipe' = pipe
    BY <1>4 DEF StartClient, MakePipe, OpenPipe, OpenClient, Getch, Finish, engine, keys
  <2> QED
    BY <1>2, <2>1
<1>5. CASE Welcome \/ ShowText \/ Command \/ ShutDown
  <2>1. taken' = taken /\ buffer' = buffer
    BY <1>5 DEF Welcome, ShowText, Command, ShutDown, engine, keys
  <2>2. pipe'[1] = pipe[1]
    BY <1>1, <1>5 DEF Welcome, ShowText, Command, ShutDown, Contents
  <2> QED
    BY <1>2, <2>1, <2>2
<1>6. CASE Idle \/ Fall \/ RiseWrite
  <2>1. UpdateMagic /\ taken' = taken
    BY <1>6 DEF Idle, Fall, RiseWrite, keys
  <2> QED
    BY <1>3, <2>1
<1>7. CASE RiseRead
  <2>1. Read(Receive, Flag, Pin) /\ pipe'[1] = <<>>
    BY <1>1, <1>7 DEF RiseRead, Contents
  <2>2. CASE Flag /\ Receive # <<>>
    <3>1. buffer' = Front(Receive) /\ taken' = Append(taken, Last(Receive))
      BY <2>1, <2>2 DEF Read
    <3>2. Receive \in Seq(Char)
      BY ReceiveType
    <3>3. Append(taken, Last(Receive)) \o Reverse(Front(Receive)) = taken \o Reverse(Receive)
      BY <1>1, <2>2, <3>2, KeyTaken
    <3> QED
      BY <2>1, <3>1, <3>3, PassedReceive DEF Passed
  <2>3. CASE ~(Flag /\ Receive # <<>>)
    <3>1. buffer' = Receive /\ taken' = taken
      BY <2>1, <2>3 DEF Read
    <3> QED
      BY <2>1, <3>1, PassedReceive DEF Passed
  <2> QED
    BY <2>2, <2>3
<1>8. ASSUME NEW c \in Char, Write(c) PROVE Passed' = Passed
  <2>1. taken' = taken /\ buffer' = buffer
    BY <1>8 DEF Write, keys
  <2>2. pipe'[1] = pipe[1]
    BY <1>1, <1>8 DEF Write, Contents
  <2> QED
    BY <1>2, <2>1, <2>2
<1>9. CASE SetRead \/ ReadNothing \/ UNCHANGED vars
  <2>1. taken' = taken /\ buffer' = buffer /\ pipe' = pipe
    BY <1>9 DEF SetRead, ReadNothing, vars, engine, keys
  <2> QED
    BY <1>2, <2>1
<1> QED
  BY <1>4, <1>5, <1>6, <1>7, <1>8, <1>9
     DEF Next, Startup, ClientStep, Closed, Blocked

\* The keys stay in order.
LEMMA KeysStep ==
  ASSUME TermInv, Untyped, KeysInOrder, [Next]_vars
  PROVE  KeysInOrder' /\ Untyped'
<1>1. /\ pipe[1] \in Seq(Char) /\ buffer \in Seq(Char) /\ taken \in Seq(Char)
      /\ typed \in Seq(Char) /\ key \in Char /\ Contents(pipe)
      /\ Reverse(buffer) \in Seq(Char) /\ Passed \in Seq(Char)
  BY KeyTypes
<1>2. Passed \o <<>> = Passed
  BY <1>1, ConcatEmptySeq
<1>3. KeysInOrder <=> IF 1 \in Missed THEN Passed = <<>> ELSE typed = Passed \o InHand
  BY DEF KeysInOrder, InHand
<1>4. KeysInOrder' <=> IF 1 \in Missed' THEN Passed' = <<>> ELSE typed' = Passed' \o InHand'
  BY DEF KeysInOrder, InHand
<1>5. ASSUME Passed' = Passed, typed' = typed, key' = key, Missed' = Missed,
             client = "write" <=> client' = "write",
             client' \in {"none", "open"} => client \in {"none", "open"}
      PROVE  KeysInOrder' /\ Untyped'
  <2>1. InHand' = InHand
    BY <1>5 DEF InHand
  <2> QED
    BY <1>3, <1>4, <1>5, <2>1 DEF Untyped
<1>6. CASE OpenClient
  <2>1. /\ client = "open" /\ client' \in {"open", "getch"} /\ typed' = typed
    BY <1>6 DEF OpenClient, keys
  <2>2. Passed' = Passed
    <3>1. ~WriteKey
      BY <2>1 DEF WriteKey
    <3> QED
      BY <3>1, PassedStep
  <2>3. typed = <<>> /\ Passed = <<>> /\ InHand' = <<>>
    BY <2>1 DEF Untyped, InHand
  <2>4. typed' = Passed' \o InHand'
    BY <1>2, <2>1, <2>2, <2>3
  <2> QED
    BY <1>4, <2>1, <2>2, <2>3, <2>4 DEF Untyped
<1>7. CASE Getch
  <2>1. client = "getch" /\ client' \in {"print", "write"} /\ Missed' = Missed
    BY <1>7 DEF Getch, Missed
  <2>2. Passed' = Passed
    <3>1. ~WriteKey
      BY <2>1 DEF WriteKey
    <3> QED
      BY <3>1, PassedStep
  <2>3. InHand = <<>>
    BY <2>1 DEF InHand
  <2>4. CASE client' = "print" /\ UNCHANGED <<key, typed>>
    <3>1. InHand' = <<>>
      BY <2>4 DEF InHand
    <3> QED
      BY <1>3, <1>4, <2>1, <2>2, <2>3, <2>4, <3>1 DEF Untyped
  <2>5. ASSUME NEW c \in Char, client' = "write", key' = c, typed' = Append(typed, c)
        PROVE  KeysInOrder' /\ Untyped'
    <3>1. InHand' = <<c>>
      BY <2>5 DEF InHand
    <3>2. typed' = typed \o <<c>>
      BY <1>1, <2>5, AppendIsConcat
    <3> QED
      BY <1>2, <1>3, <1>4, <2>1, <2>2, <2>3, <2>5, <3>1, <3>2 DEF Untyped
  <2> QED
    BY <1>7, <2>4, <2>5 DEF Getch
<1>8. CASE WriteKey
  <2>1. /\ taken' = taken /\ buffer' = buffer /\ typed' = typed
        /\ client = "write" /\ client' = "print" /\ Missed' = Missed
    BY <1>8 DEF WriteKey, engine, keys, Missed
  <2>2. InHand = <<key>> /\ InHand' = <<>> /\ <<key>> \in Seq(Char)
    BY <1>1, <2>1 DEF InHand
  <2>3. CASE 1 \in client_open
    <3>1. 1 \notin Missed
      BY <2>3 DEF Missed
    <3>2. pipe'[1] = Append(pipe[1], key)
      <4>1. pipe' = [pipe EXCEPT ![1] = Append(@, key)]
        BY <1>8, <2>3 DEF WriteKey
      <4> QED
        BY <1>1, <4>1 DEF Contents
    <3>3. pipe'[1] = pipe[1] \o <<key>>
      BY <1>1, <3>2, AppendIsConcat
    <3>4. Passed' = Passed \o <<key>>
      <4>1. PICK r \in Seq(Char), p \in Seq(Char), k \in Seq(Char) :
              r = taken \o Reverse(buffer) /\ p = pipe[1] /\ k = <<key>>
        BY <1>1, <2>2, ConcatProperties
      <4>2. (r \o p) \o k = r \o (p \o k)
        BY ConcatAssociative
      <4> QED
        BY <2>1, <3>3, <4>1, <4>2 DEF Passed
    <3>5. Passed' \o InHand' = Passed'
      <4>1. Passed \o <<key>> \in Seq(Char)
        BY <1>1, <2>2, ConcatProperties
      <4> QED
        BY <2>2, <3>4, <4>1, ConcatEmptySeq
    <3> QED
      BY <1>3, <1>4, <2>1, <2>2, <3>1, <3>4, <3>5 DEF Untyped
  <2>4. CASE 1 \notin client_open
    <3>1. 1 \in Missed
      <4>1. tried = 3
        BY <2>1 DEF TermInv, Stages, TypeOK
      <4> QED
        BY <2>4, <4>1 DEF Missed
    <3>2. Passed' = Passed
      BY <1>8, <2>1, <2>4 DEF WriteKey, Passed
    <3> QED
      BY <1>3, <1>4, <2>1, <3>1, <3>2 DEF Untyped
  <2> QED
    BY <2>3, <2>4
<1>9. CASE StartClient \/ MakePipe \/ OpenPipe \/ Welcome \/ ShowText \/ Command \/ ShutDown
           \/ Finish
  <2>1. /\ typed' = typed /\ key' = key /\ Missed' = Missed
        /\ client = "write" <=> client' = "write"
        /\ client' \in {"none", "open"} => client \in {"none", "open"}
        /\ ~WriteKey
    BY <1>9 DEF StartClient, MakePipe, OpenPipe, Welcome, ShowText, Command, ShutDown, Finish,
       keys, Missed, WriteKey, TermInv, Stages
  <2> QED
    BY <1>5, <2>1, PassedStep
<1>10. CASE Idle \/ RiseRead \/ ReadNothing \/ RiseWrite \/ (\E c \in Char : Write(c)) \/ Fall
            \/ SetRead \/ UNCHANGED vars
  <2>1. /\ typed' = typed /\ key' = key /\ Missed' = Missed /\ client' = client
    BY <1>10 DEF Idle, RiseRead, ReadNothing, RiseWrite, Write, Fall, SetRead, vars,
       processes, keys, Missed
  <2>2. ~WriteKey
    BY <2>1 DEF WriteKey
  <2> QED
    BY <1>5, <2>1, <2>2, PassedStep
<1> QED
  BY <1>6, <1>7, <1>8, <1>9, <1>10 DEF Next, Startup, ClientStep, Closed, Blocked

\* The text stays in order.
LEMMA TextStep ==
  ASSUME TermInv, TextInOrder, [Next]_vars
  PROVE  TextInOrder'
<1>1. /\ pipe[2] \in Seq(Char) /\ shown \in Seq(Char) /\ sent \in Seq(Char)
      /\ Contents(pipe) /\ sent = shown \o pipe[2]
  BY DEF TermInv, TypeOK, Contents, TextInOrder
<1>2. ASSUME NEW c \in Char, sent' = Append(sent, c), shown' = shown,
             pipe'[2] = Append(pipe[2], c)
      PROVE  TextInOrder'
  <2>1. PICK s \in Seq(Char), p \in Seq(Char), k \in Seq(Char) :
          s = shown /\ p = pipe[2] /\ k = <<c>>
    <3>1. <<c>> \in Seq(Char)
      OBVIOUS
    <3> QED
      BY <1>1, <3>1
  <2>2. s \o p \in Seq(Char) /\ (s \o p) \o k = s \o (p \o k)
    BY ConcatAssociative, ConcatProperties
  <2>3. Append(s \o p, c) = (s \o p) \o k /\ Append(p, c) = p \o k
    BY <2>1, <2>2, AppendIsConcat
  <2> QED
    BY <1>1, <1>2, <2>1, <2>2, <2>3 DEF TextInOrder
<1>3. ASSUME sent' = sent, shown' = shown, pipe'[2] = pipe[2] PROVE TextInOrder'
  BY <1>1, <1>3 DEF TextInOrder
<1>4. CASE Welcome
  <2>1. PICK c \in Char \ {Zero} :
          pipe' = [pipe EXCEPT ![2] = Append(@, c)] /\ sent' = Append(sent, c)
    BY <1>4 DEF Welcome
  <2>2. pipe'[2] = Append(pipe[2], c) /\ shown' = shown
    BY <1>1, <1>4, <2>1 DEF Welcome, Contents
  <2> QED
    BY <1>2, <2>1, <2>2
<1>5. CASE ShowText
  <2>1. CASE 2 \in client_open /\ pipe[2] # <<>>
    <3>1. /\ pipe'[2] = Tail(pipe[2]) /\ shown' = Append(shown, Head(pipe[2]))
          /\ sent' = sent
      BY <1>1, <1>5, <2>1 DEF ShowText, Contents
    <3>2. PICK s \in Seq(Char), p \in Seq(Char) : s = shown /\ p = pipe[2] /\ p # <<>>
      BY <1>1, <2>1
    <3>3. Head(p) \in Char /\ Tail(p) \in Seq(Char) /\ p = <<Head(p)>> \o Tail(p)
      <4>1. Head(p) \in Char /\ Tail(p) \in Seq(Char)
        BY <3>2, HeadTailProperties
      <4>2. p = <<Head(p)>> \o Tail(p)
        BY <3>2
      <4> QED
        BY <4>1, <4>2
    <3>4. PICK h \in Seq(Char), r \in Seq(Char) : h = <<Head(p)>> /\ r = Tail(p)
      <4>1. <<Head(p)>> \in Seq(Char)
        BY <3>3
      <4> QED
        BY <3>3, <4>1
    <3>5. (s \o h) \o r = s \o (h \o r)
      BY ConcatAssociative
    <3>6. Append(s, Head(p)) = s \o h
      BY <3>3, <3>4, AppendIsConcat
    <3> QED
      BY <1>1, <3>1, <3>2, <3>3, <3>4, <3>5, <3>6 DEF TextInOrder
  <2>2. CASE ~(2 \in client_open /\ pipe[2] # <<>>)
    BY <1>3, <1>5, <2>2 DEF ShowText
  <2> QED
    BY <2>1, <2>2
<1>6. CASE StartClient \/ MakePipe \/ OpenPipe \/ OpenClient \/ Getch \/ Finish
  BY <1>3, <1>6 DEF StartClient, MakePipe, OpenPipe, OpenClient, Getch, Finish, text
<1>7. CASE WriteKey \/ Command \/ ShutDown
  <2>1. sent' = sent /\ shown' = shown
    BY <1>7 DEF WriteKey, Command, ShutDown, text
  <2>2. pipe'[2] = pipe[2]
    BY <1>1, <1>7 DEF WriteKey, Command, ShutDown, Contents
  <2> QED
    BY <1>3, <2>1, <2>2
<1>8. CASE Idle \/ RiseRead \/ ReadNothing \/ RiseWrite \/ Fall \/ SetRead \/ UNCHANGED vars
  <2>1. sent' = sent /\ shown' = shown
    BY <1>8 DEF Idle, RiseRead, ReadNothing, RiseWrite, Fall, SetRead, vars, text
  <2>2. pipe'[2] = pipe[2]
    BY <1>1, <1>8 DEF Idle, RiseRead, ReadNothing, RiseWrite, Fall, SetRead, UpdateMagic,
       vars, Contents
  <2> QED
    BY <1>3, <2>1, <2>2
<1>9. ASSUME NEW c \in Char, Write(c) PROVE TextInOrder'
  <2>1. /\ sent' = Append(sent, c) /\ pipe'[2] = Append(pipe[2], c) /\ shown' = shown
    BY <1>1, <1>9 DEF Write, Contents
  <2> QED
    BY <1>2, <1>9, <2>1
<1> QED
  BY <1>4, <1>5, <1>6, <1>7, <1>8, <1>9 DEF Next, Startup, ClientStep, Closed, Blocked

(* For every start of the two processes no character is lost, doubled or    *)
(* overtaken, neither a key between keyboard and data pins nor a character  *)
(* between InvokeMagic and the screen, but for the keys of a client that    *)
(* came before their pipe, none of which arrives.                           *)
THEOREM TerminalInOrder == Spec => []CharactersInOrder
<1>1. Init => CharInv
  <2> SUFFICES ASSUME Init PROVE CharInv
    OBVIOUS
  <2>1. TermInv
    BY TermInit
  <2>2. /\ taken = <<>> /\ buffer = <<>> /\ pipe[1] = <<>> /\ pipe[2] = <<>>
        /\ typed = <<>> /\ sent = <<>> /\ shown = <<>> /\ client # "write" /\ tried = 0
    BY DEF Init
  <2>3. <<>> \o <<>> = <<>> /\ Reverse(<<>>) = <<>>
    <3>1. <<>> \in Seq(Char)
      OBVIOUS
    <3>2. Reverse(<<>>) \in Seq(Char) /\ Len(Reverse(<<>>)) = 0
      BY <3>1, ReverseElements, EmptySeq
    <3>3. Reverse(<<>>) = <<>>
      BY <3>2, EmptySeq
    <3> QED
      BY <3>1, <3>3, ConcatEmptySeq
  <2>4. Passed = <<>>
    BY <2>2, <2>3 DEF Passed
  <2>5. CharactersInOrder /\ Untyped
    BY <2>2, <2>3, <2>4 DEF CharactersInOrder, KeysInOrder, TextInOrder, Untyped
  <2> QED
    BY <2>1, <2>5 DEF CharInv
<1>2. CharInv /\ [Next]_vars => CharInv'
  BY TermStep, KeysStep, TextStep DEF CharInv, CharactersInOrder
<1>3. CharInv => CharactersInOrder
  BY DEF CharInv
<1> QED
  BY <1>1, <1>2, <1>3, PTL DEF Spec

-----------------------------------------------------------------------------
(* A write to the client, whose pipe may be full.                          *)

\* While the simulator is in a write the client takes a character for every key.
RoomLeft ==
  master = "writing" =>
    \/ pipe[2] = <<>>
    \/ Len(pipe[1]) + Len(pipe[2]) <= PipeSize
    \/ client = "print" /\ Len(pipe[1]) + Len(pipe[2]) <= PipeSize + 1

\* No step fills both pipes.
LEMMA RoomLeftStep ==
  ASSUME TermInv, RoomLeft, [Next]_vars
  PROVE  RoomLeft'
<1>1. /\ pipe[1] \in Seq(Char) /\ pipe[2] \in Seq(Char) /\ Contents(pipe)
      /\ Len(pipe[1]) \in Nat /\ Len(pipe[2]) \in Nat /\ Len(pipe[2]) <= PipeSize
      /\ PipeSize \in Nat /\ Len(<<>>) = 0
  BY TerminalAssumption, LenProperties DEF TermInv, Contents
<1>2. PICK keys_in \in Nat, text_in \in Nat, size \in Nat :
        keys_in = Len(pipe[1]) /\ text_in = Len(pipe[2]) /\ size = PipeSize
  BY <1>1
<1>3. ASSUME master' = "writing" =>
               pipe'[2] = <<>> \/ Len(pipe'[1]) + Len(pipe'[2]) <= PipeSize
      PROVE  RoomLeft'
  BY <1>3 DEF RoomLeft
<1>4. ASSUME client' = "print",
             master' = "writing" =>
               pipe'[2] = <<>> \/ Len(pipe'[1]) + Len(pipe'[2]) <= PipeSize + 1
      PROVE  RoomLeft'
  BY <1>4 DEF RoomLeft
<1>5. CASE RiseWrite
  <2>1. pipe'[1] = <<>> /\ pipe'[2] = pipe[2]
    BY <1>1, <1>5 DEF RiseWrite, UpdateMagic, Contents
  <2> QED
    BY <1>1, <1>3, <2>1
<1>6. CASE WriteKey
  <2>1. /\ master' = master /\ client = "write" /\ client' = "print" /\ pipe'[2] = pipe[2]
        /\ pipe'[1] \in {pipe[1], Append(pipe[1], key)}
    BY <1>1, <1>6 DEF WriteKey, Contents
  <2>2. Len(pipe'[1]) \in {Len(pipe[1]), Len(pipe[1]) + 1}
    BY <1>1, <2>1
  <2>3. PICK k \in Nat : k = Len(pipe'[1]) /\ k \in {keys_in, keys_in + 1}
    BY <1>2, <2>2
  <2>4. master = "writing" => pipe[2] = <<>> \/ keys_in + text_in <= size
    BY <1>2, <2>1 DEF RoomLeft
  <2>5. keys_in + text_in <= size => k + text_in <= size + 1
    BY <2>3
  <2> QED
    BY <1>2, <1>4, <2>1, <2>3, <2>4, <2>5
<1>7. CASE ShowText
  <2>1. /\ master' = master /\ client = "print" /\ client' = "command"
        /\ pipe'[1] = pipe[1]
    BY <1>1, <1>7 DEF ShowText, Contents
  <2>3. CASE master = "writing" /\ pipe[2] # <<>>
    <3>1. 2 \in client_open
      BY <2>3 DEF TermInv, Connected
    <3>2. pipe'[2] = Tail(pipe[2])
      BY <1>1, <1>7, <2>3, <3>1 DEF ShowText, Contents
    <3>3. Len(pipe'[2]) = Len(pipe[2]) - 1
      BY <1>1, <2>3, <3>2, HeadTailProperties
    <3>4. keys_in + text_in <= size \/ keys_in + text_in <= size + 1
      BY <1>2, <2>3 DEF RoomLeft
    <3>5. keys_in + (text_in - 1) <= size
      BY <3>4
    <3> QED
      BY <1>2, <1>3, <2>1, <3>3, <3>5
  <2>4. CASE pipe[2] = <<>>
    <3>1. pipe'[2] = <<>>
      BY <1>7, <2>4 DEF ShowText
    <3> QED
      BY <1>3, <3>1
  <2>5. CASE master # "writing"
    BY <1>3, <2>1, <2>5
  <2> QED
    BY <2>3, <2>4, <2>5
<1>8. CASE Getch
  <2>1. master' = master /\ pipe' = pipe /\ client = "getch"
    BY <1>8 DEF Getch
  <2> QED
    BY <1>3, <2>1 DEF RoomLeft
<1>9. CASE Command \/ OpenClient
  <2>1. /\ master' = master /\ client # "print" /\ client' # "print"
        /\ pipe'[1] = pipe[1] /\ pipe'[2] = pipe[2]
    BY <1>1, <1>9 DEF Command, OpenClient, Contents
  <2> QED
    BY <1>3, <2>1 DEF RoomLeft
<1>10. CASE UNCHANGED vars \/ Closed \/ Blocked
  BY <1>10 DEF vars, processes, Closed, Blocked, RoomLeft
<1>11. CASE Startup \/ Idle \/ RiseRead \/ ReadNothing \/ (\E c \in Char : Write(c)) \/ Fall
            \/ SetRead \/ ShutDown \/ Finish
  <2>1. master' # "writing"
    BY <1>11 DEF Startup, StartClient, MakePipe, OpenPipe, Welcome, Idle, RiseRead,
       ReadNothing, Write, Fall, SetRead, ShutDown, Finish, processes
  <2> QED
    BY <1>3, <2>1
<1> QED
  BY <1>5, <1>6, <1>7, <1>8, <1>9, <1>10, <1>11 DEF Next, ClientStep

\* A write finds room as long as the client waits for room itself.
WriteHasRoom == master = "writing" /\ KeysFull => Len(pipe[2]) < PipeSize

(* The two processes never wait for one another in their writes, whatever   *)
(* the capacity of the pipes: when the client waits for room for a key      *)
(* while the simulator writes, that write has room and the simulator, which *)
(* then goes on to its next tick, empties the pipe of the keys.             *)
THEOREM TerminalWrites == Spec => []WriteHasRoom
<1>1. Init => TermInv /\ RoomLeft
  <2>1. Init => RoomLeft
    BY DEF Init, RoomLeft
  <2> QED
    BY <2>1, TermInit
<1>2. TermInv /\ RoomLeft /\ [Next]_vars => TermInv' /\ RoomLeft'
  BY TermStep, RoomLeftStep
<1>3. TermInv /\ RoomLeft => WriteHasRoom
  <2> SUFFICES ASSUME TermInv, RoomLeft, master = "writing", KeysFull
               PROVE  Len(pipe[2]) < PipeSize
    BY DEF WriteHasRoom
  <2>1. /\ Len(pipe[1]) = PipeSize /\ client = "write"
        /\ Len(pipe[2]) \in Nat /\ PipeSize \in Nat \ {0} /\ Len(<<>>) = 0
    BY TerminalAssumption, LenProperties DEF KeysFull, TermInv, Contents
  <2>2. pipe[2] = <<>> \/ Len(pipe[1]) + Len(pipe[2]) <= PipeSize
    BY <2>1 DEF RoomLeft
  <2> QED
    BY <2>1, <2>2
<1> QED
  BY <1>1, <1>2, <1>3, PTL DEF Spec

-----------------------------------------------------------------------------
(* The flag, the pin and the buffer.                                       *)

\* What a step does to them.
LEMMA EngineStep ==
  ASSUME TermInv, PinTrue, [Next]_vars
  PROVE  /\ PinTrue'
         /\ Agree => Agree'
         /\ taken' # taken /\ buffer' = <<>> => Agree'
<1>1. /\ pipe[1] \in Seq(Char) /\ buffer \in Seq(Char) /\ waiting_flag \in BOOLEAN
      /\ out \in Pins /\ Receive \in Seq(Char) /\ Flag \in BOOLEAN /\ Pin \in Pins
  BY ReceiveType DEF TermInv, TypeOK, Contents
<1>2. Receive # <<>> <=> pipe[1] # <<>> \/ buffer # <<>>
  BY <1>1, ReverseEmpty DEF Receive
<1>3. Pin.waiting = (out.waiting \/ (~waiting_flag /\ pipe[1] # <<>>))
  BY <1>1 DEF Pin, Pins
<1>4. /\ Receive # <<>> => Flag
      /\ Pin.waiting => Receive # <<>>
  BY <1>2, <1>3 DEF Flag, PinTrue
<1>5. Agree => (Flag <=> Receive # <<>>) /\ (Pin.waiting <=> Receive # <<>>)
  BY <1>2, <1>3 DEF Flag, Agree
<1>6. ASSUME UpdateMagic, taken' = taken, master' # "undefined"
      PROVE  PinTrue' /\ (Agree => Agree')
  BY <1>4, <1>5, <1>6 DEF UpdateMagic, PinTrue, Agree
<1>7. ASSUME UNCHANGED <<buffer, waiting_flag, out, taken>>,
             master' = "undefined" => master = "undefined"
      PROVE  PinTrue' /\ (Agree => Agree') /\ taken' = taken
  BY <1>7 DEF PinTrue, Agree
<1>8. CASE Idle \/ Fall \/ RiseWrite
  <2>1. UpdateMagic /\ taken' = taken /\ master' # "undefined"
    BY <1>8 DEF Idle, Fall, RiseWrite, processes, keys
  <2> QED
    BY <1>6, <2>1
<1>9. CASE RiseRead
  <2>1. Read(Receive, Flag, Pin) /\ (Flag => Receive # <<>>) /\ master' # "undefined"
    BY <1>9 DEF RiseRead, processes
  <2>2. CASE Flag
    <3>1. /\ buffer' = Front(Receive) /\ waiting_flag' = (Len(Receive) > 1)
          /\ out' = [waiting |-> Pin.waiting /\ Len(Receive) > 1, data |-> Last(Receive)]
      BY <2>1, <2>2, Zenon DEF Read
    <3>2. out'.waiting = (Pin.waiting /\ Len(Receive) > 1)
      BY <3>1, Zenon
    <3>3. PICK b \in Seq(Char) : b = Receive /\ b # <<>>
      BY <1>1, <2>1, <2>2
    <3>4. Len(b) > 1 <=> Front(b) # <<>>
      <4>1. Front(b) \in Seq(Char) /\ Len(Front(b)) = Len(b) - 1
        BY <3>3, ReverseLast
      <4>2. Front(b) = <<>> <=> Len(Front(b)) = 0
        BY <4>1, EmptySeq
      <4>3. Len(b) \in Nat \ {0}
        BY <3>3, EmptySeq
      <4> QED
        BY <4>1, <4>2, <4>3
    <3>5. (waiting_flag' <=> buffer' # <<>>) /\ (out'.waiting <=> Pin.waiting /\ buffer' # <<>>)
      BY <3>1, <3>2, <3>3, <3>4
    <3>6. Agree => Pin.waiting
      BY <1>5, <2>1, <2>2
    <3> QED
      BY <2>1, <3>5, <3>6 DEF PinTrue, Agree
  <2>3. CASE ~Flag
    <3>1. /\ buffer' = Receive /\ waiting_flag' = Flag /\ taken' = taken
          /\ out' = [Pin EXCEPT !.data = Zero]
      BY <2>1, <2>3 DEF Read
    <3>2. out'.waiting = Pin.waiting
      BY <1>1, <3>1 DEF Pins
    <3> QED
      BY <1>4, <1>5, <2>1, <3>1, <3>2 DEF PinTrue, Agree
  <2> QED
    BY <2>2, <2>3
<1>10. CASE ReadNothing
  <2>1. buffer = <<>> /\ UNCHANGED <<buffer, waiting_flag, out, taken>>
    BY <1>2, <1>10 DEF ReadNothing, engine, keys
  <2> QED
    BY <2>1 DEF PinTrue, Agree
<1>11. CASE SetRead \/ (\E c \in Char : Write(c))
  <2>1. UNCHANGED <<buffer, waiting_flag, out, taken>> /\ master' # "undefined"
    BY <1>11 DEF SetRead, Write, processes, keys
  <2> QED
    BY <1>7, <2>1
<1>12. CASE Startup \/ ClientStep \/ ShutDown \/ Finish \/ UNCHANGED vars
  <2>1. /\ UNCHANGED <<buffer, waiting_flag, out, taken>>
        /\ master' = "undefined" => master = "undefined"
    BY <1>12 DEF Startup, ClientStep, StartClient, MakePipe, OpenPipe, Welcome, OpenClient,
       Getch, WriteKey, ShowText, Command, ShutDown, Finish, vars, processes, engine, keys
  <2> QED
    BY <1>7, <2>1
<1>13. (Idle \/ Fall \/ RiseWrite) => taken' = taken
  BY DEF Idle, Fall, RiseWrite, keys
<1> QED
  BY <1>8, <1>9, <1>10, <1>11, <1>12, <1>13 DEF Next, Closed, Blocked

(* Whatever value m_data_in_waiting_flag starts with, the pin is up only    *)
(* when a character waits, and a circuit that reads while it is up gets     *)
(* one; flag, pin and buffer agree for good once they do, and at the latest *)
(* when all that had come has been read.                                    *)
THEOREM TerminalWaitingRight == Spec => WaitingRight
<1>1. Init => TermInv /\ PinTrue
  <2>1. Init => PinTrue
    BY DEF Init, PinTrue
  <2> QED
    BY <2>1, TermInit
<1>2. TermInv /\ PinTrue /\ [Next]_vars => TermInv' /\ PinTrue'
  BY TermStep, EngineStep
<1>3. TermInv /\ PinTrue /\ [Next]_vars
        => [Agree \/ (taken' # taken /\ buffer' = <<>>) => Agree']_vars
  BY EngineStep
<1> QED
  BY <1>1, <1>2, <1>3, PTL DEF Spec, WaitingRight

(* With a flag that happens to start as FALSE, the flag, the pin            *)
(* data_waiting and the buffer agree at all times.                          *)
THEOREM TerminalFlagDown == Spec /\ ~waiting_flag => []Agree
<1>1. Init /\ ~waiting_flag => TermInv /\ PinTrue /\ Agree
  <2>1. Init /\ ~waiting_flag => PinTrue /\ Agree
    BY DEF Init, PinTrue, Agree
  <2> QED
    BY <2>1, TermInit
<1>2. TermInv /\ PinTrue /\ Agree /\ [Next]_vars => TermInv' /\ PinTrue' /\ Agree'
  BY TermStep, EngineStep
<1> QED
  BY <1>1, <1>2, PTL DEF Spec

=============================================================================
