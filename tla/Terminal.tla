------------------------------ MODULE Terminal ------------------------------
(***************************************************************************)
(* The SimpleTerminal, a magic Device, and its client: two processes that  *)
(* start one another, open three named pipes, exchange characters, and end *)
(* together.  The simulator is seen from the Terminal: a tick of the run   *)
(* updates the magic engine and may set the pin clk, and in between other  *)
(* pins are set.                                                           *)
(***************************************************************************)
EXTENDS Naturals, Sequences, SequencesExt

CONSTANTS
  Char,
  Zero,      \* the character with no bit set
  PipeSize,  \* capacity of a pipe
  MaxKeys,   \* bound: keys typed
  MaxText    \* bound: characters sent to the client

Pipe == <<"keys", "text", "commands">>   \* in the order in which both sides open them

ASSUME TerminalAssumption ==
  /\ Zero \in Char /\ PipeSize \in Nat \ {0}
  /\ MaxKeys \in Nat /\ MaxText \in Nat

VARIABLES
  master, client,     \* where the two processes are
  made,               \* how many of the pipes are in the file system
  master_open,        \* how many the simulator has opened
  client_open,        \* those that the client has opened
  tried,              \* how many it has tried to open
  pipe,               \* what is in each pipe
  key,                \* the key that the client is about to pass on
  buffer,             \* m_data_in_char_buffer, the newest character first
  waiting_flag,       \* m_data_in_waiting_flag
  clk, read,          \* in pins
  out,                \* out pins: data_waiting and d_out
  typed, taken,       \* observers: keys typed, and characters read by the circuit
  sent, shown         \* observers: characters sent to the client, and on its screen

processes == <<master, client, made, master_open, client_open, tried>>
engine == <<buffer, waiting_flag, clk, read, out>>
keys == <<key, typed, taken>>
text == <<sent, shown>>
vars == <<processes, pipe, engine, keys, text>>

Pins == [waiting : BOOLEAN, data : Char]

TypeOK ==
  /\ master \in {"fork", "mkfifo", "open", "running", "writing", "ending", "closed",
                "undefined"}
  /\ client \in {"none", "open", "getch", "write", "print", "command", "done"}
  /\ made \in 0 .. 3 /\ master_open \in 0 .. 3
  /\ client_open \in SUBSET (1 .. 3) /\ tried \in 0 .. 3
  /\ \A i \in 1 .. 3 : pipe[i] \in Seq(Char \cup {"end"}) /\ Len(pipe[i]) <= PipeSize
  /\ key \in Char /\ buffer \in Seq(Char) /\ waiting_flag \in BOOLEAN
  /\ clk \in BOOLEAN /\ read \in BOOLEAN /\ out \in Pins
  /\ \A s \in {typed, taken, sent, shown} : s \in Seq(Char)

-----------------------------------------------------------------------------
(* Starting.                                                               *)

\* StartClient: fork, and xterm with the client in the child.
StartClient ==
  /\ master = "fork" /\ master' = "mkfifo" /\ client' = "open"
  /\ UNCHANGED <<made, master_open, client_open, tried, pipe, engine, keys, text>>

\* ConfigureFIFO, one pipe after the other.
MakePipe ==
  /\ master = "mkfifo" /\ made' = made + 1
  /\ master' = IF made' = 3 THEN "open" ELSE "mkfifo"
  /\ UNCHANGED <<client, master_open, client_open, tried, pipe, engine, keys, text>>

\* The simulator reads the first pipe without blocking; to open one of the others
\* for writing it waits for a reader.
OpenPipe ==
  /\ master = "open" /\ master_open < 3
  /\ master_open > 0 => master_open + 1 \in client_open
  /\ master_open' = master_open + 1
  /\ UNCHANGED <<master, client, made, client_open, tried, pipe, engine, keys, text>>

\* The welcome message, as one character.
Welcome ==
  /\ master = "open" /\ master_open = 3 /\ master' = "running"
  /\ \E c \in Char \ {Zero} :
       pipe' = [pipe EXCEPT ![2] = Append(@, c)] /\ sent' = Append(sent, c)
  /\ UNCHANGED <<client, made, master_open, client_open, tried, engine, keys, shown>>

\* Mutant: the client does not open the pipe of the commands.
MutantOpenClient ==
  /\ client = "open"
  /\ tried' = tried + 1
  /\ tried = 0 => master_open > 0
  /\ client_open' = client_open \cup {tried + 1}
  /\ client' = IF tried + 1 = 2 THEN "getch" ELSE "open"
  /\ UNCHANGED <<master, made, master_open, pipe, engine, keys, text>>

\* The client opens its ends: for writing it waits for a reader; what does not exist
\* yet cannot be opened, and the client, that the simulator forks before it makes the
\* pipes, goes on without.
OpenClient ==
  /\ client = "open"
  /\ tried' = tried + 1
  /\ IF tried + 1 <= made
     THEN /\ tried = 0 => master_open > 0
          /\ client_open' = client_open \cup {tried + 1}
     ELSE UNCHANGED client_open
  /\ client' = IF tried + 1 = 3 THEN "getch" ELSE "open"
  /\ UNCHANGED <<master, made, master_open, pipe, engine, keys, text>>

\* The pipes that the client has tried to open too early.
Missed == (1 .. tried) \ client_open

-----------------------------------------------------------------------------
(* The loop of the client.                                                 *)

\* getch returns a key, or nothing within five milliseconds.
Getch ==
  /\ client = "getch"
  /\ \/ client' = "print" /\ UNCHANGED <<key, typed>>
     \/ /\ Len(typed) < MaxKeys /\ client' = "write"
        /\ \E c \in Char : key' = c /\ typed' = Append(typed, c)
  /\ UNCHANGED <<master, made, master_open, client_open, tried, pipe, engine, taken, text>>

\* Mutant: no character is taken in the round in which a key is passed on.
MutantWriteKey ==
  /\ client = "write" /\ client' = "command"
  /\ IF 1 \in client_open
     THEN Len(pipe[1]) < PipeSize /\ pipe' = [pipe EXCEPT ![1] = Append(@, key)]
     ELSE UNCHANGED pipe
  /\ UNCHANGED <<master, made, master_open, client_open, tried, engine, keys, text>>

\* The key is written to its pipe, which has to have room.
WriteKey ==
  /\ client = "write" /\ client' = "print"
  /\ IF 1 \in client_open
     THEN Len(pipe[1]) < PipeSize /\ pipe' = [pipe EXCEPT ![1] = Append(@, key)]
     ELSE UNCHANGED pipe
  /\ UNCHANGED <<master, made, master_open, client_open, tried, engine, keys, text>>

\* At most one character is read and printed.
ShowText ==
  /\ client = "print" /\ client' = "command"
  /\ IF 2 \in client_open /\ pipe[2] # <<>>
     THEN pipe' = [pipe EXCEPT ![2] = Tail(@)] /\ shown' = Append(shown, Head(pipe[2]))
     ELSE UNCHANGED <<pipe, shown>>
  /\ UNCHANGED <<master, made, master_open, client_open, tried, engine, keys, sent>>

\* The command that ends the client.
Command ==
  /\ client = "command"
  /\ IF 3 \in client_open /\ pipe[3] # <<>>
     THEN client' = "done" /\ pipe' = [pipe EXCEPT ![3] = Tail(@)]
     ELSE client' = "getch" /\ UNCHANGED pipe
  /\ UNCHANGED <<master, made, master_open, client_open, tried, engine, keys, text>>

-----------------------------------------------------------------------------
(* The magic engine, while the simulator runs.                             *)

\* Mutant: the pipe is read into the buffer newest character last.
MutantReceive == buffer \o pipe[1]

\* What the buffer holds once UpdateMagic has emptied the pipe into it.
Receive == Reverse(pipe[1]) \o buffer

\* UpdateMagic raises the flag, and the pin, when a character has come.
Flag == waiting_flag \/ pipe[1] # <<>>
Pin == [out EXCEPT !.waiting = @ \/ (~waiting_flag /\ pipe[1] # <<>>)]

\* Mutant: the flag stays up when the buffer has been emptied.
MutantRead(b, waiting, pins) ==
  IF waiting /\ b # <<>>
  THEN /\ buffer' = Front(b) /\ taken' = Append(taken, Last(b))
       /\ waiting_flag' = waiting
       /\ out' = [waiting |-> Len(b) > 1, data |-> Last(b)]
  ELSE /\ buffer' = b /\ waiting_flag' = waiting /\ out' = [pins EXCEPT !.data = Zero]
       /\ UNCHANGED taken

\* InvokeMagic(0): the least recent character goes to the data pins, and flag and pin
\* are taken back with the last one.  With nothing waiting the pins show zero.
Read(b, waiting, pins) ==
  IF waiting /\ b # <<>>
  THEN /\ buffer' = Front(b) /\ taken' = Append(taken, Last(b))
       /\ waiting_flag' = (Len(b) > 1)
       /\ out' = [waiting |-> pins.waiting /\ Len(b) > 1, data |-> Last(b)]
  ELSE /\ buffer' = b /\ waiting_flag' = waiting /\ out' = [pins EXCEPT !.data = Zero]
       /\ UNCHANGED taken

\* What every tick begins with.
UpdateMagic ==
  /\ buffer' = Receive /\ waiting_flag' = Flag /\ out' = Pin
  /\ pipe' = [pipe EXCEPT ![1] = <<>>]

\* A tick in which clk stays as it is: only UpdateMagic.  No in pin has changed, so the
\* Device is not solved, and its parent is told of its out pins only when one has.
Idle ==
  /\ master = "running" /\ UpdateMagic
  /\ UNCHANGED <<processes, clk, read, keys, text>>

\* A tick in which clk rises while "read" is up: the event trap on clk fires before the
\* pin changes, and the Device is solved after it has.
RiseRead ==
  /\ master = "running" /\ ~clk /\ read /\ (Flag => Receive # <<>>)
  /\ clk' = TRUE /\ Read(Receive, Flag, Pin) /\ pipe' = [pipe EXCEPT ![1] = <<>>]
  /\ UNCHANGED <<processes, read, key, typed, text>>

\* The same with the flag up and no character to read: back() and pop_back() of an empty
\* deque have no defined outcome, and nothing is said of what follows.
ReadNothing ==
  /\ master = "running" /\ ~clk /\ read /\ Flag /\ Receive = <<>>
  /\ master' = "undefined"
  /\ UNCHANGED <<client, made, master_open, client_open, tried, pipe, engine, keys, text>>

\* A tick in which clk rises while "read" is down: InvokeMagic(1) writes to the client,
\* once UpdateMagic has been called.  The pin "write" is in no trap.
RiseWrite ==
  /\ master = "running" /\ ~clk /\ ~read /\ Len(sent) < MaxText
  /\ master' = "writing" /\ UpdateMagic
  /\ UNCHANGED <<client, made, master_open, client_open, tried, clk, read, keys, text>>

\* The character at the pins d_in goes to the client, as soon as its pipe has room.
Write(c) ==
  /\ master = "writing" /\ Len(pipe[2]) < PipeSize
  /\ pipe' = [pipe EXCEPT ![2] = Append(@, c)] /\ sent' = Append(sent, c)
  /\ master' = "running" /\ clk' = TRUE
  /\ UNCHANGED <<client, made, master_open, client_open, tried>>
  /\ UNCHANGED <<buffer, waiting_flag, read, out, keys, shown>>

\* A tick in which clk falls.
Fall ==
  /\ master = "running" /\ clk /\ clk' = FALSE /\ UpdateMagic
  /\ UNCHANGED <<processes, read, keys, text>>

\* Another in pin changes.
SetRead ==
  /\ master = "running" /\ read' = ~read
  /\ UNCHANGED <<processes, pipe, keys, text, buffer, waiting_flag, clk, out>>

-----------------------------------------------------------------------------
(* The end.                                                                *)

\* ShutDownMagic, called by the destructor of the magic engine ...
ShutDown ==
  /\ master = "running" /\ master' = "ending"
  /\ pipe' = [pipe EXCEPT ![3] = Append(@, "end")]
  /\ UNCHANGED <<client, made, master_open, client_open, tried, engine, keys, text>>

\* ... and Finish, which waits for the client and removes the pipes.
Finish ==
  /\ master = "ending" /\ client = "done" /\ master' = "closed" /\ made' = 0
  /\ UNCHANGED <<client, master_open, client_open, tried, pipe, engine, keys, text>>

Closed == master \in {"closed", "undefined"} /\ UNCHANGED vars

\* The client waits in write() for room in the pipe of the keys, which the simulator
\* empties only when it ticks.
KeysFull == client = "write" /\ 1 \in client_open /\ Len(pipe[1]) = PipeSize

\* Where the client may be left, when the simulator ticks no more.
Blocked == KeysFull /\ UNCHANGED vars

-----------------------------------------------------------------------------
\* No constructor sets m_data_in_waiting_flag: it may start as either.
Init ==
  /\ master = "fork" /\ client = "none"
  /\ made = 0 /\ master_open = 0 /\ client_open = {} /\ tried = 0
  /\ pipe = [i \in 1 .. 3 |-> <<>>] /\ key = Zero
  /\ buffer = <<>> /\ waiting_flag \in BOOLEAN
  /\ clk = FALSE /\ read = FALSE
  /\ out = [waiting |-> FALSE, data |-> Zero]
  /\ typed = <<>> /\ taken = <<>> /\ sent = <<>> /\ shown = <<>>

ClientStep == OpenClient \/ Getch \/ WriteKey \/ ShowText \/ Command
Startup == StartClient \/ MakePipe \/ OpenPipe \/ Welcome

Next ==
  \/ Startup \/ ClientStep
  \/ Idle \/ RiseRead \/ ReadNothing \/ RiseWrite \/ (\E c \in Char : Write(c)) \/ Fall
  \/ SetRead \/ ShutDown \/ Finish \/ Closed \/ Blocked

Spec == Init /\ [][Next]_vars

\* Either process goes on when it can; nothing makes the circuit tick or the simulator
\* end.
FairSpec ==
  /\ Spec
  /\ WF_vars(Startup) /\ WF_vars(ClientStep)
  /\ WF_vars(\E c \in Char : Write(c)) /\ WF_vars(Finish)

-----------------------------------------------------------------------------
\* The keys that have left the client and are not lost: those the circuit has read, and
\* those in the buffer and in the pipe.
Passed == taken \o Reverse(buffer) \o pipe[1]

\* The keys passed on are those typed but for the one in the hands of the client; those
\* of a client that came before its pipe are lost, one and all.
KeysInOrder ==
  IF 1 \in Missed
  THEN Passed = <<>>
  ELSE typed = Passed \o (IF client = "write" THEN <<key>> ELSE <<>>)

\* The characters written, the welcome included, are those on the screen and, after
\* them, those in the pipe.
TextInOrder == sent = shown \o pipe[2]

(* No character is lost, doubled or overtaken: neither a key on its way     *)
(* from the keyboard through the pipe and the buffer, which is kept back to *)
(* front, to the data pins, nor what InvokeMagic writes to the client.  The *)
(* one exception is a client that was there before the pipe of the keys:    *)
(* no key of it ever arrives.                                               *)
CharactersInOrder == KeysInOrder /\ TextInOrder

\* The flag, the pin and the buffer tell the same.
Agree == (waiting_flag <=> buffer # <<>>) /\ (out.waiting <=> buffer # <<>>)

\* A circuit that reads while the pin is up gets a character: it never comes to the read
\* of an empty buffer.
PinTrue ==
  /\ buffer # <<>> => waiting_flag
  /\ out.waiting => buffer # <<>> /\ master # "undefined"

(* m_data_in_waiting_flag, the pin data_waiting and the buffer, set apart   *)
(* in UpdateMagic and InvokeMagic.  Whatever the flag starts as, the pin is *)
(* up only when a character waits; once the three agree they always do, and *)
(* they do so at the latest when the circuit has read all that had come.    *)
WaitingRight ==
  /\ []PinTrue
  /\ [][Agree \/ (taken' # taken /\ buffer' = <<>>) => Agree']_vars

(* The two processes, that both wait for one another in open(), get through *)
(* the start, but for the simulator when the client has come too early for  *)
(* a pipe that the simulator opens for writing.                             *)
StartupEnds ==
  <>(/\ client \notin {"none", "open"}
     /\ master = "running" \/ Missed \cap {2, 3} # {})

(* A write to the client always comes back, even when its pipe is full and  *)
(* the client has more keys to pass on than their pipe has room for: it     *)
(* takes a character for every key.  The destructor of the magic engine,    *)
(* that waits for the client without reading its keys, comes back unless    *)
(* the client waits in turn for room for a key.                             *)
SimulatorGoesOn ==
  /\ master = "writing" ~> master = "running"
  /\ master = "ending" ~> master = "closed" \/ KeysFull
=============================================================================
