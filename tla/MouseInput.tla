----------------------------- MODULE MouseInput -----------------------------
(***************************************************************************)
(* The path of the mouse from LoWeExposer's window to the program: the     *)
(* window's mouse events (FrameBufferExposer), the queue and the server    *)
(* thread of MiceHandler, which merges states, and the read of /dev/input/ *)
(* evmice that the agent answers with the differences to the last state    *)
(* (DeviceHandlerEvMice).  X and Y are treated alike: x stands for both.   *)
(***************************************************************************)
EXTENDS ExposerLink, DeviceIoctls, Integers, SequencesExt

CONSTANTS
  Place,       \* where the user moves the mouse
  Start,       \* where a new handler takes the pointer to be (640)
  Jump,        \* moves at least this long are not merged (300)
  Delta,       \* what a turn of the wheel yields
  Captures,    \* bound: how often the mouse is captured or released
  QueueBound,  \* bound: the user waits while the queue is this long
  Events,      \* bound: mouse events
  Garbage      \* bound: what an uninitialised response may hold

Button == {"left", "right"}
Sign(d) == IF d < 0 THEN -1 ELSE IF d > 0 THEN 1 ELSE 0

X == Place \cup {0}
State == [buttons : SUBSET Button, x : X, wheel : Delta \cup {0}]
Answer == [buttons : SUBSET Button, x : X, wheel : -1..1]

ASSUME MouseAssumption ==
  /\ Place \subseteq Nat /\ Start \in Nat
  /\ Jump \in Nat \ {0}
  /\ Delta \subseteq Int \ {0}
  /\ Garbage \subseteq Answer
  /\ {Captures, QueueBound, Events} \subseteq Nat
  /\ None \notin Client \cup State /\ Client # {}

VARIABLES
  \* The user and the window.
  held,         \* the buttons the user holds down
  captured,     \* _mouseCaptured
  mice,         \* _miceState
  captures, events,
  \* MiceHandler.
  states,       \* _states
  lastRead,     \* _lastReadState, or None
  initialized,  \* isInitialized of the connection served
  \* The agent and the program.
  enabled,      \* enabled[c]: _isEnabled of handler c
  reader,       \* the handler whose read the agent is answering, or None
  last,         \* last[c]: _lastLeftButton, _lastRightButton, _lastX and _lastY
  returned,     \* the types and codes of the events the last read returned
  asked         \* in the step after an ioctl that asks what a device is: its handler,
                \* itself and what the program was told

windowVars == <<held, captured, mice, captures, events>>
queueVars  == <<states, lastRead>>
agentVars  == <<enabled, reader, last, returned>>
vars == <<linkVars, windowVars, queueVars, initialized, agentVars, asked>>

Nothing == <<None, None, None>>

TypeOK ==
  /\ LinkTypeOK({"INIT", "READ"}, Answer)
  /\ held \subseteq Button /\ captured \in BOOLEAN
  /\ mice \in State /\ mice.wheel = 0
  /\ captures \in 0..Captures /\ events \in 0..Events
  /\ states \in Seq(State) /\ Len(states) <= QueueBound
  /\ lastRead \in State \cup {None}
  /\ initialized \in BOOLEAN
  /\ enabled \in [Client -> BOOLEAN] /\ reader \in Client \cup {None}
  /\ last \in [Client -> [buttons : SUBSET Button, x : X \cup {Start}]]
  /\ returned \subseteq MiceDeclared \cup {<<"EV_SYN", "SYN_REPORT">>}
  /\ asked[1] \in Handler \cup {None}

Init ==
  /\ LinkInit
  /\ held = {} /\ captured = FALSE
  /\ mice = [buttons |-> {}, x |-> 0, wheel |-> 0]
  /\ captures = 0 /\ events = 0
  /\ states = <<>> /\ lastRead = None
  /\ initialized = FALSE
  /\ enabled = [c \in Client |-> FALSE] /\ reader = None
  /\ last = [c \in Client |-> [buttons |-> {}, x |-> Start]]
  /\ returned = {} /\ asked = Nothing
-----------------------------------------------------------------------------
(* The window's thread.  A button event that is not queued changes nothing *)
(* but the button.                                                         *)

UserActs ==
  /\ events < Events /\ Len(states) < QueueBound
  /\ events' = events + 1
  /\ UNCHANGED lastRead

\* EnqueueMouseState, with the state as it was changed.
Enqueue(state) == states' = Append(states, state)

ButtonEvent(buttons) ==
  /\ IF captured
       THEN mice' = [mice EXCEPT !.buttons = buttons] /\ Enqueue(mice')
       ELSE UNCHANGED <<mice, states>>
  /\ UNCHANGED <<captured, captures>>

ButtonDown(b) ==
  /\ UserActs /\ b \notin held
  /\ held' = held \cup {b}
  /\ ButtonEvent(mice.buttons \cup {b})

ButtonUp(b) ==
  /\ UserActs /\ b \in held
  /\ held' = held \ {b}
  /\ ButtonEvent(mice.buttons \ {b})

\* The left button goes up with LeftCtrl and LeftAlt held: the event itself is
\* not queued, and capturing starts with all buttons up and an empty queue.
ToggleCapture ==
  /\ UserActs /\ "left" \in held
  /\ captures < Captures /\ captures' = captures + 1
  /\ held' = held \ {"left"}
  /\ captured' = ~captured
  /\ IF captured' THEN mice' = [mice EXCEPT !.buttons = {}] /\ states' = <<>>
                  ELSE UNCHANGED <<mice, states>>

Move ==
  /\ UserActs /\ captured
  /\ \E x \in Place \ {mice.x} : mice' = [mice EXCEPT !.x = x]
  /\ Enqueue(mice')
  /\ UNCHANGED <<held, captured, captures>>

Wheel ==
  /\ UserActs /\ captured
  /\ \E d \in Delta : Enqueue([mice EXCEPT !.wheel = d])
  /\ UNCHANGED <<held, captured, captures, mice>>

Window ==
  /\ (\E b \in Button : ButtonDown(b) \/ ButtonUp(b)) \/ ToggleCapture \/ Move \/ Wheel
  /\ UNCHANGED <<linkVars, initialized, agentVars>> /\ asked' = Nothing
-----------------------------------------------------------------------------
(* MiceHandler's server thread.                                            *)

AcceptClient ==
  /\ Accept
  /\ initialized' = FALSE
  /\ UNCHANGED queueVars

PreemptClient == Preempt /\ UNCHANGED <<queueVars, initialized>>

ReadInit ==
  /\ KeepServing /\ Incoming("INIT")
  /\ Take
  /\ initialized' = TRUE
  /\ UNCHANGED <<alive, opened, backlog, served, cut, reset, answer, queueVars>>

\* Mutant: the right button does not keep two states apart.
JoinsIgnoringRight(state, first) ==
  /\ state.wheel = first.wheel
  /\ "left" \in state.buttons <=> "left" \in first.buttons
  /\ state.x - lastRead.x \in -(Jump - 1)..(Jump - 1)

\* A state that replaces the one before it: a move, within Jump of the last state
\* that was read.
Joins(state, first) ==
  /\ state.wheel = first.wheel
  /\ state.buttons = first.buttons
  /\ state.x - lastRead.x \in -(Jump - 1)..(Jump - 1)

\* How many states one READ takes off the queue.
Merged ==
  IF lastRead = None THEN 1
  ELSE CHOOSE n \in 1..Len(states) :
         /\ \A i \in 2..n : Joins(states[i], states[1])
         /\ n < Len(states) => ~Joins(states[n + 1], states[1])

\* Mutant: the last state merged stays in the queue and so is read for ever.
ReadKeepsLast ==
  /\ Reply([states[Merged] EXCEPT !.wheel = Sign(@)])
  /\ lastRead' = states[Merged]
  /\ states' = SubSeq(states, Merged, Len(states))

ReadQueue ==
  /\ Reply([states[Merged] EXCEPT !.wheel = Sign(@)])
  /\ lastRead' = states[Merged]
  /\ states' = SubSeq(states, Merged + 1, Len(states))

\* Nothing happened: the last state again, or the zeros of a new buffer.
ReadIdle ==
  /\ Reply(IF lastRead = None THEN [buttons |-> {}, x |-> 0, wheel |-> 0]
                              ELSE [lastRead EXCEPT !.wheel = 0])
  /\ UNCHANGED queueVars

ReadRead ==
  /\ KeepServing /\ Incoming("READ")
  /\ IF ~initialized
       THEN Hangup /\ UNCHANGED queueVars
       ELSE /\ Take
            /\ IF states = <<>> THEN ReadIdle ELSE ReadQueue
            /\ UNCHANGED <<alive, opened, backlog, served, cut, reset>>
  /\ UNCHANGED initialized

Server ==
  /\ AcceptClient \/ PreemptClient \/ ReadInit \/ ReadRead
  /\ UNCHANGED <<windowVars, agentVars>> /\ asked' = Nothing
-----------------------------------------------------------------------------
(* The agent, which answers one system call at a time.                     *)

\* TCFLSH: connect and say INIT, unless the connection fails.
Enable(c) ==
  /\ alive /\ reader = None
  /\ Open(c)
  /\ Post(c, <<"INIT">>)
  /\ enabled' = [enabled EXCEPT ![c] = TRUE]
  /\ Len(sent'[c]) <= 1  \* bound: INITs the server has not read
  /\ UNCHANGED <<alive, served, cut, answer, reader, last, returned>>

EnableFails(c) ==
  /\ alive /\ reader = None
  /\ OpenFails(c)
  /\ enabled' = [enabled EXCEPT ![c] = FALSE]
  /\ UNCHANGED <<reader, last, returned>>

\* A read more than 100 milliseconds after the last one that asked the server.
BeginRead(c) ==
  /\ alive /\ reader = None /\ enabled[c]
  /\ Post(c, <<"READ">>)
  /\ reader' = c /\ returned' = {}
  /\ UNCHANGED <<alive, opened, backlog, served, cut, answer, enabled, last>>

\* One event for each button that changed, for each axis that did (x stands for
\* both) and for the wheel, and a SYN_REPORT after them.
Deliver(resp) ==
  /\ \E axes \in IF resp.x = last[reader].x THEN {{}} ELSE SUBSET {"ABS_X", "ABS_Y"} \ {{}} :
       LET buttons == (resp.buttons \ last[reader].buttons)
                        \cup (last[reader].buttons \ resp.buttons)
           news    == {<<"EV_KEY", IF b = "left" THEN "BTN_LEFT" ELSE "BTN_RIGHT">> : b \in buttons}
                        \cup {<<"EV_ABS", a>> : a \in axes}
                        \cup (IF resp.wheel = 0 THEN {} ELSE {<<"EV_REL", "REL_WHEEL">>})
       IN  returned' = IF news = {} THEN {} ELSE news \cup {<<"EV_SYN", "SYN_REPORT">>}
  /\ last' = [last EXCEPT ![reader] = [buttons |-> resp.buttons, x |-> resp.x]]
  /\ reader' = None
  /\ UNCHANGED enabled

Receive ==
  /\ alive /\ reader # None /\ answer[reader] # <<>>
  /\ Deliver(Head(answer[reader]))
  /\ answer' = [answer EXCEPT ![reader] = Tail(@)]
  /\ UNCHANGED <<alive, opened, backlog, served, cut, reset, sent>>

\* The connection is gone: resp is uninitialised.
ReceiveFails ==
  /\ alive /\ reader \in cut /\ answer[reader] = <<>>
  /\ \E resp \in Garbage : Deliver(resp)
  /\ UNCHANGED linkVars

Killed ==
  /\ \E c \in Client : (IF reader = None THEN enabled[c] ELSE reader = c) /\ SigPipe(c)
  /\ UNCHANGED agentVars

Reading == Receive \/ ReceiveFails \/ Killed

Agent ==
  /\ (\E c \in Client : Enable(c) \/ EnableFails(c) \/ BeginRead(c)) \/ Reading
  /\ UNCHANGED <<windowVars, queueVars, initialized>> /\ asked' = Nothing

\* A program asks what its devices are (bound: at first).
Identify ==
  /\ alive /\ reader = None
  /\ events = 0 /\ \A c \in Client : ~enabled[c]
  /\ \E h \in Handler : \E op \in Ioctl(h) \ {"TCFLSH"} :
       asked' = <<h, op, Result(h, op)>>
  /\ UNCHANGED <<linkVars, windowVars, queueVars, initialized, agentVars>>

Next == Window \/ Server \/ Agent \/ Identify

Spec == Init /\ [][Next]_vars

\* The server goes on with what it was sent, the agent with the read it answers,
\* and a program that enabled its mouse goes on reading it.
FairSpec ==
  /\ Spec
  /\ WF_vars(Server)
  /\ WF_vars(Agent /\ Reading)
  /\ \A c \in Client : SF_vars(Agent /\ BeginRead(c))
-----------------------------------------------------------------------------
(* Properties.                                                             *)

\* Those buttons of a line that differ from the ones before them, at first from start.
Changes(start, line) ==
  FlattenSeq([i \in DOMAIN line |->
                IF line[i] = (IF i = 1 THEN start ELSE line[i - 1]) THEN <<>> ELSE <<line[i]>>])

\* The changes of the buttons on their way to the first program.
First == CHOOSE c \in Client : TRUE
Buttons(list) == [i \in DOMAIN list |-> list[i].buttons]
ButtonsOnTheWay == Changes(last[First].buttons, Buttons(answer[First]) \o Buttons(states))

\* No click is lost, doubled or reordered by the queue, the merging of states, the
\* differences the agent takes and the states it is told twice (see Clicks).
ImplementsClicks ==
  INSTANCE Clicks WITH
    down <- mice.buttons, pending <- ButtonsOnTheWay, seen <- last[First].buttons,
    taken <- \E c \in Client \ {First} : opened[c]
ClicksSpec == ImplementsClicks!Spec

\* What a program reads is a complete group of events of the types and codes the
\* device says it has, as programs that ask first expect; SYN_REPORT is never told,
\* though every device has it.  This goes for both event devices: a key is the low
\* seven bits of a byte.
EventsDeclared ==
  /\ returned # {} =>
       LET codes == returned \ {<<"EV_SYN", "SYN_REPORT">>}
       IN  codes # {} /\ codes # returned /\ codes \subseteq MiceDeclared
  /\ KbdEvents \subseteq KbdDeclared

\* The two lists agree: an ioctl named in either is answered, none of the entry's is
\* forgotten at the exit, where it would end as one the device does not have, and
\* none of the exit's was executed by the kernel.  Of what is in neither list this
\* says nothing: three of the handlers suppress that too and leave ENOSYS.
IoctlsAnswered ==
  LET h == asked[1] IN
  h # None => \/ asked[2] \notin Named[h] \cup Answered[h]
              \/ asked[3] = "answered"

\* When the user stops, the queue empties and every program whose connection was
\* not cut ends with the last state that was read.
CatchesUp ==
  \A c \in Client :
    <>[](~alive \/ c \in cut \/ ~enabled[c] \/
         /\ states = <<>>
         /\ lastRead # None => last[c] = [buttons |-> lastRead.buttons, x |-> lastRead.x])

\* When the mouse is released and nothing is on its way any more, the program
\* takes no button for down.
ReleaseLetsGo ==
  \A c \in Client :
    captured \/ states # <<>> \/ answer[c] # <<>> \/ last[c].buttons = {}
=============================================================================
