------------------------------ MODULE KbdInput ------------------------------
(***************************************************************************)
(* The path of a key from LoWeExposer's window to the program: the window's *)
(* key events and the paste of the clipboard (FrameBufferExposer), the      *)
(* queue and the server thread of KbdHandler, and the read of /dev/input/   *)
(* evkbd that the agent answers (DeviceHandlerEvKeyboard, EvdevDevice-      *)
(* Handler).  The window's thread, the server thread and the agent run      *)
(* concurrently; a lock makes each access to the queue one step.            *)
(***************************************************************************)
EXTENDS ExposerLink

CONSTANTS
  Key,         \* key codes
  Typed,       \* the keys the user has
  Texts,       \* what the clipboard may hold: sequences of key events
  ReadItems,   \* the events that fit into the program's read buffer (at most 99)
  PasteLimit,  \* the queue length a paste waits for (20)
  PasteTries,  \* how many times it waits (200)
  TypeAhead,   \* bound: the user does not type while the queue is this long
  Garbage      \* bound: the items an uninitialised answer may hold

Item == [key : Key, down : BOOLEAN]

ASSUME KbdAssumption ==
  /\ Typed \subseteq Key
  /\ Texts \subseteq Seq(Item) \ {<<>>}
  /\ ReadItems \in 1..99
  /\ PasteLimit \in Nat /\ PasteTries \in Nat /\ TypeAhead \in Nat
  /\ Garbage \subseteq Seq(Item)
  /\ None \notin Client \cup Item

VARIABLES
  \* The user and the window.
  focus,        \* the window has the keyboard focus
  captured,     \* _mouseCaptured
  held,         \* the keys the user holds down
  pressed,      \* the keys whose last event at the window was a key down
  pasting,      \* the key events still to paste
  tryCount,
  \* KbdHandler.
  keyData,      \* _keyData
  lastItem,     \* _lastItem, None for the 0xff no key has
  initialized,  \* isInitialized of the connection served
  awaiting,     \* the server has read READ and waits for the length
  \* The agent and the program.
  enabled,      \* enabled[c]: _isEnabled of handler c
  reader,       \* the handler whose read the agent is answering, or None
  lengthSent,   \* that read has sent its length
  view          \* view[c]: the keys the program reading c takes for down

windowVars == <<focus, captured, held, pressed, pasting, tryCount>>
serverVars == <<initialized, awaiting>>
agentVars  == <<enabled, reader, lengthSent, view>>
vars == <<linkVars, windowVars, keyData, lastItem, serverVars, agentVars>>

Message == [op : {"INIT", "READ"}] \cup [len : 1..99]
QueueBound == IF TypeAhead > PasteLimit THEN TypeAhead ELSE PasteLimit + 1

TypeOK ==
  /\ LinkTypeOK(Message, Seq(Item))
  /\ focus \in BOOLEAN /\ captured \in BOOLEAN
  /\ held \subseteq Typed /\ pressed \subseteq Key
  /\ pasting \in Seq(Item) /\ tryCount \in 0..PasteTries
  /\ keyData \in Seq(Item) /\ Len(keyData) <= QueueBound
  /\ lastItem \in Item \cup {None}
  /\ initialized \in BOOLEAN /\ awaiting \in BOOLEAN
  /\ enabled \in [Client -> BOOLEAN]
  /\ reader \in Client \cup {None} /\ lengthSent \in BOOLEAN
  /\ view \in [Client -> SUBSET Key]

Init ==
  /\ LinkInit
  /\ focus = TRUE /\ captured = FALSE
  /\ held = {} /\ pressed = {}
  /\ pasting = <<>> /\ tryCount = 0
  /\ keyData = <<>> /\ lastItem = None
  /\ initialized = FALSE /\ awaiting = FALSE
  /\ enabled = [c \in Client |-> FALSE]
  /\ reader = None /\ lengthSent = FALSE
  /\ view = [c \in Client |-> {}]
-----------------------------------------------------------------------------
(* The window's thread.                                                    *)

\* Mutant: drops any second event of a key in a row.
EnqueueItemByKey(item) ==
  /\ keyData' = IF lastItem # None /\ lastItem.key = item.key
                  THEN keyData ELSE Append(keyData, item)
  /\ lastItem' = item

\* A repetition of the last item is not queued.
EnqueueItem(item) ==
  /\ keyData' = IF lastItem = item THEN keyData ELSE Append(keyData, item)
  /\ lastItem' = item

\* What the event does to the keys that are down.
Apply(item, keys) == IF item.down THEN keys \cup {item.key} ELSE keys \ {item.key}

\* The window gets a key event.
KeyEvent(item) ==
  /\ EnqueueItem(item)
  /\ pressed' = Apply(item, pressed)

UserActs == pasting = <<>> /\ Len(keyData) < TypeAhead

\* A key goes down, or repeats while it is held.
KeyDown(k) ==
  /\ UserActs /\ focus
  /\ held' = held \cup {k}
  /\ KeyEvent([key |-> k, down |-> TRUE])
  /\ UNCHANGED <<focus, captured, pasting, tryCount>>

\* A key goes up: the window hears of it only if it has the focus.
KeyUp(k) ==
  /\ UserActs /\ k \in held
  /\ held' = held \ {k}
  /\ IF focus THEN KeyEvent([key |-> k, down |-> FALSE])
              ELSE UNCHANGED <<keyData, lastItem, pressed>>
  /\ UNCHANGED <<focus, captured, pasting, tryCount>>

ChangeFocus ==
  /\ pasting = <<>>
  /\ focus' = ~focus
  /\ UNCHANGED <<captured, held, pressed, pasting, tryCount, keyData, lastItem>>

\* LeftCtrl, LeftAlt and a click.
ToggleCapture ==
  /\ pasting = <<>> /\ focus
  /\ captured' = ~captured
  /\ UNCHANGED <<focus, held, pressed, pasting, tryCount, keyData, lastItem>>

StartPaste ==
  /\ pasting = <<>> /\ focus /\ ~captured
  /\ pasting' \in Texts
  /\ tryCount' = 0
  /\ UNCHANGED <<focus, captured, held, pressed, keyData, lastItem>>

\* Mutant: the length of the queue is not looked at.
PasteKeyAtOnce ==
  /\ pasting # <<>>
  /\ KeyEvent(Head(pasting))
  /\ pasting' = Tail(pasting)
  /\ tryCount' = 0
  /\ UNCHANGED <<focus, captured, held>>

PasteKey ==
  /\ pasting # <<>>
  /\ Len(keyData) <= PasteLimit
  /\ KeyEvent(Head(pasting))
  /\ pasting' = Tail(pasting)
  /\ tryCount' = 0
  /\ UNCHANGED <<focus, captured, held>>

\* Mutant: the paste never gives up.
PasteWaitForever ==
  /\ pasting # <<>>
  /\ Len(keyData) > PasteLimit
  /\ tryCount' = (tryCount + 1) % (PasteTries + 1)
  /\ UNCHANGED <<focus, captured, held, pressed, pasting, keyData, lastItem>>

\* Ten milliseconds of sleep; after too many of them the rest is given up.
PasteWait ==
  /\ pasting # <<>>
  /\ Len(keyData) > PasteLimit
  /\ IF tryCount < PasteTries
       THEN tryCount' = tryCount + 1 /\ UNCHANGED pasting
       ELSE tryCount' = 0 /\ pasting' = <<>>
  /\ UNCHANGED <<focus, captured, held, pressed, keyData, lastItem>>

Paste == PasteKey \/ PasteWait

Window ==
  /\ \/ \E k \in Typed : KeyDown(k) \/ KeyUp(k)
     \/ ChangeFocus \/ ToggleCapture \/ StartPaste \/ Paste
  /\ UNCHANGED <<linkVars, serverVars, agentVars>>
-----------------------------------------------------------------------------
(* KbdHandler's server thread.                                             *)

AcceptClient ==
  /\ Accept
  /\ initialized' = FALSE /\ awaiting' = FALSE
  /\ UNCHANGED keyData

HangupClient ==
  /\ Hangup
  /\ awaiting' = FALSE
  /\ UNCHANGED <<initialized, keyData>>

PreemptClient == ~awaiting /\ Preempt /\ awaiting' = FALSE /\ UNCHANGED <<initialized, keyData>>

ReadInit ==
  /\ KeepServing /\ ~awaiting
  /\ Incoming([op |-> "INIT"])
  /\ Take
  /\ initialized' = TRUE
  /\ UNCHANGED <<alive, opened, backlog, served, cut, reset, answer, awaiting, keyData>>

\* READ before INIT ends the connection.
ReadRead ==
  /\ KeepServing /\ ~awaiting
  /\ Incoming([op |-> "READ"])
  /\ IF ~initialized
       THEN HangupClient
       ELSE /\ Take
            /\ awaiting' = TRUE
            /\ UNCHANGED <<alive, opened, backlog, served, cut, reset, answer, initialized, keyData>>

\* The first len items are the answer, and the queue is cleared.
ReadLength ==
  /\ awaiting
  /\ \E len \in 1..99 :
       /\ Incoming([len |-> len])
       /\ Reply(SubSeq(keyData, 1, IF Len(keyData) < len THEN Len(keyData) ELSE len))
  /\ Take
  /\ keyData' = <<>>
  /\ awaiting' = FALSE
  /\ UNCHANGED <<alive, opened, backlog, served, cut, reset, initialized>>

\* A second passes without a length.
LengthTimeout ==
  /\ awaiting /\ sent[served] = <<>>
  /\ HangupClient

Server ==
  /\ \/ AcceptClient \/ PreemptClient
     \/ ReadInit \/ ReadRead \/ ReadLength \/ LengthTimeout
  /\ UNCHANGED <<windowVars, lastItem, agentVars>>
-----------------------------------------------------------------------------
(* The agent, which answers one system call at a time.                     *)

\* TCFLSH: connect and say INIT, unless the connection fails.
Enable(c) ==
  /\ alive /\ reader = None
  /\ Open(c)
  /\ Post(c, <<[op |-> "INIT"]>>)
  /\ enabled' = [enabled EXCEPT ![c] = TRUE]
  /\ Len(sent'[c]) <= 1  \* bound: INITs the server has not read
  /\ UNCHANGED <<alive, served, cut, answer, reader, lengthSent, view>>

EnableFails(c) ==
  /\ alive /\ reader = None
  /\ OpenFails(c)
  /\ enabled' = [enabled EXCEPT ![c] = FALSE]
  /\ UNCHANGED <<reader, lengthSent, view>>

\* A read more than 100 milliseconds after the last one that asked the server;
\* any other read returns nothing.
BeginRead(c) ==
  /\ alive /\ reader = None /\ enabled[c]
  /\ Post(c, <<[op |-> "READ"]>>)
  /\ reader' = c /\ lengthSent' = FALSE
  /\ UNCHANGED <<alive, opened, backlog, served, cut, answer, enabled, view>>

SendLength ==
  /\ alive /\ reader # None /\ ~lengthSent
  /\ Post(reader, <<[len |-> ReadItems]>>)
  /\ lengthSent' = TRUE
  /\ UNCHANGED <<alive, opened, backlog, served, cut, answer, enabled, reader, view>>

\* Whether k is down after the items, if it was before.
DownAfter(items, k, before) ==
  LET at == {i \in DOMAIN items : items[i].key = k} IN
  IF at = {} THEN before
  ELSE items[CHOOSE i \in at : \A j \in at : j <= i].down

\* Events are stored, and a SYN_REPORT after them, which lies behind the program's
\* buffer if they are as many as were asked for; the read returns.
Deliver(items) ==
  /\ view' = [view EXCEPT ![reader] = {k \in Key : DownAfter(items, k, k \in @)}]
  /\ reader' = None /\ lengthSent' = FALSE
  /\ UNCHANGED enabled

Receive ==
  /\ alive /\ reader # None /\ lengthSent
  /\ answer[reader] # <<>>
  /\ Deliver(Head(answer[reader]))
  /\ answer' = [answer EXCEPT ![reader] = Tail(@)]
  /\ UNCHANGED <<alive, opened, backlog, served, cut, reset, sent>>

\* The connection is gone: the count is the value of an uninitialised variable,
\* and so are the items.
ReceiveFails ==
  /\ alive /\ reader # None /\ lengthSent
  /\ reader \in cut /\ answer[reader] = <<>>
  /\ \E items \in Garbage : Deliver(items)
  /\ UNCHANGED linkVars

\* Any of the Sends may be the one that hits the closed connection again.
Killed ==
  /\ \E c \in Client : (IF reader = None THEN enabled[c] ELSE reader = c) /\ SigPipe(c)
  /\ ~lengthSent
  /\ UNCHANGED agentVars

Reading == SendLength \/ Receive \/ ReceiveFails \/ Killed

Agent ==
  /\ (\E c \in Client : Enable(c) \/ EnableFails(c) \/ BeginRead(c)) \/ Reading
  /\ UNCHANGED <<windowVars, keyData, lastItem, serverVars>>

Next == Window \/ Server \/ Agent

Spec == Init /\ [][Next]_vars

\* The threads run: the window's goes on with a paste, the server's with what it
\* was sent, the agent with the read it is answering.
FairSpec ==
  /\ Spec
  /\ WF_vars(Server)
  /\ WF_vars(Paste /\ UNCHANGED <<linkVars, serverVars, agentVars>>)
  /\ WF_vars(Reading /\ UNCHANGED <<windowVars, keyData, lastItem, serverVars>>)
-----------------------------------------------------------------------------
(* Properties.                                                             *)

\* The items on their way to the program reading c.
Answered(c) == IF answer[c] # <<>> THEN Head(answer[c]) ELSE <<>>
OnTheWay(c) == Answered(c) \o keyData

\* Whether k is down for the program on c once all that is on its way is there.
WillBeDown(c, k) == DownAfter(OnTheWay(c), k, k \in view[c])

\* No key event is lost, doubled or reordered in a way that matters: with what is
\* still queued or in transit, the keys the program takes for down are those the
\* window saw go down and not up.  This is for a program that does not share the
\* keyboard and whose connection was not cut.
KeysAgree ==
  \A c \in Client :
    c \notin cut /\ (\A d \in Client : opened[d] => d = c) =>
      \A k \in Key : WillBeDown(c, k) <=> k \in pressed

\* No key stays down for a program that has the keyboard to itself: a key that is
\* down for it, with what is still queued or in transit, is down for the window.
NoneStuck ==
  \A c \in Client :
    c \notin cut /\ (\A d \in Client : opened[d] => d = c) =>
      \A k \in Key : WillBeDown(c, k) => k \in pressed

\* A key the user presses while the window has the focus is forwarded, unless its
\* last release went to another window: what looks like a repetition to
\* _lastItem is one.
Forwarded ==
  [][\A k \in Typed : k \notin held /\ k \in held' /\ k \notin pressed =>
       keyData' = Append(keyData, [key |-> k, down |-> TRUE])]_vars

\* A read the agent has begun to answer ends, whatever other handlers connect;
\* the agent is never left waiting for a server that does not answer.
ReadReturns == (reader # None) ~> (reader = None \/ ~alive)

\* A paste comes to an end, even if no program reads the keyboard.
PasteEnds == (pasting # <<>>) ~> (pasting = <<>>)
=============================================================================
