---------------------------- MODULE FrameBuffer -----------------------------
(***************************************************************************)
(* The screen: programs map /dev/fb0, which DeviceHandlerFrameBuffer turns *)
(* into a file; two threads of the one FrameBufferTransporter copy their   *)
(* memory into a buffer and send the buffer to LoWeExposer, where the      *)
(* server thread of FrameBufferHandler stores the frames and a timer of    *)
(* the window draws them.  An mmap stops the threads at its entry and      *)
(* starts new ones at its exit; in between the agent serves other tracees. *)
(***************************************************************************)
EXTENDS ExposerLink

CONSTANTS
  Overlap,           \* several programs may be in mmap at the same time
  Pair,              \* a reader and a sender thread
  Room,              \* how much a Send may be ahead of the server
  MaxMaps,           \* bound: calls of mmap
  MaxDraws,          \* bound: changes of the programs' memory
  Junk, Torn, Blank  \* other pictures: of a new buffer, a mixture, all zero

Picture == (0..MaxDraws) \cup {Junk, Torn, Blank}

ASSUME FrameBufferAssumption ==
  /\ Overlap \in BOOLEAN
  /\ Room \in Nat \ {0} /\ MaxMaps \in Nat /\ MaxDraws \in Nat
  /\ None \notin Client \cup Picture

VARIABLES
  \* The programs.
  memory,     \* memory[c]: the picture the program of handler c has drawn
  draws, maps,
  exited,     \* the programs that are gone, and their memory with them
  gone,       \* the handlers that are freed: the program has closed, or is gone
  \* The agent's main thread.
  pc,         \* where it is: "idle", "stop" or "init"
  caller,     \* the handler whose mmap it serves there
  inMmap,     \* the programs between the entry and the exit of mmap
  \* FrameBufferTransporter.
  threadsRunning,
  target,     \* _pid, _remoteAddress and _socketCommunicator: the handler behind
  latest,     \* _readerThreadId and _senderThreadId
  buffer,     \* _buffer, None when it was freed
  reader,     \* reader[i]: "off", "loop" or "copy"
  sender,     \* sender[i]: "off", "loop", or "half" after FRAM was sent
  \* FrameBufferHandler and the window.
  expects,    \* what the server reads next: "op", "params" or "pixels"
  inSync,     \* the server has read an operation wherever it expected one
  data,       \* _data
  timer,      \* _dispatcherTimer runs
  strays,     \* some other timer runs
  shown       \* the picture in the window

programVars == <<memory, draws, maps, exited, gone>>
mainVars    == <<pc, caller, inMmap>>
threadVars  == <<threadsRunning, target, latest, buffer, reader, sender>>
windowVars  == <<expects, inSync, data, timer, strays, shown>>
vars == <<linkVars, programVars, mainVars, threadVars, windowVars>>

Word == [kind : {"INIT", "params", "FRAM"}] \cup [kind : {"pixels"}, of : Picture]

TypeOK ==
  /\ LinkTypeOK(Word, {})
  /\ \A c \in Client : Len(sent[c]) <= Room
  /\ memory \in [Client -> 0..MaxDraws] /\ draws \in 0..MaxDraws /\ maps \in 0..MaxMaps
  /\ exited \subseteq gone /\ gone \subseteq Client
  /\ pc \in {"idle", "stop", "init"} /\ caller \in Client \cup {None}
  /\ inMmap \subseteq Client
  /\ threadsRunning \in BOOLEAN /\ target \in Client \cup {None}
  /\ latest \in Pair \cup {None} /\ buffer \in Picture \cup {None}
  /\ reader \in [Pair -> {"off", "loop", "copy"}]
  /\ sender \in [Pair -> {"off", "loop", "half"}]
  /\ expects \in {"op", "params", "pixels"} /\ inSync \in BOOLEAN
  /\ data \in Picture \cup {None}
  /\ timer \in BOOLEAN /\ strays \in BOOLEAN
  /\ shown \in Picture

Init ==
  /\ LinkInit
  /\ memory = [c \in Client |-> 0] /\ draws = 0 /\ maps = 0 /\ exited = {} /\ gone = {}
  /\ pc = "idle" /\ caller = None /\ inMmap = {}
  /\ threadsRunning = FALSE /\ target = None /\ latest = None /\ buffer = None
  /\ reader = [i \in Pair |-> "off"] /\ sender = [i \in Pair |-> "off"]
  /\ expects = "op" /\ inSync = TRUE
  /\ data = None /\ timer = FALSE /\ strays = FALSE /\ shown = Blank
-----------------------------------------------------------------------------
(* The programs.                                                           *)

Draw(c) ==
  /\ c \notin exited /\ draws < MaxDraws
  /\ draws' = draws + 1
  /\ memory' = [memory EXCEPT ![c] = draws']
  /\ UNCHANGED <<linkVars, maps, exited, gone, mainVars, threadVars, windowVars>>

\* The program exits or is killed, and the agent drops its handler.
Exit(c) ==
  /\ alive /\ pc = "idle" /\ c \notin exited
  /\ exited' = exited \cup {c} /\ gone' = gone \cup {c}
  /\ inMmap' = inMmap \ {c}
  /\ UNCHANGED <<linkVars, memory, draws, maps, pc, caller, threadVars, windowVars>>

\* A close frees the handler too; the mapping stays, and the threads run on.
Close(c) ==
  /\ alive /\ pc = "idle" /\ c \notin gone \cup inMmap
  /\ gone' = gone \cup {c}
  /\ UNCHANGED <<linkVars, memory, draws, maps, exited, mainVars, threadVars, windowVars>>

Programs == \E c \in Client : Draw(c) \/ Exit(c) \/ Close(c)
-----------------------------------------------------------------------------
(* The agent's main thread.                                                *)

\* A Send blocks while the server does not read.
CanSend(c) == c \in cut \/ Len(sent[c]) < Room

\* Mutant: the flag is not reset, so the threads go on.
MmapEntryKeepsFlag(c) ==
  /\ alive /\ pc = "idle"
  /\ c \notin gone \cup inMmap /\ (inMmap = {} \/ Overlap)
  /\ maps < MaxMaps /\ maps' = maps + 1
  /\ IF threadsRunning THEN pc' = "stop" ELSE pc' = pc
  /\ caller' = c /\ inMmap' = inMmap \cup {c}
  /\ UNCHANGED <<linkVars, memory, draws, exited, gone, threadVars>>

\* The entry of mmap, and what StopThreads does before the joins.
MmapEntry(c) ==
  /\ alive /\ pc = "idle"
  /\ c \notin gone \cup inMmap /\ (inMmap = {} \/ Overlap)
  /\ maps < MaxMaps /\ maps' = maps + 1
  /\ IF threadsRunning THEN pc' = "stop" ELSE pc' = pc
  /\ caller' = c /\ inMmap' = inMmap \cup {c}
  /\ threadsRunning' = FALSE
  /\ UNCHANGED <<linkVars, memory, draws, exited, gone, target, latest, buffer, reader, sender>>

\* Mutant: the sender is not waited for.
JoinReaderOnly ==
  /\ alive /\ pc = "stop"
  /\ reader[latest] = "off"
  /\ buffer' = None
  /\ pc' = "idle"
  /\ UNCHANGED <<linkVars, programVars, caller, inMmap, threadsRunning, target, latest, reader, sender>>

\* Both threads have ended; the buffer is freed.
Join ==
  /\ alive /\ pc = "stop"
  /\ reader[latest] = "off" /\ sender[latest] = "off"
  /\ buffer' = None
  /\ pc' = "idle"
  /\ UNCHANGED <<linkVars, programVars, caller, inMmap, threadsRunning, target, latest, reader, sender>>

\* The exit of mmap: INIT, its parameters, and new threads.
MmapExit(c) ==
  /\ alive /\ pc = "idle" /\ c \in inMmap
  /\ CanSend(c)
  /\ Open(c)
  /\ Post(c, <<[kind |-> "INIT"]>>)
  /\ pc' = "init" /\ caller' = c
  /\ UNCHANGED <<alive, served, cut, answer, programVars, inMmap, threadVars>>

\* The server is not there: mmap returns -1, and no thread runs any more.
MmapFails(c) ==
  /\ alive /\ pc = "idle" /\ c \in inMmap
  /\ OpenFails(c)
  /\ inMmap' = inMmap \ {c}
  /\ UNCHANGED <<programVars, pc, caller, threadVars>>

StartThreads(i) ==
  /\ target' = caller
  /\ buffer' = Junk
  /\ threadsRunning' = TRUE
  /\ latest' = i
  /\ reader' = [reader EXCEPT ![i] = "loop"]
  /\ sender' = [sender EXCEPT ![i] = "loop"]

SendParams ==
  /\ alive /\ pc = "init"
  /\ CanSend(caller)
  /\ Post(caller, <<[kind |-> "params"]>>)
  /\ \E i \in Pair : reader[i] = "off" /\ sender[i] = "off" /\ StartThreads(i)
  /\ pc' = "idle" /\ inMmap' = inMmap \ {caller}
  /\ UNCHANGED <<alive, opened, backlog, served, cut, answer, programVars, caller>>

Main ==
  /\ (\E c \in Client : MmapEntry(c) \/ MmapExit(c) \/ MmapFails(c)) \/ Join \/ SendParams
  /\ UNCHANGED windowVars
-----------------------------------------------------------------------------
(* The transporter's threads.                                              *)

\* process_vm_readv begins to overwrite the buffer; it fails if there is no
\* process any more.
ReadBegin(i) ==
  /\ reader[i] = "loop" /\ threadsRunning
  /\ target \notin exited
  /\ reader' = [reader EXCEPT ![i] = "copy"]
  /\ buffer' = IF buffer = memory[target] THEN buffer ELSE Torn
  /\ UNCHANGED <<linkVars, sender>>

ReadEnd(i) ==
  /\ reader[i] = "copy"
  /\ reader' = [reader EXCEPT ![i] = "loop"]
  /\ buffer' = IF target \in exited THEN buffer ELSE memory[target]
  /\ UNCHANGED <<linkVars, sender>>

ReaderEnds(i) ==
  /\ reader[i] = "loop" /\ ~threadsRunning
  /\ reader' = [reader EXCEPT ![i] = "off"]
  /\ UNCHANGED <<linkVars, buffer, sender>>

\* When the handler is gone its SocketCommunicator is too, and nobody has told
\* the transporter: what the sender finds in its place may make the Send fail.
Transmit(word) ==
  \/ /\ CanSend(target)
     /\ Post(target, <<word>>)
     /\ UNCHANGED <<alive, opened, backlog, served, cut, answer>>
  \/ /\ target \in gone
     /\ UNCHANGED linkVars

SendFrame(i) ==
  /\ sender[i] = "loop" /\ threadsRunning
  /\ Transmit([kind |-> "FRAM"])
  /\ sender' = [sender EXCEPT ![i] = "half"]
  /\ UNCHANGED <<buffer, reader>>

SendPixels(i) ==
  /\ sender[i] = "half"
  /\ Transmit([kind |-> "pixels", of |-> buffer])
  /\ sender' = [sender EXCEPT ![i] = "loop"]
  /\ UNCHANGED <<buffer, reader>>

SenderEnds(i) ==
  /\ sender[i] = "loop" /\ ~threadsRunning
  /\ sender' = [sender EXCEPT ![i] = "off"]
  /\ UNCHANGED <<linkVars, buffer, reader>>

ReaderThread(i) == ReadBegin(i) \/ ReadEnd(i) \/ ReaderEnds(i)
SenderThread(i) == SendFrame(i) \/ SendPixels(i) \/ SenderEnds(i)
OnlyThreads == UNCHANGED <<programVars, mainVars, windowVars, threadsRunning, target, latest>>

Threads ==
  /\ alive
  /\ \E i \in Pair : ReaderThread(i) \/ SenderThread(i)
  /\ OnlyThreads

\* A second Send on a connection the server has closed.
Killed ==
  /\ \/ \E i \in Pair : sender[i] # "off" /\ (sender[i] = "half" \/ threadsRunning) /\ SigPipe(target)
     \/ pc = "init" /\ SigPipe(caller)
  /\ UNCHANGED <<programVars, mainVars, threadVars, windowVars>>
-----------------------------------------------------------------------------
(* FrameBufferHandler's server thread and the window.                      *)

AcceptClient ==
  /\ Accept
  /\ expects' = "op"
  /\ UNCHANGED <<inSync, data, timer, strays, shown>>

\* The window's timer is stopped, the one it started last.
HangupClient ==
  /\ Hangup
  /\ expects' = "op"
  /\ timer' = FALSE
  /\ UNCHANGED <<inSync, data, strays, shown>>

PreemptClient == expects = "op" /\ served # None /\ ~KeepServing /\ HangupClient

Handled == Take /\ UNCHANGED <<alive, opened, backlog, served, cut, reset, answer>>

ReadOperation ==
  /\ expects = "op" /\ KeepServing /\ sent[served] # <<>>
  /\ expects' = CASE Incoming([kind |-> "INIT"]) -> "params"
                  [] Incoming([kind |-> "FRAM"]) -> "pixels"
                  [] OTHER -> "op"
  \* Other words are not operations and are skipped, four bytes at a time.
  /\ inSync' = (inSync /\ (served \in gone \/ Head(sent[served]).kind \in {"INIT", "FRAM"}))
  /\ Handled
  /\ UNCHANGED <<data, timer, strays, shown>>

\* Mutant: the parameters are read and nothing is initialized.
ReadParamsOnly ==
  /\ expects = "params" /\ sent[served] # <<>>
  /\ inSync' = (inSync /\ (served \in gone \/ Head(sent[served]).kind = "params"))
  /\ expects' = "op"
  /\ Handled
  /\ UNCHANGED <<data, timer, strays, shown>>

\* Initialize: a new _data, and another timer.
ReadParams ==
  /\ expects = "params" /\ sent[served] # <<>>
  /\ data' = Blank
  /\ strays' = (strays \/ timer) /\ timer' = TRUE
  /\ inSync' = (inSync /\ (served \in gone \/ Head(sent[served]).kind = "params"))
  /\ expects' = "op"
  /\ Handled
  /\ UNCHANGED shown

ReadFrame ==
  /\ expects = "pixels" /\ sent[served] # <<>>
  /\ data' = IF Head(sent[served]).kind = "pixels" THEN Head(sent[served]).of ELSE Junk
  /\ inSync' = (inSync /\ (served \in gone \/ Head(sent[served]).kind = "pixels"))
  /\ expects' = "op"
  /\ Handled
  /\ UNCHANGED <<timer, strays, shown>>

\* A second passes and the rest of a message is not there.
Timeout ==
  /\ expects # "op" /\ sent[served] = <<>>
  /\ HangupClient

Server ==
  /\ AcceptClient \/ PreemptClient \/ ReadOperation \/ ReadParams \/ ReadFrame \/ Timeout
  /\ UNCHANGED <<programVars, mainVars, threadVars>>

\* A timer ticks and the window draws _data.
Tick ==
  /\ timer \/ strays
  /\ shown' = data
  /\ UNCHANGED <<linkVars, programVars, mainVars, threadVars, expects, inSync, data, timer, strays>>

Next == Programs \/ Main \/ Threads \/ Killed \/ Server \/ Tick

Spec == Init /\ [][Next]_vars

\* Every thread goes on, a blocked Send with the server; mmap returns from the
\* kernel and the timer ticks.  Programs need not do anything.
FairSpec ==
  /\ Spec
  /\ WF_vars(Main /\ maps' = maps)
  /\ \A i \in Pair :
       /\ WF_vars(alive /\ ReaderThread(i) /\ OnlyThreads)
       /\ WF_vars(alive /\ SenderThread(i) /\ OnlyThreads)
  /\ WF_vars(Server)
  /\ WF_vars(Tick)
-----------------------------------------------------------------------------
(* Properties.                                                             *)

\* The server always reads an operation where one begins and its data after it,
\* although two threads of the agent send on one connection.
InSync == inSync

\* The server has a picture to read a frame into.
FramesFit == expects = "pixels" => data # None

\* No thread that may touch the buffer is left when it is freed, and a picture
\* that is sent comes from it.
BufferHeld ==
  \A i \in Pair : reader[i] = "copy" \/ sender[i] = "half" => buffer # None

\* An mmap, which waits for threads that may wait for the server, returns.
MmapReturns == (pc # "idle") ~> (pc = "idle" \/ ~alive)

\* When nobody draws any more, the window shows what the program that mapped the
\* screen last has drawn, as long as its descriptor and its connection last.
WindowCatchesUp ==
  <>[](alive /\ threadsRunning /\ target \notin cut \cup gone => shown = memory[target])
=============================================================================
