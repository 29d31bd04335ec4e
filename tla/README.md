# TLA+ models of LoWe

LoWe lets programs under WSL use devices that WSL does not have. `loweagent`
runs the programs under ptrace, intercepts the system calls they make on the
device files, and answers them itself. `LoWeExposer`, a Windows program, has the
window, the keyboard, the mouse and the sound card; the agent talks to it over
TCP connections.

This directory holds TLA+ models of both, TLC configurations that check them on
small instances, and proofs of the most important properties.
Contents: [Inventory](#inventory), [Modules](#modules), [Runs](#runs),
[Fairness](#fairness), [Findings](#findings), [Proofs](#proofs),
[Limits](#what-is-not-modelled), [Plan](#plan).

Paths are relative to `src/src/`: `LoWeAgent/` is the agent (C++),
`LoWeExposer/LoWeExposer/` the exposer (C#).

## Inventory

### loweagent: one process, one thread but for the frame buffer's two

| part | state | operations | hard behaviour | what makes it correct |
|---|---|---|---|---|
| `ProgRuntimeDispatcher` | `_runtimeInfo` (pid to handler), `_numberOfProcesses` | `Init`, `Spin`, `Step` (one status of `wait4`), `GetOrAdd`, `Drop`, `CloneHandlesToPid` | statuses of different processes in any order, a child's first stop before or after its parent's clone event, deaths at any point, reused pids | the count is right; `Spin` ends exactly when the tracees are gone |
| `ProgRuntimeHandler` | `_exiting`, `_currentDeviceHandler`, `epollList`, `_openpath` | `SpySyscallEnter`, `SpySyscallExit`, `ReadRemoteText` | a call is two stops, told apart by a toggle | the toggle never slips; a call is answered by the handler in charge of it |
| `DeviceHandlerRegistry` | fd to handler | `Register`, `Unregister`, `Lookup`, `RegisterMap` | a shadow of the kernel's descriptor table | it agrees with that table between two calls |
| `DeviceHandlerTTY` and the style of all handlers | what an ioctl sets, the call in progress | `ExecuteBefore`, `ExecuteAfter` | shared between processes after a fork; other tracees run between the two | a call looks like one step of a driver |
| `EvdevDeviceHandler`, `…EvKeyboard`, `…EvMice` | `_isEnabled`, the last mouse state, a socket | TCFLSH, `ReadLogic`, the ioctls that say what the device is | a read is a request over TCP that may fail half way; each ioctl is listed twice by hand, at the entry and at the exit | what the program reads is what the user did, and of the events the device has declared |
| `DeviceHandlerALSA` | the PCM state, parameters, a socket | the PCM ioctls | requests without answers; a stream that outlives them | every accepted frame is played or was given up |
| `DeviceHandlerFrameBuffer`, `FrameBufferTransporter` | `_threadsRunning`, thread ids, `_buffer` | mmap: `StopThreads`, `StartThreads`; `ReaderThread`, `SenderThread` | one transporter for all programs; joins; Sends of two threads on one connection | words of a message stay together; the buffer outlives its threads |
| `SocketCommunicator` | `_opened`, the socket | `Open`, `Send`, `Recv` | a peer that has closed | a handler is never left waiting |
| `epoll` in `ProgRuntimeHandler` | `epollList` with the time of each entry's last event | `epoll_ctl`, `epoll_wait` | the events made up by the agent overwrite those of the kernel in the program's array; entries become stale; the array is written in words | the events returned are whole and for what the program asked; a device is always heard of; nothing behind the array changes |
| `DeviceProvisioner`, `CommunicatingDeviceHandler`, `main` | `_ports`, what was found unavailable | `EnsureExposer`, `CheckAvailability`, `GetFixupScript`, the second check | buttons pressed, ports used again and agents killed while another one starts | a program starts only if all its servers answered; a start-up ends |
| `DeviceHandler`, `pokeData` | none | `PeekData`, `PokeData` | word-wise writes into a process whose other threads may run | exactly the bytes asked for change |
| sys directory, catch-all | none | rewriting of paths, logging | – | – |
| `loweagent.cpp`, `ArgsParser`, `ConfigHandler`, `PidGuesser`, `SigActions` | the configuration | run once | – | – |

### LoWeExposer: a window's thread and one thread for each server

| part | state | operations | hard behaviour | what makes it correct |
|---|---|---|---|---|
| `HandlerBase` and its accept loops | `_socket`, pending connections | accept, serve, drop for the next client, timeouts | one client at a time; a client is dropped between two operations | a client that waits gets an answer or an end |
| `KbdHandler`, key events and paste of `FrameBufferExposer` | `_keyData`, `_lastItem` | `KeyDownPerformed`, `KeyUpPerformed`, INIT, READ, paste | window thread against server thread; a queue cleared with each read; a paste that sleeps on the window's thread | no key stays down, none is lost, a paste ends |
| `MiceHandler`, mouse events of `FrameBufferExposer` | `_states`, `_lastRead`, buttons, capture | button, move, wheel, capture; INIT, READ | merging of states, differences, repetition when idle | each click arrives once, in order; the pointer ends where the user left it |
| `AlsaHandler`, `AlsaPlayer` | buffers, length, position, `waveOut` | INIT, PLAY, DELA, STAT, DROP, PAUS, RESU, CLOS; `Read` by Windows | Windows reads on a thread of its own | frames in order, a delay that is true, no silence with frames waiting |
| `FrameBufferHandler`, window | `_data`, `_dispatcherTimer` | INIT, FRAM, tick | two-part messages, a picture replaced while frames come | the server stays in step with the stream; the window catches up |
| `MainHandler`, `MainWindow` | which buttons are checked, the handlers' ports | LOWE request, start and stop | ports that change; an exception ends a server's thread while its port goes on accepting | the agent gets the ports of running servers; the main server lives |
| other windows, view models | texts and logs | – | – | – |

### How the parts interact

The agent's main thread waits in `wait4`; a status leads to one step of one
`ProgRuntimeHandler`, which consults the registry and calls a device handler.
Between the two stops of one call the other tracees, and their handlers, run on.
A device handler talks to its server of the exposer synchronously, so the whole
agent waits for the answer; the frame buffer's threads send on their own. On the
other side the servers' threads share queues with the window's thread and, for
sound, with a thread of Windows. Handlers are shared: a `DeviceHandlerRegistry`
is copied to a child by reference, there is one `FrameBufferTransporter`, and
each server serves one connection at a time.

The hazards, each at its line, are listed under `hazards` in `PROJECT.json`.
## Modules

| module | models | extends |
|---|---|---|
| `Tracer` | dispatcher, per-process runtime, registry, device calls in the style of `DeviceHandlerTTY`; kernel and tracees as environment | |
| `DeviceCalls` | the abstract specification: devices whose calls are atomic | |
| `TracerInv` | the inductive strengthenings of `Tracer`'s invariants | `Tracer` |
| `TracerProofs` | theorems | `TracerInv` |
| `ExposerLink` | connections: `SocketCommunicator`, the accept loops | |
| `KbdInput` | keys from the window to a read | `ExposerLink` |
| `DeviceIoctls` | the two lists of ioctls of each handler; what the event devices declare | |
| `MouseInput` | mouse events from the window to a read; the questions a program asks first | `ExposerLink`, `DeviceIoctls` |
| `Clicks` | the abstract specification of button changes | |
| `PcmStream` | sound from WRITEI_FRAMES to WaveOut | `ExposerLink` |
| `FrameBuffer` | the screen from mmap to the window | `ExposerLink` |
| `Epoll` | `epollList`, the events of `epoll_wait`, `pokeData` | |
| `Provision` | the start of agents, and of the exposer's servers | |
| `ExposerLinkInv`, `KbdInputInv`, `MouseInputInv`, `PcmStreamInv`, `FrameBufferInv`, `EpollInv`, `ProvisionInv` | inductive strengthenings | the module named; those of the mouse and of sound also `ExposerLinkInv` |
| `ExposerLinkProofs` | lemmas: induction, concatenations, steps of connections | `ExposerLinkInv` |
| `KbdInputProofs`, `MouseInputProofs`, `PcmStreamProofs`, `FrameBufferProofs`, `EpollProofs`, `ProvisionProofs` | theorems | the `Inv` module; those of the mouse and of sound also `ExposerLinkProofs` |
| `MC*` | instances for TLC | the module named |

### Tracer

`phase[p]` is where a process is: running (`user`), at a syscall entry stop
(`enter`), inside the kernel, at a clone event, at an exit stop, at a signal stop,
dead and not yet reported, or absent. The environment's actions are the calls
tracees make, what the kernel does with them, signals and deaths; the agent's,
under `Step`, are what the loop does with one reported status: `HandleEnter`
and `HandleExit` are the whole of `SpySyscallEnter` and `SpySyscallExit`
with the device handler's `ExecuteBefore` or `ExecuteAfter`; `SkipStop` is a
stop that is no syscall stop, `Drop` a death. `GetOrAdd` is part of each of
them. A suppressed call is `orig[p] = "none"`: the kernel answers `enosys`
and the exit half stores the handler's answer.

`Disciplined` says that no tracee clones while it has a device open, and none
uses `dup` or shares its table. With it the properties of device calls hold
(`Coherent`, `OwnAnswers`, `ImplementsDevices`); without it they do not, and this
is the code's doing: parent and child then share handler objects, and the fields
that note the call in progress (`_syscallbefore`, `_ioctlop`, `_ioctladdr`)
are overwritten by whichever is at an entry; `fork` and `vfork` copy no
handles at all; a clone copies them only in one order of events (`tracer_race`).
The properties of processes (`Aligned`, `Accounting`, `SpinReturns`) are checked
without it. Handlers are allocated from `Obj`; `Room` keeps the tracees from asking
for one more than it has, so that the agent never waits for storage.

`DeviceCalls` knows no stops: a process is ready, calling or absent, a device
call takes effect at once and returns its answer. `ImplementsDevices` maps
`Tracer` to it; a suppressed call takes effect when the exit half answers it, and
a device's state is its handler's while a descriptor refers to it.

### ExposerLink

`sent[c]` and `answer[c]` are the two directions of handler c's connection,
`backlog` the listener's queue. A server takes one client (`served`) and leaves
its loop as soon as another waits (`KeepServing`). A closed connection is in
`cut`; a Send on it is lost and answered by a reset, and a Send after the reset
may raise SIGPIPE, which ends the agent (`alive`). An Open may fail (`OpenFails`),
which each device handler answers in its own way (`EnableFails`, `InfoFails`,
`MmapFails`). Nothing on the agent's side ever closes a handler's socket.

### KbdInput, MouseInput

A READ of the agent is several steps (send, receive, store), each of which the
window's and the server's threads interleave with; a failed `Recv` delivers
what the uninitialised variables held (`Garbage`). The keyboard queue is cleared
with each read after at most `ReadItems` were taken. `KeysAgree` relates three
places: what the window saw, what is on its way, and the program's view. A read
that is filled stores its SYN_REPORT behind the program's buffer; that memory is
not in the model, the read and what it does to the queue are. `Clicks`
promises that button changes arrive in order, once each; `ClicksSpec` maps to it
the changes along one line of button states, those of the answers on their way and
then those of the queue (`Changes`). X and Y are one coordinate.

`DeviceIoctls` keeps, for five handlers, the list of `ExecuteBefore`, which
decides what the kernel is kept from executing, and that of `ExecuteAfter`, which
decides what is answered; they are two lists in the code too. `IoctlsAnswered`
says that the two agree: what one of them names is answered, and nothing of the
second was executed by the kernel. Of what neither names it says nothing: the frame
buffer, the control and the PCM device keep every ioctl from the kernel and leave
ENOSYS for those they do not know. The lists are constants, which TLC compares
completely, so there is no theorem about them. `EventsDeclared` says that each
event a read stores is of a type and a code told by EVIOCGBIT, but for EV_SYN,
which the devices do not declare. Some handlers answer less than a driver would, and no property
depends on it: EVIOCGKEY always answers that no key is down, KDSETMODE takes its
argument, a mode, for an address, and EVIOCGNAME stores the bytes of a string
that was destroyed. The suppression of `stat` is noted but never set in the
tracee's registers, so the kernel executes it.

### PcmStream

Frames are numbered in the order in which programs write them, so that order,
loss and repetition can be seen. The several Sends of one request are one
message (they follow each other at once, and the server's patience is a second).
`played` is what WaveOut has read; `beside` are the frames of a WaveOut that an
INIT replaced while it played, and which goes on with them because nothing stops
it. Programs keep to ALSA's protocol (`phase`), PAUSE(1) and PAUSE(0) included
(`Pause`, `Unpause`), for which the agent sends the same PAUS. `Habits` adds legal
habits the code does not cope with: draining, asking the status before setting
parameters, and setting up again after HW_FREE.
`excused` are the frames programs gave up by DROP or by HW_FREE without DRAIN.

### FrameBuffer

The entry of mmap stops the threads, the exit starts new ones; between them the
program is in the kernel and the agent serves others (`inMmap`). INIT, its
parameters, FRAM and its pixels are four words; a Send blocks when `Room` words
are not read. A picture is the number of the program's last change, or `Torn`
while a copy is under way. A Send takes its copy of the buffer at once and the
server stores one at once; a copy in the middle of which the other side works
would be another torn picture, which the next frame replaces. `Overlap` lets
several programs be in mmap at a time. A handler and its `SocketCommunicator` are
freed when its program closes the device or exits (`gone`), while the mapping and
the threads stay and the transporter keeps its pointer
(`FrameBufferTransporter.cpp:17`): the Sends of such a sender reach the server or do
not (`Transmit`), and `inSync` is not claimed for that connection. That the place of
a freed communicator may be that of another handler is not in the model. When the
server is not there, mmap fails and starts no threads (`MmapFails`); the old ones
were stopped at its entry.

### Epoll

Each `epoll_ctl` of the program changes two things: the kernel's registration,
which is `wanted`, and `list`, the agent's note of it, which `EpollList` changes
as the code does and whatever the kernel answers. The two part ways on close, on
MOD, on an ADD the kernel refuses, of a device or of any descriptor, and when the
epoll instance is closed: these descriptors are in `odd` until a DEL, which erases
the entry even if the kernel refuses it. `KernelWait` puts what is ready into the array;
`HandleExit`, `Poke`, `PokeTail` and `Finish` are the loop at the exit of
`epoll_wait`. Memory is halves of words, because an event is three halves and
`pokeData` writes words: the last write of an event first reads the word
(`peeked`) whose second half is the next event's, or what lies behind the array.
There may be nothing mapped behind it (`ends`), and then the last half is not
written. Other threads of the program may store behind the array at any moment of
the call (`Store`).

`EventsRight` says what the array is worth to the program in spite of all
this. `PlainHeard` is the strongest true statement about ordinary descriptors:
as long as a call returns now and then without an event of a device, they are
heard of; the agent's events replace the kernel's in all other calls.

### Provision

A connection is a pair of an agent and what it is for; its `link` goes from
`open` to `asked` to `answered`, or is `cut`. `Launch`, `Ask` and `TakePorts` are
`EnsureExposer`, and `TurnedAway` is its end if the main server has closed the
connection, as it does when the rest of a request does not come in a second
(`TimeoutMain`); `Probe` and `EndProbe` are `IsDeviceAvailable` for one device;
`EndCheck` is `main`'s decision to run the program, to fix and check again, or to
give up. On the exposer's side each `HandlerBase` is a port with a thread
(`alive`) that serves one connection (`serving`); `listens` is the port's
listener, `port` what its handler announces. These differ in time: a thread that
ends by an exception stops its listener and leaves the announced port as it is
(`Throw`), and the main server's thread ends and leaves its listener open
(`GetResult`, `GetResultThrows`). An input without the window is an exception at
once, before anything behind it is started, or, should the binding of the button
swallow that, when its port is read, with all the other servers started. `Press` is
the user at the buttons.

`Stuck` names every place where an agent can wait for ever: the main server is
gone, or waits for an agent that was killed before it asked; the connection was
left open by a server stopped while it served; the port of a stopped server was
given to another one, which ignores the id. `StartupEnds` says that there is no
other.

## Runs

Every property is checked with a mutant (listed in `PROJECT.json`): a plausible
bug in a definition of the model, which makes TLC report the property.

| run | question | bounds |
|---|---|---|
| `tracer_calls` | do device calls look atomic, does the registry follow the table, does each call get its own answer? | 2 processes, 1 descriptor, a device and a text file, 2 values, 3 handler objects |
| `tracer_processes` | do entry and exit stay apart, is the count right, does Spin return? | 3 processes, which suffices for a parent, its child and an unrelated one, and for a pid to be used again; 2 descriptors, dup and shared tables |
| `tracer_race` (violated) | does a child inherit its parent's handles? | 2 processes |
| `kbd_keys` | are keys kept, do reads and pastes end? | 2 handlers, 2 keys of which one is typed, reads of 2 items, as many as gather in the queue |
| `kbd_burst` (violated) | the same when more keys gather than a read returns | 1 handler |
| `mice_clicks` | do clicks arrive in order, does the program catch up, is what it reads declared, and each question answered? | 2 handlers, 2 places (a long move apart), 5 events, a queue of 2; all ioctls of 5 handlers |
| `mice_release` (violated) | does releasing the mouse let its button go? | 1 handler |
| `pcm_play` | is sound played in order and whole, is the delay true, are queries answered? | 2 programs, 2 frames in buffers of 1 or 2, WaveOut reads 1 |
| `pcm_reuse` (violated) | is sound written after HW_FREE played? | 1 program, 3 frames |
| `fb_screen` | does the stream stay in step, the buffer live, mmap return, the window catch up? | 2 programs that map, close and exit, 2 mmaps, 1 change, 1 word in transit |
| `epoll_events` | are the events of `epoll_wait` right, does the memory behind them stay, is every descriptor heard of? | 2 descriptors, one of them a device and one of either kind in turn, 2 data, an array of 2, 1 store |
| `provision_startup` | does a program start only with its servers, are announced ports served, does the main server live, does each start-up end? | 2 agents, one of which may be killed and may ask for a keyboard alone; the window and one input, 2 ports |

Why these bounds are enough for the interesting cases: takeover of a server
needs two handlers; a read that cuts a buffer needs a buffer of two frames and
reads of one; a merge of mouse states needs two states in the queue and a third
that may not join; a stale sender needs a second mmap; a pid used again needs
room for one process more than lives; a slot that shares a word with the next
event and one that shares it with what is behind the array need two slots; a
descriptor that changes its kind needs one that may be opened as both; a port
used by another server needs as many ports as servers. The bounds on counters and
queues are constants, guarded in the environment's actions and never in the
code's. Deadlock is not checked where the environment may stop: tracees exit, the
user stops, the agent is killed by SIGPIPE, and bounded inputs run out.

## Fairness

- `Tracer`: `wait4` goes on returning statuses while there are any (weak
  fairness of `Step`); not fair between processes, and nothing is assumed of
  tracees.
- Input: the server goes on with what it was sent, the agent with a read it has
  begun, the paste with its sleeps. `MouseInput` assumes that a program that
  enabled its mouse goes on reading it, as X does every 50 ms by the agent's own
  epoll events; `KbdInput` does not.
- `PcmStream`: the server, Windows, and the end of a query. Not that programs do
  anything; `MusicPlays` therefore allows a program to leave the device suspended,
  which it tells of itself after a PAUSE.
- `FrameBuffer`: each thread runs, mmap returns from the kernel, the server and
  the timer go on. Not that programs draw, map or exit.
- `Epoll`: the agent's loop goes on, the kernel's call returns (the program waits
  with a timeout), the program looks at what it got, and 50 ms pass for every
  entry. A program that uses epoll is an event loop: it calls again and again
  with room for all it waits for, which is strong fairness of one call, since the
  program may close and register descriptors in between. `PlainHeard` has a
  further assumption, stated in the property.
- `Provision`: each agent's start-up goes on unless it is killed, and each
  server's thread runs. Nothing is assumed of the user or the programs, and no
  timeout has to pass.

All are weak but two: a thread stays ready until it runs. Strong are the reads of
`MouseInput`, since another handler's read makes one wait, and the call of
`epoll_wait` in `Epoll`.

## Findings

Four places where the code does not do what its documents or comments say, each
shown by a run that TLC ends with a counterexample:

1. `tracer_race`: handles are copied to a child only if the child's first stop
   was handled before the parent's exit from clone.
2. `kbd_burst`: items a read does not take are thrown away. In the trace two keys
   go down and one of them up, a read has room for two, and the release is the item
   thrown away: its key stays down.
3. `mice_release`: the click that releases the mouse sends a button down and
   never an up.
4. `pcm_reuse`: HW_FREE makes the exposer close the connection, which the
   handler goes on using; accepted sound is lost and the agent is killed by
   SIGPIPE.

Others have no document to contradict. They show in the conditions the
properties need:

- Two mmaps at once leave two pairs of threads that mix their words on the
  connection: with `Overlap = TRUE` and `Pair = {i1, i2}` in
  `MCFrameBuffer_screen.cfg` TLC finds `InSync` violated.
- A read of the keyboard asks for as many items as fit into the program's buffer
  and stores a SYN_REPORT after them (`DeviceHandlerEvKeyboard.cpp:56-87`): when
  the queue fills the buffer, one event is written behind it and the read returns
  more than was asked for. Nothing bounds the queue below that.
- PAUSE(0), by which a program goes on, is sent as another PAUS
  (`DeviceHandlerALSA.cpp:451-457`), and the sound stays silent until a RESUME or a
  write. `MusicPlays` exempts a device whose status is SUSPENDED; if it exempts
  only programs that are paused for themselves (`phase[c] = "paused"`), TLC finds it
  violated.
- DRAIN does not wait, and CLOS throws the tail away, as happens to the
  repository's own `test/alsa/sound_payback.c:135-136`; HW_PARAMS after it puts a
  second WaveOut beside the one that still plays (`AlsaHandler.cs:55-57`); STATUS
  before HW_PARAMS ends the connection: `Habits` in `MCPcmStream_play.cfg` with
  `"drain"` or `"status first"`.
- The events of `epoll_wait` for ordinary descriptors are dropped whenever a
  device has one (`PlainHeard`), those for descriptors in `odd` may carry old
  data, or be for a file that was never registered (`EventsRight`).
- A program that asks for the keyboard without the window, or an agent killed
  while the main server answers it, ends the main server (`MainSurvives`); what
  else an agent can hang on is `Stuck`.

Hazards of the code that no property is about, since the models abstract from
what they depend on: the flags of clone are read from `rdx`
(`ProgRuntimeHandler.cpp:199`); the keys of a failed read are uninitialised
(`DeviceHandlerEvKeyboard.cpp:65`; `Garbage` in `KbdInput`); six mouse events are
stored whatever the length of the buffer (`DeviceHandlerEvMice.cpp:134`); two equal turns of the wheel are merged
(`MiceHandler.cs:97`).

## Proofs

Proved with TLAPS for every value of the constants that satisfies the
assumption of the module (`TracerAssumption`, `KbdAssumption`, …) and the
condition in the table:

| module | theorem | states |
|---|---|---|
| `TracerProofs` | `TypeCorrect` | `Spec => []TypeOK` |
| | `Alignment` | `Spec => []Aligned` |
| | `Counts` | `Spec => []Accounting` |
| | `Coherence` | `Disciplined`: `Spec => []Coherent` |
| | `Answers` | `Disciplined`: `Spec => []OwnAnswers` |
| | `Refinement` | `Disciplined`: `Spec => ImplementsDevices` |
| `KbdInputProofs` | `TypeCorrect`, `KeysStayRight` | `Roomy`: `Spec => []TypeOK`, `[]KeysAgree` |
| | `PressesForwarded` | `Roomy`: `Spec => Forwarded` |
| `MouseInputProofs` | `TypeCorrect`, `EventsDeclaredHolds` | `Spec => []TypeOK`, `[]EventsDeclared` |
| | `ClicksReachProgram` | `Spec => ClicksSpec` |
| `PcmStreamProofs` | `TypeCorrect`, `AccountingHolds`, `DelayCoversHolds` | `Spec => []TypeOK`, `[]Accounting`, `[]DelayCovers` |
| | `InOrderHolds` | `"drain" \notin Habits`: `Spec => []InOrder` |
| | `NothingLostHolds` | `Habits = {}`: `Spec => []NothingLost` |
| `FrameBufferProofs` | `TypeCorrect`, `StaysInSync`, `BufferStays`, `FramesHaveRoom` | `~Overlap`: `Spec => []TypeOK`, `[]InSync`, `[]BufferHeld`, `[]FramesFit` |
| `EpollProofs` | `TypeCorrect`, `EventsStayRight`, `BehindStays` | `Spec => []TypeOK`, `[]EventsRight`, `[]BehindKept` |
| `ProvisionProofs` | `TypeCorrect`, `PortsStayLive`, `MainLives` | `Spec => []TypeOK`, `[]PortsLive`, `[]MainSurvives` |
| | `StartsServed` | `Spec => StartedServed` |

### Tracer

`Aligned` is not inductive: it says nothing of processes that are dead or gone,
while a reused pid inherits their toggle. `InStep` adds that a process not yet
born is not exiting. `Accounting` needs that `_runtimeInfo` is finite, for
cardinalities to change by one (`Counted`).

`Coherent` and `OwnAnswers` need `DInv`. Its parts: every process has a table of
its own (`OwnTables`); one that clones has no device open (`ClonesClean`); the
registry follows the table in every phase, but for the descriptor a close has
already dropped and the one an open has not yet entered (`Follows`); no handler
belongs to two processes (`Unshared`); in a call, the current handler is the one
registered for its descriptor and has noted this call (`InCharge`); what
returned is in order (`Answered`). `Unshared` is what makes the notes in the
handler trustworthy between two stops, and what fails in the code after a fork.
Each action has a lemma that it preserves these parts.

`Refinement` maps every step to a step of `DeviceCalls` or a stutter, one lemma
for each action, under `DInv` and `Fresh` (a handler made by an open has its
initial state until the open takes effect).

### KbdInput

`Roomy` says that a read asks for as many items as gather in the queue
(`QueueBound <= ReadItems`; the code only keeps a paste from more, and
`kbd_burst` shows what happens to a fast typist). It includes the reads that are
filled and store a SYN_REPORT behind the buffer. `KeysAgree` then rests on four facts. `OneRead`: on a connection that
was not cut, the length of a READ is the last message and its answer the only
one, so that an answer is always for the read under way. `LastSeen`: `_lastItem`
has what the window saw last of its key, so that what is not queued is a
repetition. `Answers`: answers are whole queues, so that nothing is left out.
`Known`: the server's clients have opened a connection, so that a program alone
with the keyboard is alone at the server. `HasLast`, that a key which occurs in a
queue occurs a last time, is true of every sequence; it is carried along as an
invariant, which each step keeps for a reason of its own, rather than proved by
induction.

### Induction and connections

The induction theorems of the library take an operator as a parameter, which
the provers cannot instantiate. `Induction`, in `ExposerLinkProofs`, is about a
set instead: one that has 0 and the successor of each of its members has every
natural number. It follows from cardinalities: if n were not in it, the
successor would map its members below n one to one into the same without 0. With
it `FlattenSeq`, which the community modules define by a recursive function, is
shown to be what it should: the concatenation of all parts, the first of which is
in front (`FlattenFirst`), the last behind (`FlattenAppend`), and two lines of
them one after the other (`FlattenConcat`). On this rest the proofs about the
frames in buffers and messages and about the changes of buttons.

`Connected` is what the connections of any server satisfy: a client connects
once, and it waits to be accepted, or is served, or was cut, when what it sends is
lost.

### MouseInput

`MouseInv` adds to `TypeOK` and `Connected`: a handler reads only after it has
connected (`EnabledIsOpened`); INIT comes before any READ (`InitFirst`); what the
last read stored is a group of declared events and its SYN_REPORT (`Grouped`); and
a program that has the
mouse for itself is told last the buttons the server has read last (`InSync`),
without which an idle mouse, whose last state is told again, could undo a click.

`ClicksReachProgram` follows the line of button states that starts with what the
program knows. `ChangesJoined` gives the changes of a line that consists of two.
With it, an event queued appends a change or none (`LineAdds`); a READ moves states
from the queue to an answer, and those it merges have the same buttons
(`MergedIs`, `LineRead`); an idle READ repeats the end of the line and changes
nothing (`LineRepeated`); a read by the agent takes the first change or none
(`LineTaken`); a capture forgets the last ones (`LineCleared`). A connection is cut
only when another program has the mouse, which is `TakeOver` of `Clicks`.

### PcmStream

`Accounting` and `DelayCovers` are the invariants of one player, and need what
`Write`, `Read` and `DropFrames` do to the frames that are buffered: `Read` loops
over whole buffers and cuts the next one, and `ReadIs` says that what it returns and
what it leaves are the frames in order (`WholeExists`, by induction, that the
loop ends). `OneQuery` says that a query of the delay is the last message on its
connection, so that nothing is sent behind it that the answer would not cover.

`InOrder` is not inductive. `Ordered` says why it stays: frames are numbered as
they are accepted; those played come before those the player has, and both
before all that is on its way from the client served and from clients still
waiting. What is on its way from a client cut off does not count any more. That no
WaveOut plays beside the one in use is `InitSilent`: behind the frames the player
has and behind each PLAY on the connection there is a DROP or a CLOS before the
next INIT, since only a program that has dropped, freed or never begun sets
parameters; a DRAIN, after which it may too, is what the theorem leaves out.

`NothingLost` needs, besides, that a program without further habits says INIT
first (`SetUp`), so that no message finds the server without a player, and that a
program alone with the device gave up whatever an INIT, a DROP or the end of its
connection throws away (`GivenUp`). `AllHeard` is the same statement without
`beside`, so that the theorem does not rest on frames a replaced WaveOut plays. Each
of the three habits breaks it:
`Habits = {}` is the code's limit, not the proof's.

### FrameBuffer

When programs map the screen one after the other there is never a second pair of
threads (`OneMapper`, `OnePair`). `Ordered` then describes a connection as a
chain: from what the server expects, through the words in transit, to the word the
agent sends next (`Due`), each word leads to the next (`Leading`). `InSync` is
the head of the chain, and sending and taking words keep it a chain. For
`FramesFit`, `InitFirst` adds that nothing but INIT and its parameters is at the
head of a chain until the server has a picture.

### Epoll

`Whole(n, fds)` says that the first n slots are events of different descriptors
of fds. The array begins with whole events of the kernel or of the agent, as long
as the loop is not between the halves of an event (`Returned`), and of entries
the loop has come to; `Loop` has what it is about to do, and that the half it
remembers is what lies behind the array, unless another thread has stored there
since. `Listed` makes the data of an entry those of the last registration unless
it is stale.

### Provision

`PortsLive` is inductive with `TypeOK`. `MainSurvives` needs that a checked
button has its server as long as no program asks for an input without the window
(`Started`). `StartedServed` needs `ServedInv`: a connection is at one place of
one queue (`OnePlace`) and neither answered nor cut there (`Pending`); what the
check no longer has to do was found unavailable, or the server has answered in
this check (`Checked`).

TLC checked each strengthening as an invariant before it was proved.

### What only TLC checks

- Liveness, which is out of the prover's reach: `SpinReturns`, `ReadReturns`,
  `PasteEnds`, `CatchesUp`, `QueryReturns`, `MusicPlays`, `MmapReturns`,
  `WindowCatchesUp`, `DeviceHeard`, `PlainHeard`, `StartupEnds`.
- The cases which the conditions of the table leave out: tracees that share
  handlers, reads shorter than the queue, two mmaps at a time, and programs with
  further habits. The properties do not hold there, as the findings show.
- `IoctlsAnswered`, a comparison of constant lists.

Every other safety property that a passing run checks has a theorem. Conversely,
`TypeOK` of `MouseInput` and of `PcmStream` is proved and not listed in their runs,
whose other properties say more.

## What is not modelled

- `Tracer`: the extra SIGTRAP stops of exec and PTRACE_SETOPTIONS; descriptors
  closed by exec; a ptrace call that fails because the tracee was killed after
  its stop was reported; the rewriting of `/dev/tty0`.
- `Provision` has no data: that the probe of a second agent drops the
  connection a first one plays through is in it only as `Preempt`. A main server
  that is not there when an agent connects ends that agent at once; malformed
  requests, which the agent never sends, are left out.
- `Epoll`: one epoll instance of one program; `epoll_pwait`, which the agent does
  not look at.
- `KeysAgree` and `ClicksSpec` say nothing of a program whose connection another
  took: what it reads from then on is left over in uninitialised variables.
- Mouse: the return of the cursor at the window's border.
- Sound: the control device but for its ioctls' names, hardware parameters, the
  conversion from float.
- Frame buffer: open, and what its ioctls answer from tables.
- Remote memory: `PeekData` is one copy; `ReadRemoteText` is a loop over words
  whose result its callers ignore.
- `ArgsParser`, `ConfigHandler`, `PidGuesser`, the start of the program: sequential
  code that runs once before anything the models describe.
- Sys directory and catch-all handlers: they rewrite paths and log, and keep
  nothing from one call to the next.
- Logging, and windows other than the frame buffer's: no protocol state.

## Plan

Order: the core first (`Tracer`), then what carries data (`ExposerLink`,
`KbdInput`, `MouseInput`, `PcmStream`, `FrameBuffer`), then what is around them
(`DeviceIoctls`, `Epoll`, `Provision`).

1. Done: the modules above, with `DeviceCalls` and `Clicks` as abstract
   specifications, and theorems for the safety properties the runs check.
2. Extend: a session in `Provision` that carries a stream, so that a probe which
   drops it loses something; `epollList` in `Tracer`, where a shared table would
   make two processes' calls of `epoll_ctl` meet.
3. Prove more: that every place in `Stuck` can be left only by the user; what is
   left of `InSync` of the frame buffer when mmaps overlap but join in order; what
   `KeysAgree` keeps of keys that a short read did not drop.
