----------------------------- MODULE PcmStream ------------------------------
(***************************************************************************)
(* Sound: the PCM device the agent emulates (DeviceHandlerALSA), the server *)
(* thread of AlsaHandler and its AlsaPlayer, which hands the frames to a    *)
(* WaveOut of Windows on a thread of Windows' own.                          *)
(*                                                                         *)
(* Frames are numbered in the order programs write them.  The two or three  *)
(* Sends of one request, which follow each other at once, are one message.  *)
(***************************************************************************)
EXTENDS Integers, ExposerLink, SequencesExt

CONSTANTS
  Habits,     \* what programs do besides: a subset of Habit
  Period,     \* how many frames WaveOut reads at a time
  MaxFrames,  \* bound: the frames written
  MaxSent     \* bound: the requests the server has not read

Habit == {"drain", "status first", "reuse"}

Frames == 1..MaxFrames
Message ==
  [op : {"INIT", "DELA", "DROP", "PAUS", "RESU", "CLOS"}] \cup [op : {"PLAY"}, buffer : Seq(Frames)]
Player == [buffers : Seq(Seq(Frames)), length : Nat, position : Nat]
WaveOut == {"stopped", "playing", "paused"}

ASSUME PcmAssumption ==
  /\ Habits \subseteq Habit
  /\ Period \in Nat \ {0} /\ MaxFrames \in Nat /\ MaxSent \in Nat
  /\ None \notin Client \cup Player \cup WaveOut

VARIABLES
  \* The programs and the agent.
  phase,     \* phase[c]: where the program is in the protocol of ALSA
  state,     \* state[c]: _snd_pcm_status.state
  waiting,   \* the handler that waits for an answer, or None
  accepted,  \* the number of frames the agent accepted
  excused,   \* programs do not want the frames up to this one any more
  \* AlsaHandler.
  player,    \* alsaPlayer, or None for null
  waveOut,   \* what waveOut does, or None for null
  played,    \* the frames it has read
  beside     \* the frames of WaveOuts replaced while they played, which play them on

clientVars == <<phase, state, waiting, accepted, excused>>
playerVars == <<player, waveOut, played, beside>>
vars == <<linkVars, clientVars, playerVars>>

TypeOK ==
  /\ LinkTypeOK(Message, Nat)
  /\ phase \in [Client -> {"closed", "open", "setup", "running", "paused", "drained", "freed"}]
  /\ state \in [Client -> {"OPEN", "PREPARED", "RUNNING", "SUSPENDED"}]
  /\ waiting \in Client \cup {None}
  /\ accepted \in 0..MaxFrames /\ excused \in 0..accepted
  /\ player \in Player \cup {None}
  /\ waveOut \in WaveOut \cup {None}
  /\ player # None => waveOut # None
  /\ played \in Seq(Frames) /\ beside \subseteq Frames

Init ==
  /\ LinkInit
  /\ phase = [c \in Client |-> "closed"] /\ state = [c \in Client |-> "OPEN"]
  /\ waiting = None
  /\ accepted = 0 /\ excused = 0
  /\ player = None /\ waveOut = None
  /\ played = <<>> /\ beside = {}
-----------------------------------------------------------------------------
(* AlsaPlayer.                                                             *)

NewPlayer == [buffers |-> <<>>, length |-> 0, position |-> 0]

\* Mutant: the buffer is put before the others.
WriteFirst(p, buffer) ==
  [p EXCEPT !.buffers = <<buffer>> \o @, !.length = @ + Len(buffer)]

Write(p, buffer) ==
  [p EXCEPT !.buffers = Append(@, buffer), !.length = @ + Len(buffer)]

Buffered(p) == FlattenSeq(p.buffers)

\* How many frames Read gives to a caller that asks for count.
ReadLen(p, count) ==
  IF Len(Buffered(p)) < count THEN Len(Buffered(p)) ELSE count

\* How many buffers are read whole when n frames are read.
Whole(buffers, n) ==
  CHOOSE k \in 0..Len(buffers) :
    /\ Len(FlattenSeq(SubSeq(buffers, 1, k))) <= n
    /\ k < Len(buffers) => n < Len(FlattenSeq(SubSeq(buffers, 1, k + 1)))

\* Mutant: a buffer that is read in part is removed whole.
ReadSplits(p, count) ==
  LET n    == ReadLen(p, count)
      k    == Whole(p.buffers, n)
      part == n - Len(FlattenSeq(SubSeq(p.buffers, 1, k)))
      rest == SubSeq(p.buffers, k + 1, Len(p.buffers))
  IN [p EXCEPT !.position = @ + n, !.buffers = IF part = 0 THEN rest ELSE Tail(rest)]

\* Whole buffers are removed while they fit; the next one is cut.
Read(p, count) ==
  LET n    == ReadLen(p, count)
      k    == Whole(p.buffers, n)
      part == n - Len(FlattenSeq(SubSeq(p.buffers, 1, k)))
      rest == SubSeq(p.buffers, k + 1, Len(p.buffers))
  IN [p EXCEPT !.position = @ + n,
               !.buffers = IF part = 0 THEN rest
                           ELSE [rest EXCEPT ![1] = SubSeq(@, part + 1, Len(@))]]

GetDelay(p) == p.length - p.position

\* Mutant: the counters are left alone.
DropBuffers(p) == [p EXCEPT !.buffers = <<>>]

\* Mutant: the position is not reset.
DropLengthOnly(p) == [p EXCEPT !.buffers = <<>>, !.length = 0]

DropFrames(p) == [p EXCEPT !.buffers = <<>>, !.length = 0, !.position = 0]

\* Windows asks the player of a WaveOut that plays for more, and stops it when
\* there is none.
WaveOutReads ==
  /\ waveOut = "playing" /\ player # None
  /\ LET n == ReadLen(player, Period) IN
     /\ played' = played \o SubSeq(Buffered(player), 1, n)
     /\ player' = Read(player, Period)
     /\ waveOut' = IF n = 0 THEN "stopped" ELSE "playing"
  /\ UNCHANGED beside
-----------------------------------------------------------------------------
(* AlsaHandler's server thread.                                            *)

\* The connection is closed and the sound stopped: what is buffered is gone.
HangupClient ==
  /\ Hangup
  /\ player' = None
  /\ waveOut' = IF waveOut = None THEN None ELSE "stopped"
  /\ UNCHANGED <<played, beside>>

PreemptClient == served # None /\ ~KeepServing /\ HangupClient

Handled == Take /\ UNCHANGED <<alive, opened, backlog, served, cut, reset>>

\* A new WaveOut with a new player.  The old ones are not stopped: if they play,
\* they go on with what they have left, and nothing can stop them any more.
HandleInit ==
  /\ Incoming([op |-> "INIT"])
  /\ beside' = IF waveOut = "playing" /\ player # None THEN beside \cup ToSet(Buffered(player))
                                                     ELSE beside
  /\ player' = NewPlayer /\ waveOut' = "stopped"
  /\ Handled /\ UNCHANGED <<answer, played>>

\* A request that needs the player ends the connection if there is none.
WithoutPlayer ==
  /\ player = None
  /\ Head(sent[served]).op \in {"PLAY", "DELA", "DROP"}
  /\ HangupClient

HandlePlay ==
  /\ player # None
  /\ Head(sent[served]).op = "PLAY"
  /\ player' = Write(player, Head(sent[served]).buffer)
  /\ waveOut' = "playing"
  /\ Handled /\ UNCHANGED <<answer, played, beside>>

\* DELA, and STAT, which is answered in the same way.
HandleDelay ==
  /\ player # None
  /\ Incoming([op |-> "DELA"])
  /\ Reply(GetDelay(player))
  /\ Handled /\ UNCHANGED playerVars

HandleDrop ==
  /\ player # None
  /\ Incoming([op |-> "DROP"])
  /\ player' = DropFrames(player)
  /\ Handled /\ UNCHANGED <<answer, waveOut, played, beside>>

HandlePause ==
  /\ Incoming([op |-> "PAUS"])
  /\ IF waveOut = None THEN HangupClient
     ELSE /\ waveOut' = IF waveOut = "playing" THEN "paused" ELSE waveOut
          /\ Handled /\ UNCHANGED <<answer, player, played, beside>>

\* Mutant: taken for another PAUS.
HandleResumePauses ==
  /\ Incoming([op |-> "RESU"])
  /\ IF waveOut = None THEN HangupClient
     ELSE /\ waveOut' = IF waveOut = "playing" THEN "paused" ELSE waveOut
          /\ Handled /\ UNCHANGED <<answer, player, played, beside>>

HandleResume ==
  /\ Incoming([op |-> "RESU"])
  /\ IF waveOut = None THEN HangupClient
     ELSE /\ waveOut' = IF waveOut = "paused" THEN "playing" ELSE waveOut
          /\ Handled /\ UNCHANGED <<answer, player, played, beside>>

HandleClose ==
  /\ Incoming([op |-> "CLOS"])
  /\ HangupClient

Handle ==
  /\ KeepServing /\ sent[served] # <<>>
  /\ \/ HandleInit \/ WithoutPlayer \/ HandlePlay \/ HandleDelay \/ HandleDrop
     \/ HandlePause \/ HandleResume \/ HandleClose

Server ==
  /\ (Accept /\ UNCHANGED playerVars) \/ PreemptClient \/ Handle
  /\ UNCHANGED clientVars

Windows ==
  /\ WaveOutReads
  /\ UNCHANGED <<linkVars, clientVars>>
-----------------------------------------------------------------------------
(* The programs, which keep to the protocol of ALSA, and the agent, which  *)
(* answers one system call at a time.                                      *)

\* An ioctl of a program in one of these phases, which leads to another.
Ioctl(c, phases, next) ==
  /\ alive /\ waiting = None
  /\ phase[c] \in phases
  /\ phase' = [phase EXCEPT ![c] = next]

\* It sends a request and does not wait for an answer.
Request(c, message) ==
  /\ Len(sent[c]) < MaxSent
  /\ Post(c, <<message>>)
  /\ UNCHANGED <<alive, opened, backlog, served, cut, answer, waiting>>

\* INFO: connect, unless that fails.
Info(c) ==
  /\ Ioctl(c, {"closed"}, "open")
  /\ Open(c)
  /\ UNCHANGED <<alive, served, cut, reset, sent, answer, state, waiting, accepted, excused>>

InfoFails(c) ==
  /\ Ioctl(c, {"closed"}, "closed")
  /\ OpenFails(c)
  /\ UNCHANGED <<state, waiting, accepted, excused>>

HwParams(c) ==
  /\ Ioctl(c, {"open", "setup", "drained"} \cup IF "reuse" \in Habits THEN {"freed"} ELSE {}, "setup")
  /\ Request(c, [op |-> "INIT"])
  /\ UNCHANGED <<state, accepted, excused>>

Prepare(c) ==
  /\ Ioctl(c, {"setup"}, "setup")
  /\ state[c] # "PREPARED"
  /\ state' = [state EXCEPT ![c] = "PREPARED"]
  /\ UNCHANGED <<linkVars, waiting, accepted, excused>>

\* All frames are accepted, whatever becomes of them.
WriteFrames(c) ==
  /\ Ioctl(c, {"setup", "running", "drained"}, "running")
  /\ \E n \in 1..(MaxFrames - accepted) :
       /\ Request(c, [op |-> "PLAY", buffer |-> [i \in 1..n |-> accepted + i]])
       /\ accepted' = accepted + n
  /\ state' = [state EXCEPT ![c] = "RUNNING"]
  /\ UNCHANGED excused

\* DELAY and STATUS.
BeginQuery(c) ==
  /\ Ioctl(c, IF "status first" \in Habits THEN {"open", "setup", "running"} ELSE {"setup", "running"},
              phase[c])
  /\ Len(sent[c]) < MaxSent
  /\ Post(c, <<[op |-> "DELA"]>>)
  /\ waiting' = c
  /\ UNCHANGED <<alive, opened, backlog, served, cut, answer, state, accepted, excused>>

EndQuery ==
  /\ alive /\ waiting # None
  /\ \/ /\ answer[waiting] # <<>>
        /\ answer' = [answer EXCEPT ![waiting] = Tail(@)]
     \/ /\ answer[waiting] = <<>> /\ waiting \in cut  \* the delay stays 0
        /\ UNCHANGED answer
  /\ waiting' = None
  /\ UNCHANGED <<alive, opened, backlog, served, cut, reset, sent, phase, state, accepted, excused>>

Drop(c) ==
  /\ Ioctl(c, {"running", "paused"}, "setup")
  /\ Request(c, [op |-> "DROP"])
  /\ excused' = accepted
  /\ UNCHANGED <<state, accepted>>

\* Unless it has drained the device, the program gives up what is not played.
HwFree(c) ==
  /\ Ioctl(c, {"setup", "running", "drained"}, "freed")
  /\ Request(c, [op |-> "CLOS"])
  /\ excused' = IF phase[c] = "drained" THEN excused ELSE accepted
  /\ UNCHANGED <<state, accepted>>

\* PAUSE, whose argument is not looked at.
PauseRequest(c) ==
  /\ Request(c, [op |-> "PAUS"])
  /\ state' = [state EXCEPT ![c] = "SUSPENDED"]
  /\ UNCHANGED <<accepted, excused>>

\* PAUSE(1).
Pause(c) == Ioctl(c, {"running"}, "paused") /\ PauseRequest(c)

\* PAUSE(0): for the program the sound goes on.
Unpause(c) == Ioctl(c, {"paused"}, "running") /\ PauseRequest(c)

\* RESUME, of a device that is or says it is suspended.
Resume(c) ==
  /\ Ioctl(c, {"running", "paused"}, "running")
  /\ state[c] = "SUSPENDED"
  /\ Request(c, [op |-> "RESU"])
  /\ state' = [state EXCEPT ![c] = "RUNNING"]
  /\ UNCHANGED <<accepted, excused>>

\* DRAIN returns at once.
Drain(c) ==
  /\ "drain" \in Habits
  /\ Ioctl(c, {"running"}, "drained")
  /\ UNCHANGED <<linkVars, state, waiting, accepted, excused>>

Killed ==
  /\ \E c \in Client : (IF waiting = None THEN phase[c] # "closed" ELSE waiting = c) /\ SigPipe(c)
  /\ UNCHANGED clientVars

Agent ==
  /\ \/ \E c \in Client :
          \/ Info(c) \/ InfoFails(c) \/ HwParams(c) \/ Prepare(c) \/ WriteFrames(c)
          \/ BeginQuery(c) \/ Drop(c) \/ HwFree(c) \/ Pause(c) \/ Unpause(c) \/ Resume(c)
          \/ Drain(c)
     \/ EndQuery \/ Killed
  /\ UNCHANGED playerVars

Next == Server \/ Windows \/ Agent

Spec == Init /\ [][Next]_vars

\* The server goes on with what it was sent, Windows with what is buffered, and
\* the agent takes the answers it waits for.
FairSpec ==
  /\ Spec
  /\ WF_vars(Server)
  /\ WF_vars(Windows)
  /\ WF_vars(EndQuery /\ UNCHANGED playerVars)
-----------------------------------------------------------------------------
(* Properties.                                                             *)

\* The counters, which three threads' calls change, agree with the buffers.
Accounting == player # None => GetDelay(player) = Len(Buffered(player))

\* The frames between the program and WaveOut, the oldest first.
Payload(m) == IF m.op = "PLAY" THEN m.buffer ELSE <<>>
Carried(messages) == FlattenSeq([i \in DOMAIN messages |-> Payload(messages[i])])
InFlight(c) == Carried(sent[c])
Underway(c) ==
  (IF served = c /\ player # None THEN Buffered(player) ELSE <<>>) \o InFlight(c)

\* No frame is played twice or before one that was written earlier, what is still on
\* its way of one stream is in order and comes after what was played, and no WaveOut
\* plays beside the one in use.
InOrder ==
  /\ beside = {}
  /\ \A c \in Client :
       LET line == (IF served = c THEN played ELSE <<>>) \o Underway(c)
       IN \A i, j \in DOMAIN line : i < j => line[i] < line[j]

\* A frame the agent accepted is played or still on its way, unless the program
\* gave it up or another program took the device over.
NothingLost ==
  (\E c \in Client : \A d \in Client : phase[d] # "closed" => d = c) =>
    \A f \in (excused + 1)..accepted :
      \/ f \in ToSet(played) \cup beside
      \/ \E c \in Client : f \in ToSet(Underway(c))

\* A delay the program is told is never less than what the player has left.
DelayCovers ==
  \A c \in Client : answer[c] # <<>> /\ served = c /\ player # None =>
    Head(answer[c]) >= Len(Buffered(player))

\* A query is answered, whatever other programs do to the server.
QueryReturns == (waiting # None) ~> (waiting = None \/ ~alive)

\* What is written is heard: the device does not stay with frames on their way but of
\* a program whose last word was a PAUSE.  That is said of either PAUSE: after PAUSE(0)
\* the sound stays silent until the program resumes or writes, though it goes on for
\* the program.
MusicPlays ==
  []<>(\A c \in Client : c \notin cut => Underway(c) = <<>> \/ state[c] = "SUSPENDED")
=============================================================================
