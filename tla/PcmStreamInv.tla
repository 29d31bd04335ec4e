---------------------------- MODULE PcmStreamInv ----------------------------
(***************************************************************************)
(* What PcmStream's invariants rest on.                                    *)
(***************************************************************************)
EXTENDS PcmStream, ExposerLinkInv

\* A program that has not said INFO has no connection; a player is one of the client
\* served.
Standby ==
  /\ \A c \in Client : phase[c] = "closed" <=> ~opened[c]
  /\ served = None => player = None

\* Sequences of frames.
Upto(s, n)    == \A i \in DOMAIN s : s[i] <= n
Rising(s)     == \A i, j \in DOMAIN s : i < j => s[i] < s[j]
Before(s, t)  == \A i \in DOMAIN s, j \in DOMAIN t : s[i] < t[j]

\* What the player still has.
Kept == IF player = None THEN <<>> ELSE Buffered(player)

\* The frames of each program are on their way in order, and only after those of the
\* program served; those of programs not accepted yet come after what is played of others.
Ordered ==
  /\ Upto(played, accepted) /\ Upto(Kept, accepted)
  /\ Rising(played) /\ Rising(Kept) /\ Before(played, Kept)
  /\ \A c \in Client : Upto(InFlight(c), accepted) /\ Rising(InFlight(c))
  /\ \A c \in Client :
       served = c \/ (\E i \in DOMAIN backlog : backlog[i] = c) =>
         Before(played, InFlight(c)) /\ Before(Kept, InFlight(c))

\* At most one query is under way of each program: it is the last message sent, or its
\* answer the only one.
OneQuery ==
  \A c \in Client :
    /\ \A i \in DOMAIN sent[c] : sent[c][i].op = "DELA" =>
         waiting = c /\ i = Len(sent[c]) /\ answer[c] = <<>>
    /\ answer[c] # <<>> => waiting = c /\ sent[c] = <<>> /\ Len(answer[c]) = 1

PcmInv == TypeOK /\ Connected /\ Standby /\ Accounting /\ Ordered /\ OneQuery /\ DelayCovers

\* What the player still has of c.
KeptOf(c) == IF served = c THEN Kept ELSE <<>>

\* Nothing sounds when the messages before place n have been read by a server whose player
\* had kept: behind those frames, and behind each PLAY, there is a message that ends them.
Silent(kept, messages, n) ==
  \A i \in 0..n - 1 : (IF i = 0 THEN kept # <<>> ELSE messages[i].op = "PLAY") =>
    \E j \in i + 1..n - 1 : messages[j].op \in {"DROP", "CLOS"}

\* An INIT of a program that does not drain is read only when nothing sounds.
InitSilent ==
  /\ beside = {}
  /\ \A c \in Client :
       /\ phase[c] # "drained"
       /\ phase[c] \notin {"running", "paused"} => Silent(KeptOf(c), sent[c], Len(sent[c]) + 1)
       /\ \A n \in DOMAIN sent[c] : sent[c][n].op = "INIT" => Silent(KeptOf(c), sent[c], n)

SilentInv == PcmInv /\ InitSilent

\* Programs without further habits send INIT first.
SetUp ==
  \A c \in Client :
    /\ phase[c] # "drained"
    /\ phase[c] = "open" => sent[c] = <<>>
    /\ phase[c] \notin {"closed", "open"} /\ c \notin cut /\ (served = c => player = None) =>
         sent[c] # <<>> /\ sent[c][1].op = "INIT"

Alone(c) == \A d \in Client : phase[d] # "closed" => d = c

\* What a program that has the device for itself does not want any more is all that an
\* INIT, a DROP or the end of the connection throws away.
GivenUp ==
  \A c \in Client : Alone(c) =>
    /\ phase[c] \notin {"running", "paused"} => excused = accepted
    /\ phase[c] # "freed" => c \notin cut
    /\ \A i \in DOMAIN sent[c] : sent[c][i].op = "CLOS" => phase[c] = "freed"
    /\ \A i \in DOMAIN sent[c] : sent[c][i].op \in {"INIT", "DROP"} =>
         /\ Upto(Kept, excused)
         /\ \A j \in DOMAIN sent[c] : j < i => Upto(Payload(sent[c][j]), excused)

\* NothingLost, and by a WaveOut that is in use.
AllHeard ==
  (\E c \in Client : Alone(c)) =>
    \A f \in (excused + 1)..accepted :
      f \in ToSet(played) \/ \E c \in Client : f \in ToSet(Underway(c))

PlainInv == PcmInv /\ SetUp /\ GivenUp /\ AllHeard
=============================================================================
