---------------------------- MODULE MouseInputInv ---------------------------
(***************************************************************************)
(* What MouseInput's invariants and its refinement of Clicks rest on.      *)
(***************************************************************************)
EXTENDS MouseInput, ExposerLinkInv

\* A handler is enabled when it has connected, and only then a program reads it.
EnabledIsOpened ==
  /\ \A c \in Client : enabled[c] <=> opened[c]
  /\ reader # None => enabled[reader]

\* On a connection that was not cut, INIT is read before any READ.
InitFirst ==
  \A c \in Client : opened[c] /\ c \notin cut /\ ~ (served = c /\ initialized) =>
    sent[c] # <<>> /\ sent[c][1] = "INIT"

\* What the last read returned.
Grouped ==
  returned = {} \/ \E news \in SUBSET MiceDeclared :
                     news # {} /\ returned = news \cup {<<"EV_SYN", "SYN_REPORT">>}

\* The last of a line of buttons that comes after start.
Final(start, line) == IF line = <<>> THEN start ELSE line[Len(line)]

\* A program that has the mouse for itself keeps its connection, and is told the
\* buttons of the last state that was read.
Taken == \E c \in Client \ {First} : opened[c]
InSync ==
  ~ Taken =>
    /\ cut = {}
    /\ Final(last[First].buttons, Buttons(answer[First])) =
         IF lastRead = None THEN {} ELSE lastRead.buttons

MouseInv == TypeOK /\ Connected /\ EnabledIsOpened /\ InitFirst /\ Grouped /\ InSync
=============================================================================
