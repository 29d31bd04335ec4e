---------------------------- MODULE FrameBufferInv ----------------------------
(***************************************************************************)
(* What FrameBuffer's invariants rest on when programs map the screen one  *)
(* after the other.                                                        *)
(***************************************************************************)
EXTENDS FrameBuffer

\* While the threads run nobody is in mmap; between two mmaps' threads there are
\* none; those that live are the latest pair, with a buffer and a program.
OneMapper ==
  /\ threadsRunning => inMmap = {} /\ pc = "idle"
  /\ inMmap \subseteq {caller} \ gone
  /\ pc = "init" => caller \in Client \ gone

Live(i) == reader[i] # "off" \/ sender[i] # "off"

OnePair ==
  \A i \in Pair : Live(i) =>
    /\ threadsRunning \/ pc = "stop"
    /\ i = latest /\ buffer # None /\ target \in Client

\* What the server expects of c, and what the agent is about to send for it.
Expected(c) == IF served = c THEN expects ELSE "op"
Opening(c) == pc = "init" /\ caller = c
Due(c) ==
  IF Opening(c) THEN "params"
  ELSE IF target = c /\ \E i \in Pair : sender[i] = "half" THEN "pixels"
  ELSE "op"

Begins(kind) == CASE kind \in {"INIT", "FRAM"} -> "op"
                  [] kind = "params" -> "params"
                  [] OTHER -> "pixels"
Leads(kind)  == CASE kind = "INIT" -> "params"
                  [] kind = "FRAM" -> "pixels"
                  [] OTHER -> "op"

\* The words s lead from what is expected to what is due.
Leading(from, s, to) ==
  IF s = <<>> THEN from = to
  ELSE /\ Begins(s[1].kind) = from
       /\ \A m \in 1 .. Len(s) - 1 : Begins(s[m + 1].kind) = Leads(s[m].kind)
       /\ Leads(s[Len(s)].kind) = to

Ordered ==
  /\ \A c \in cut : sent[c] = <<>>
  /\ expects # "op" => served # None
  /\ \A c \in Client \ (cut \cup gone) : Leading(Expected(c), sent[c], Due(c))

\* Until something was initialized, INIT and its parameters come first.
First(c) ==
  LET s == sent[c] IN
  \/ /\ Expected(c) = "op" /\ s = <<>>
     /\ target # c /\ ~Opening(c)
  \/ /\ Expected(c) = "op" /\ Len(s) = 1 /\ s[1].kind = "INIT"
     /\ target # c /\ Opening(c)
  \/ /\ Expected(c) = "op" /\ Len(s) > 1 /\ s[1].kind = "INIT" /\ s[2].kind = "params"
  \/ /\ Expected(c) = "params" /\ s = <<>>
     /\ target # c /\ Opening(c)
  \/ /\ Expected(c) = "params" /\ s # <<>> /\ s[1].kind = "params"

InitFirst ==
  /\ timer \/ strays => data # None
  /\ data = None => \A c \in Client \ cut : First(c)

ScreenInv ==
  TypeOK /\ OneMapper /\ OnePair /\ Ordered /\ InSync /\ InitFirst /\ FramesFit
=============================================================================
