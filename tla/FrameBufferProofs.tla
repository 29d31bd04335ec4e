--------------------------- MODULE FrameBufferProofs ---------------------------
(***************************************************************************)
(* What holds of FrameBuffer for any programs and threads, as long as the  *)
(* programs map the screen one after the other.                            *)
(***************************************************************************)
EXTENDS FrameBufferInv, SequenceTheorems, TLAPS

(* Streams of words.                                                        *)

LEMMA WordKinds ==
  ASSUME NEW w \in Word
  PROVE  /\ w.kind \in {"INIT", "params", "FRAM", "pixels"}
         /\ Begins(w.kind) \in {"op", "params", "pixels"}
         /\ w.kind = "INIT"   => Begins(w.kind) = "op" /\ Leads(w.kind) = "params"
         /\ w.kind = "FRAM"   => Begins(w.kind) = "op" /\ Leads(w.kind) = "pixels"
         /\ w.kind = "params" => Begins(w.kind) = "params" /\ Leads(w.kind) = "op"
         /\ w.kind = "pixels" => Begins(w.kind) = "pixels" /\ Leads(w.kind) = "op" /\ w.of \in Picture
<1>1. w.kind \in {"INIT", "params", "FRAM", "pixels"}
  BY DEF Word
<1>2. w.kind = "pixels" => w.of \in Picture
  BY DEF Word
<1> QED
  BY <1>1, <1>2 DEF Begins, Leads

\* What a word at the end does.
LEMMA Appended ==
  ASSUME NEW s \in Seq(Word), NEW w \in Word
  PROVE  /\ s \o <<w>> \in Seq(Word)
         /\ Len(s \o <<w>>) = Len(s) + 1 /\ Len(s) \in Nat
         /\ s \o <<w>> # <<>>
         /\ \A m \in 1 .. Len(s) : (s \o <<w>>)[m] = s[m]
         /\ (s \o <<w>>)[Len(s) + 1] = w
  OBVIOUS

LEMMA AppendLeads ==
  ASSUME NEW s \in Seq(Word), NEW w \in Word, NEW from, Leading(from, s, Begins(w.kind))
  PROVE  Leading(from, s \o <<w>>, Leads(w.kind))
<1> DEFINE t == s \o <<w>>
<1>1. /\ Len(t) = Len(s) + 1 /\ Len(s) \in Nat /\ t # <<>>
      /\ \A m \in 1 .. Len(s) : t[m] = s[m]
      /\ t[Len(s) + 1] = w
  BY Appended
<1> HIDE DEF t
<1>2. CASE s = <<>>
  <2>1. Len(s) = 0
    BY <1>2
  <2> QED
    BY <1>1, <1>2, <2>1 DEF Leading
<1>3. CASE s # <<>>
  <2>1. Len(s) # 0
    BY <1>3
  <2>2. Begins(t[1].kind) = from
    BY <1>1, <1>3, <2>1 DEF Leading
  <2>3. ASSUME NEW m \in 1 .. Len(t) - 1 PROVE Begins(t[m + 1].kind) = Leads(t[m].kind)
    BY <1>1, <1>3, <2>1, <2>3 DEF Leading
  <2> QED
    BY <1>1, <2>2, <2>3 DEF Leading
<1> QED
  BY <1>2, <1>3 DEF t

\* What is left when the first word is read.
LEMMA Tailed ==
  ASSUME NEW s \in Seq(Word), s # <<>>
  PROVE  /\ Tail(s) \in Seq(Word) /\ Head(s) = s[1] /\ s[1] \in Word
         /\ Len(Tail(s)) = Len(s) - 1 /\ Len(s) \in Nat /\ Len(s) > 0
         /\ \A m \in 1 .. Len(s) - 1 : Tail(s)[m] = s[m + 1]
         /\ Tail(s) = <<>> <=> Len(s) = 1
<1>1. Len(s) \in Nat /\ Len(s) > 0
  BY LenProperties, EmptySeq
<1>2. Head(s) = s[1] /\ s[1] \in Word
  BY <1>1
<1>3. /\ Tail(s) \in Seq(Word) /\ Len(Tail(s)) = Len(s) - 1
      /\ \A m \in 1 .. Len(Tail(s)) : Tail(s)[m] = s[m + 1]
  BY HeadTailProperties
<1>4. Tail(s) = <<>> <=> Len(Tail(s)) = 0
  BY <1>3, EmptySeq
<1> QED
  BY <1>1, <1>2, <1>3, <1>4

LEMMA TailLeads ==
  ASSUME NEW s \in Seq(Word), s # <<>>, NEW from, NEW to, Leading(from, s, to)
  PROVE  /\ Begins(Head(s).kind) = from
         /\ Leading(Leads(Head(s).kind), Tail(s), to)
<1> DEFINE t == Tail(s)
<1>1. /\ Head(s) = s[1]
      /\ Len(t) = Len(s) - 1 /\ Len(s) \in Nat /\ Len(s) > 0
      /\ \A m \in 1 .. Len(s) - 1 : t[m] = s[m + 1]
      /\ t = <<>> <=> Len(s) = 1
  BY Tailed
<1> HIDE DEF t
<1>2. Begins(Head(s).kind) = from
  BY <1>1 DEF Leading
<1>3. ASSUME t = <<>> PROVE Leading(Leads(Head(s).kind), t, to)
  BY <1>1, <1>3 DEF Leading
<1>4. ASSUME t # <<>> PROVE Leading(Leads(Head(s).kind), t, to)
  <2>1. Begins(t[1].kind) = Leads(Head(s).kind)
    BY <1>1, <1>4 DEF Leading
  <2>2. ASSUME NEW m \in 1 .. Len(t) - 1 PROVE Begins(t[m + 1].kind) = Leads(t[m].kind)
    <3>1. t[m] = s[m + 1] /\ t[m + 1] = s[m + 1 + 1] /\ m + 1 \in 1 .. Len(s) - 1
      BY <1>1, <2>2
    <3> QED
      BY <3>1 DEF Leading
  <2>3. Leads(t[Len(t)].kind) = to
    BY <1>1, <1>4 DEF Leading
  <2> QED
    BY <1>4, <2>1, <2>2, <2>3 DEF Leading
<1> QED
  BY <1>2, <1>3, <1>4 DEF t

\* What Post does with a word.
LEMMA Posts ==
  ASSUME TypeOK, NEW c \in Client, NEW w \in Word, Post(c, <<w>>), CanSend(c)
  PROVE  /\ reset' \subseteq cut
         /\ sent' \in [Client -> Seq(Word)]
         /\ \A d \in Client : Len(sent'[d]) <= Room
         /\ \A d \in Client \ {c} : sent'[d] = sent[d]
         /\ c \in cut => sent'[c] = sent[c]
         /\ c \notin cut => sent'[c] = sent[c] \o <<w>>
<1>1. /\ sent \in [Client -> Seq(Word)] /\ reset \subseteq cut
      /\ \A d \in Client : Len(sent[d]) <= Room /\ sent[d] \in Seq(Word)
  BY DEF TypeOK, LinkTypeOK
<1>2. CASE c \in cut
  BY <1>1, <1>2 DEF Post
<1>3. CASE c \notin cut
  <2>1. sent' = [sent EXCEPT ![c] = sent[c] \o <<w>>] /\ reset' = reset
    BY <1>3 DEF Post
  <2>2. sent[c] \o <<w>> \in Seq(Word) /\ Len(sent[c] \o <<w>>) = Len(sent[c]) + 1
    BY <1>1, Appended
  <2>3. Len(sent[c]) < Room
    BY <1>3 DEF CanSend
  <2>4. Len(sent[c]) + 1 <= Room
    BY <1>1, <2>3, FrameBufferAssumption, LenProperties
  <2> QED
    BY <1>1, <1>3, <2>1, <2>2, <2>4
<1> QED
  BY <1>2, <1>3
-----------------------------------------------------------------------------
(* Threads, mmaps and the buffer.                                           *)

LEMMA ScreenInit == Init => ScreenInv
<1> SUFFICES ASSUME Init PROVE ScreenInv
  OBVIOUS
<1> USE FrameBufferAssumption DEF Init, LinkInit
<1>1. LinkTypeOK(Word, {}) /\ \A c \in Client : sent[c] = <<>> /\ Len(sent[c]) = 0
  BY DEF LinkTypeOK
<1>2. TypeOK
  <2>1. 0 \in 0 .. MaxDraws /\ 0 \in 0 .. MaxMaps /\ 0 <= Room
    OBVIOUS
  <2> QED
    BY <1>1, <2>1 DEF TypeOK, Picture
<1>3. OneMapper /\ OnePair
  BY DEF OneMapper, OnePair, Live
<1>4. \A c \in Client : Expected(c) = "op" /\ Due(c) = "op" /\ target # c
  BY DEF Expected, Due, Opening
<1>5. Ordered
  BY <1>1, <1>4 DEF Ordered, Leading
<1>6. InitFirst
  BY <1>1, <1>4 DEF InitFirst, First, Opening
<1> QED
  BY <1>2, <1>3, <1>5, <1>6 DEF ScreenInv, InSync, FramesFit

\* Threads are started when nobody is in mmap any more, and only after the
\* earlier ones have ended; the buffer goes after them.
LEMMA ThreadStep ==
  ASSUME ScreenInv, ~Overlap, [Next]_vars
  PROVE  OneMapper' /\ OnePair'
<1> USE FrameBufferAssumption DEF ScreenInv, OneMapper, OnePair, Live
<1>1. /\ reader \in [Pair -> {"off", "loop", "copy"}] /\ sender \in [Pair -> {"off", "loop", "half"}]
      /\ pc \in {"idle", "stop", "init"} /\ threadsRunning \in BOOLEAN
  BY DEF TypeOK
<1>2. ASSUME UNCHANGED <<mainVars, threadVars, gone>> PROVE OneMapper' /\ OnePair'
  BY <1>2 DEF mainVars, threadVars
<1>3. ASSUME NEW c \in Client, Draw(c) PROVE OneMapper' /\ OnePair'
  BY <1>2, <1>3 DEF Draw
<1>4. ASSUME NEW c \in Client, Exit(c) \/ Close(c) PROVE OneMapper' /\ OnePair'
  BY <1>4 DEF Exit, Close, mainVars, threadVars
<1>5. ASSUME NEW c \in Client, MmapEntry(c) PROVE OneMapper' /\ OnePair'
  BY <1>1, <1>5 DEF MmapEntry
<1>6. ASSUME NEW c \in Client, MmapExit(c) PROVE OneMapper' /\ OnePair'
  <2>1. c \notin gone
    BY <1>6 DEF MmapExit
  <2> QED
    BY <1>6 DEF MmapExit, threadVars, programVars
<1>12. ASSUME NEW c \in Client, MmapFails(c) PROVE OneMapper' /\ OnePair'
  BY <1>12 DEF MmapFails, threadVars, programVars
<1>7. ASSUME Join PROVE OneMapper' /\ OnePair'
  BY <1>7 DEF Join, programVars
<1>8. ASSUME SendParams PROVE OneMapper' /\ OnePair'
  <2>1. PICK i \in Pair : StartThreads(i)
    BY <1>8 DEF SendParams
  <2>2. \A j \in Pair : reader[j] = "off" /\ sender[j] = "off"
    BY <1>8 DEF SendParams
  <2>3. OneMapper'
    BY <1>8, <2>1 DEF SendParams, StartThreads
  <2>4. \A j \in Pair \ {i} : reader'[j] = "off" /\ sender'[j] = "off"
    BY <1>1, <2>1, <2>2 DEF StartThreads
  <2>5. buffer' # None /\ target' \in Client /\ latest' = i /\ threadsRunning'
    BY <1>8, <2>1 DEF SendParams, StartThreads, Picture
  <2> QED
    BY <2>3, <2>4, <2>5
<1>9. ASSUME NEW i \in Pair, ReaderThread(i) \/ SenderThread(i), OnlyThreads
      PROVE  OneMapper' /\ OnePair'
  <2>1. \A j \in Pair : Live(j)' => Live(j)
    BY <1>1, <1>9 DEF ReaderThread, ReadBegin, ReadEnd, ReaderEnds, SenderThread, SendFrame,
       SendPixels, SenderEnds
  <2>2. Live(i)
    BY <1>9 DEF ReaderThread, ReadBegin, ReadEnd, ReaderEnds, SenderThread, SendFrame,
       SendPixels, SenderEnds
  <2>3. buffer' # None
    <3>1. buffer # None /\ target \in Client
      BY <2>2
    <3>2. memory[target] # None
      BY <3>1 DEF TypeOK, Picture
    <3> QED
      BY <1>9, <3>1, <3>2 DEF ReaderThread, ReadBegin, ReadEnd, ReaderEnds, SenderThread, SendFrame,
       SendPixels, SenderEnds, Picture
  <2>4. UNCHANGED <<threadsRunning, target, latest, pc, caller, inMmap, gone>>
    BY <1>9 DEF OnlyThreads, mainVars, programVars
  <2> QED
    BY <2>1, <2>3, <2>4
<1>10. ASSUME Killed \/ Server \/ Tick PROVE OneMapper' /\ OnePair'
  BY <1>2, <1>10 DEF Killed, Server, Tick, programVars
<1>11. CASE UNCHANGED vars
  BY <1>2, <1>11 DEF vars, programVars
<1> QED
  BY <1>3, <1>4, <1>5, <1>6, <1>7, <1>8, <1>9, <1>10, <1>11, <1>12 DEF Next, Programs, Main, Threads
-----------------------------------------------------------------------------
(* Types.                                                                   *)

\* What a Send of the agent leaves in its type.
LEMMA PostTypes ==
  ASSUME TypeOK, NEW c \in Client, NEW w \in Word, CanSend(c), Post(c, <<w>>),
         UNCHANGED <<alive, served, cut, answer>>,
         Open(c) \/ UNCHANGED <<opened, backlog>>
  PROVE  LinkTypeOK(Word, {})' /\ \A d \in Client : Len(sent'[d]) <= Room
<1>1. opened' \in [Client -> BOOLEAN] /\ backlog' \in Seq(Client)
  <2>1. opened \in [Client -> BOOLEAN] /\ backlog \in Seq(Client)
    BY DEF TypeOK, LinkTypeOK
  <2>2. Append(backlog, c) \in Seq(Client)
    BY <2>1
  <2> QED
    BY <2>1, <2>2 DEF Open
<1> QED
  BY <1>1, Posts DEF TypeOK, LinkTypeOK

LEMMA HangupTypes ==
  ASSUME TypeOK, served # None, Hangup
  PROVE  LinkTypeOK(Word, {})' /\ \A d \in Client : Len(sent'[d]) <= Room
<1>1. served \in Client /\ sent \in [Client -> Seq(Word)] /\ reset \subseteq cut /\ cut \subseteq Client
  BY DEF TypeOK, LinkTypeOK
<1>2. sent' = [sent EXCEPT ![served] = <<>>]
  BY DEF Hangup
<1>3. sent' \in [Client -> Seq(Word)]
  BY <1>1, <1>2
<1>4. ASSUME NEW d \in Client PROVE Len(sent'[d]) <= Room
  BY <1>1, <1>2, FrameBufferAssumption DEF TypeOK
<1>5. cut' \subseteq Client /\ reset' \subseteq cut'
  BY <1>1 DEF Hangup
<1> QED
  BY <1>3, <1>4, <1>5 DEF Hangup, TypeOK, LinkTypeOK

LEMMA TakeTypes ==
  ASSUME TypeOK, served # None, sent[served] # <<>>, Handled
  PROVE  /\ LinkTypeOK(Word, {})' /\ \A d \in Client : Len(sent'[d]) <= Room
         /\ served \in Client /\ sent[served] \in Seq(Word) /\ Head(sent[served]) \in Word
         /\ sent'[served] = Tail(sent[served])
         /\ \A d \in Client \ {served} : sent'[d] = sent[d]
<1>1. served \in Client /\ sent \in [Client -> Seq(Word)]
  BY DEF TypeOK, LinkTypeOK
<1>2. sent[served] \in Seq(Word) /\ sent' = [sent EXCEPT ![served] = Tail(sent[served])]
  BY <1>1 DEF Handled, Take
<1>3. /\ Tail(sent[served]) \in Seq(Word) /\ Head(sent[served]) \in Word
      /\ Len(Tail(sent[served])) = Len(sent[served]) - 1 /\ Len(sent[served]) \in Nat
  BY <1>2, Tailed
<1>4. sent' \in [Client -> Seq(Word)]
  BY <1>1, <1>2, <1>3
<1>5. ASSUME NEW d \in Client PROVE Len(sent'[d]) <= Room
  <2>1. Len(sent[d]) <= Room
    BY DEF TypeOK
  <2> QED
    BY <1>1, <1>2, <1>3, <2>1, FrameBufferAssumption
<1> QED
  BY <1>1, <1>2, <1>3, <1>4, <1>5 DEF Handled, TypeOK, LinkTypeOK

\* Every step keeps every variable in its type: the buffer that is sent is there,
\* and the window draws something.
\* What leaves the connections and the window alone keeps their types.
LEMMA LinkSame ==
  ASSUME TypeOK, UNCHANGED linkVars
  PROVE  LinkTypeOK(Word, {})' /\ \A d \in Client : Len(sent'[d]) <= Room
BY DEF TypeOK, LinkTypeOK, linkVars

LEMMA WindowSame ==
  ASSUME TypeOK, UNCHANGED windowVars
  PROVE  /\ expects' \in {"op", "params", "pixels"} /\ inSync' \in BOOLEAN
         /\ data' \in Picture \cup {None} /\ timer' \in BOOLEAN /\ strays' \in BOOLEAN
         /\ shown' \in Picture
BY DEF TypeOK, windowVars

LEMMA TypeStep ==
  ASSUME ScreenInv, ~Overlap, [Next]_vars
  PROVE  TypeOK'
<1> USE FrameBufferAssumption
<1>1. TypeOK /\ OneMapper /\ OnePair
  BY DEF ScreenInv
<1>2. ASSUME NEW c \in Client, Draw(c) PROVE TypeOK'
  <2>1. draws' \in 0 .. MaxDraws
    BY <1>1, <1>2 DEF Draw, TypeOK
  <2>2. memory' \in [Client -> 0 .. MaxDraws]
    BY <1>1, <1>2, <2>1 DEF Draw, TypeOK
  <2>3. LinkTypeOK(Word, {})' /\ \A d \in Client : Len(sent'[d]) <= Room
    BY <1>1, <1>2, LinkSame DEF Draw
  <2> QED
    BY <1>1, <1>2, <2>1, <2>2, <2>3 DEF Draw, TypeOK, mainVars, threadVars, windowVars
<1>3. ASSUME NEW c \in Client, Exit(c) \/ Close(c) PROVE TypeOK'
  <2>1. UNCHANGED <<linkVars, memory, draws, maps, pc, caller, threadVars, windowVars>>
    BY <1>3 DEF Exit, Close, mainVars
  <2>2. exited' \subseteq gone' /\ gone' \subseteq Client /\ inMmap' \subseteq Client
    BY <1>1, <1>3 DEF Exit, Close, mainVars, TypeOK
  <2> QED
    BY <1>1, <2>1, <2>2, LinkSame, WindowSame DEF TypeOK, threadVars
<1>4. ASSUME NEW c \in Client, MmapEntry(c), UNCHANGED windowVars PROVE TypeOK'
  <2>1. /\ UNCHANGED <<linkVars, windowVars>>
        /\ UNCHANGED <<memory, draws, exited, gone, target, latest, buffer, reader, sender>>
    BY <1>4 DEF MmapEntry
  <2>2. maps' \in 0 .. MaxMaps
    BY <1>1, <1>4 DEF MmapEntry, TypeOK
  <2>3. /\ pc' \in {"idle", "stop", "init"} /\ caller' \in Client \cup {None}
        /\ threadsRunning' \in BOOLEAN
    BY <1>1, <1>4 DEF MmapEntry, TypeOK
  <2>4. inMmap' \subseteq Client
    BY <1>1, <1>4 DEF MmapEntry, TypeOK
  <2> QED
    BY <1>1, <2>1, <2>2, <2>3, <2>4, LinkSame, WindowSame DEF TypeOK
<1>5. ASSUME NEW c \in Client, MmapExit(c), UNCHANGED windowVars PROVE TypeOK'
  <2>1. [kind |-> "INIT"] \in Word
    BY DEF Word
  <2>2. LinkTypeOK(Word, {})' /\ \A d \in Client : Len(sent'[d]) <= Room
    BY <1>1, <1>5, <2>1, PostTypes DEF MmapExit
  <2>3. /\ UNCHANGED <<programVars, threadVars>>
        /\ pc' \in {"idle", "stop", "init"} /\ caller' \in Client \cup {None} /\ inMmap' \subseteq Client
    BY <1>1, <1>5 DEF MmapExit, TypeOK
  <2> QED
    BY <1>1, <1>5, <2>2, <2>3, WindowSame DEF TypeOK, programVars, threadVars
<1>14. ASSUME NEW c \in Client, MmapFails(c), UNCHANGED windowVars PROVE TypeOK'
  <2>1. /\ UNCHANGED <<linkVars, programVars, pc, caller, threadVars>>
        /\ inMmap' \subseteq Client
    BY <1>1, <1>14 DEF MmapFails, OpenFails, TypeOK
  <2> QED
    BY <1>1, <1>14, <2>1, LinkSame, WindowSame DEF TypeOK, programVars, threadVars
<1>6. ASSUME Join, UNCHANGED windowVars PROVE TypeOK'
  <2>1. /\ buffer' = None /\ pc' = "idle"
        /\ UNCHANGED <<linkVars, programVars, caller, inMmap>>
        /\ UNCHANGED <<threadsRunning, target, latest, reader, sender>>
    BY <1>6 DEF Join
  <2> QED
    BY <1>1, <1>6, <2>1, LinkSame, WindowSame DEF TypeOK, programVars
<1>7. ASSUME SendParams, UNCHANGED windowVars PROVE TypeOK'
  <2>1. [kind |-> "params"] \in Word /\ caller \in Client
    BY <1>1, <1>7 DEF Word, SendParams, OneMapper
  <2>2. LinkTypeOK(Word, {})' /\ \A d \in Client : Len(sent'[d]) <= Room
    BY <1>1, <1>7, <2>1, PostTypes DEF SendParams
  <2>3. PICK i \in Pair : StartThreads(i)
    BY <1>7 DEF SendParams
  <2>4. /\ threadsRunning' \in BOOLEAN /\ target' \in Client \cup {None}
        /\ latest' \in Pair \cup {None} /\ buffer' \in Picture \cup {None}
        /\ reader' \in [Pair -> {"off", "loop", "copy"}]
        /\ sender' \in [Pair -> {"off", "loop", "half"}]
    BY <1>1, <2>1, <2>3 DEF StartThreads, TypeOK, Picture
  <2> QED
    BY <1>1, <1>7, <2>2, <2>4 DEF SendParams, TypeOK, programVars, windowVars
<1>8. ASSUME NEW i \in Pair, ReaderThread(i), OnlyThreads PROVE TypeOK'
  <2>1. target \in Client
    BY <1>1, <1>8 DEF OnePair, Live, ReaderThread, ReadBegin, ReadEnd, ReaderEnds
  <2>2. /\ UNCHANGED <<linkVars, sender>>
        /\ \E v \in {"off", "loop", "copy"} : reader' = [reader EXCEPT ![i] = v]
        /\ buffer' \in {buffer, memory[target], Torn}
    BY <1>8 DEF ReaderThread, ReadBegin, ReadEnd, ReaderEnds
  <2>3. buffer' \in Picture \cup {None}
    BY <1>1, <2>1, <2>2 DEF TypeOK, Picture
  <2> QED
    BY <1>1, <1>8, <2>2, <2>3, LinkSame, WindowSame DEF OnlyThreads, TypeOK, programVars, mainVars
<1>9. ASSUME NEW i \in Pair, SenderThread(i), OnlyThreads PROVE TypeOK'
  <2>1. target \in Client /\ buffer \in Picture
    BY <1>1, <1>9 DEF OnePair, Live, SenderThread, SendFrame, SendPixels, SenderEnds, TypeOK
  <2>2. /\ UNCHANGED <<buffer, reader>>
        /\ \E v \in {"off", "loop", "half"} : sender' = [sender EXCEPT ![i] = v]
    BY <1>9 DEF SenderThread, SendFrame, SendPixels, SenderEnds
  <2>3. LinkTypeOK(Word, {})' /\ \A d \in Client : Len(sent'[d]) <= Room
    <3>1. CASE UNCHANGED linkVars
      BY <1>1, <3>1 DEF TypeOK, LinkTypeOK, linkVars
    <3>2. ASSUME NEW w \in Word, Transmit(w) PROVE LinkTypeOK(Word, {})' /\ \A d \in Client : Len(sent'[d]) <= Room
      BY <1>1, <2>1, <3>1, <3>2, PostTypes DEF Transmit
    <3>3. [kind |-> "FRAM"] \in Word /\ [kind |-> "pixels", of |-> buffer] \in Word
      BY <2>1 DEF Word
    <3> QED
      BY <1>9, <3>1, <3>2, <3>3 DEF SenderThread, SendFrame, SendPixels, SenderEnds
  <2> QED
    BY <1>1, <1>9, <2>2, <2>3 DEF OnlyThreads, TypeOK, programVars, mainVars, windowVars
<1>10. ASSUME Killed PROVE TypeOK'
  <2>1. alive' = FALSE /\ UNCHANGED <<opened, backlog, served, cut, reset, sent, answer>>
    BY <1>10 DEF Killed, SigPipe
  <2>2. LinkTypeOK(Word, {})'
    BY <1>1, <2>1 DEF TypeOK, LinkTypeOK
  <2> QED
    BY <1>1, <1>10, <2>1, <2>2 DEF Killed, TypeOK, programVars, mainVars, threadVars, windowVars
<1>11. ASSUME Server PROVE TypeOK'
  <2>1. UNCHANGED <<programVars, mainVars, threadVars>>
    BY <1>11 DEF Server
  <2>2. ASSUME AcceptClient PROVE TypeOK'
    <3>1. /\ served' \in Client /\ backlog' \in Seq(Client)
          /\ UNCHANGED <<alive, opened, cut, reset, sent, answer>>
      BY <1>1, <2>2 DEF AcceptClient, Accept, TypeOK, LinkTypeOK
    <3>2. LinkTypeOK(Word, {})' /\ \A d \in Client : Len(sent'[d]) <= Room
      BY <1>1, <3>1 DEF TypeOK, LinkTypeOK
    <3>3. expects' = "op" /\ UNCHANGED <<inSync, data, timer, strays, shown>>
      BY <2>2 DEF AcceptClient
    <3> QED
      BY <1>1, <2>1, <3>2, <3>3 DEF TypeOK, programVars, mainVars, threadVars
  <2>3. ASSUME served # None, HangupClient PROVE TypeOK'
    <3>1. LinkTypeOK(Word, {})' /\ \A d \in Client : Len(sent'[d]) <= Room
      BY <1>1, <2>3, HangupTypes DEF HangupClient
    <3>2. expects' = "op" /\ timer' = FALSE /\ UNCHANGED <<inSync, data, strays, shown>>
      BY <2>3 DEF HangupClient
    <3> QED
      BY <1>1, <2>1, <3>1, <3>2, ZenonT(60) DEF TypeOK, programVars, mainVars, threadVars
  <2>4. ASSUME ReadOperation \/ ReadParams \/ ReadFrame PROVE TypeOK'
    <3>1. served # None /\ sent[served] # <<>> /\ Handled
      BY <2>4 DEF ReadOperation, ReadParams, ReadFrame, KeepServing, ScreenInv, Ordered
    <3>2. /\ LinkTypeOK(Word, {})' /\ \A d \in Client : Len(sent'[d]) <= Room
          /\ Head(sent[served]) \in Word
      BY <1>1, <3>1, TakeTypes
    <3>3. /\ expects' \in {"op", "params", "pixels"} /\ inSync' \in BOOLEAN
          /\ timer' \in BOOLEAN /\ strays' \in BOOLEAN /\ shown' = shown
      BY <1>1, <2>4 DEF ReadOperation, ReadParams, ReadFrame, TypeOK
    <3>4. data' \in Picture \cup {None}
      BY <1>1, <2>4, <3>2, WordKinds DEF ReadOperation, ReadParams, ReadFrame, TypeOK, Picture
    <3> QED
      BY <1>1, <2>1, <3>2, <3>3, <3>4 DEF TypeOK, programVars, mainVars, threadVars
  <2> QED
    BY <1>11, <2>2, <2>3, <2>4 DEF Server, PreemptClient, Timeout, ScreenInv, Ordered
<1>12. ASSUME Tick PROVE TypeOK'
  <2>1. shown' \in Picture
    BY <1>1, <1>12 DEF Tick, ScreenInv, InitFirst, TypeOK
  <2>2. UNCHANGED <<linkVars, programVars, mainVars, threadVars, expects, inSync, data, timer, strays>>
    BY <1>12 DEF Tick
  <2> QED
    BY <1>1, <2>1, <2>2, LinkSame DEF TypeOK, programVars, mainVars, threadVars
<1>13. CASE UNCHANGED vars
  BY <1>1, <1>13, LinkSame, WindowSame DEF vars, TypeOK, programVars, mainVars, threadVars
<1> QED
  BY <1>2, <1>3, <1>4, <1>5, <1>6, <1>7, <1>8, <1>9, <1>10, <1>11, <1>12, <1>13, <1>14
     DEF Next, Programs, Main, Threads
-----------------------------------------------------------------------------
(* Words.                                                                   *)

WordInv == Ordered /\ InSync /\ InitFirst /\ FramesFit

\* A step that sends and reads nothing.
LEMMA NoWord ==
  ASSUME ScreenInv, gone \subseteq gone',
         UNCHANGED <<sent, cut, served, windowVars, target>>,
         \A c \in Client : Due(c)' = Due(c),
         \A c \in Client \ cut : Opening(c)' = Opening(c)
  PROVE  WordInv'
<1>1. Ordered /\ InSync /\ InitFirst /\ FramesFit /\ cut \subseteq Client
  BY DEF ScreenInv, TypeOK, LinkTypeOK
<1>2. \A c \in Client : Expected(c)' = Expected(c)
  BY DEF Expected, windowVars
<1>3. Ordered'
  BY <1>1, <1>2 DEF Ordered, windowVars
<1>4. InitFirst'
  BY <1>1, <1>2 DEF InitFirst, First, windowVars
<1> QED
  BY <1>1, <1>3, <1>4 DEF WordInv, InSync, FramesFit, windowVars

\* A word that is sent when it is due.
LEMMA WordSent ==
  ASSUME ScreenInv, NEW c \in Client, NEW w \in Word, Post(c, <<w>>), CanSend(c),
         UNCHANGED <<served, cut, gone, windowVars>>,
         c \notin gone => Due(c) = Begins(w.kind) /\ Due(c)' = Leads(w.kind),
         \A d \in Client \ {c} : Due(d)' = Due(d)
  PROVE  Ordered'
<1>1. TypeOK /\ Ordered /\ cut \subseteq Client /\ sent[c] \in Seq(Word)
  BY DEF ScreenInv, TypeOK, LinkTypeOK
<1>2. \A d \in Client : Expected(d)' = Expected(d)
  BY DEF Expected, windowVars
<1>3. /\ \A d \in Client \ {c} : sent'[d] = sent[d]
      /\ c \in cut => sent'[c] = sent[c]
      /\ c \notin cut => sent'[c] = sent[c] \o <<w>>
  BY <1>1, Posts
<1>4. ASSUME NEW d \in Client \ (cut \cup gone)
      PROVE  Leading(Expected(d), sent[d], Due(d))'
  <2>1. CASE d # c
    BY <1>1, <1>2, <1>3, <1>4, <2>1 DEF Ordered, Leading
  <2>2. CASE d = c
    <3>1. Leading(Expected(c), sent[c], Begins(w.kind))
      BY <1>1, <1>4, <2>2 DEF Ordered
    <3>2. Leading(Expected(c), sent[c] \o <<w>>, Leads(w.kind))
      BY <1>1, <3>1, AppendLeads
    <3> QED
      BY <1>2, <1>3, <1>4, <2>2, <3>2 DEF Leading
  <2> QED
    BY <2>1, <2>2
<1>5. \A d \in cut : sent'[d] = <<>>
  BY <1>1, <1>3 DEF Ordered
<1> QED
  BY <1>1, <1>4, <1>5 DEF Ordered, windowVars

\* A hang-up: what was not read is gone with the connection.
LEMMA HangupWords ==
  ASSUME ScreenInv, served # None, HangupClient, UNCHANGED <<programVars, mainVars, threadVars>>
  PROVE  WordInv'
<1>1. Ordered /\ InSync /\ InitFirst /\ served \in Client /\ sent \in [Client -> Seq(Word)]
      /\ cut \subseteq Client
  BY DEF ScreenInv, TypeOK, LinkTypeOK
<1>2. /\ served' = None /\ cut' = cut \cup {served} /\ expects' = "op"
      /\ sent' = [sent EXCEPT ![served] = <<>>]
      /\ UNCHANGED <<inSync, data, strays, shown>> /\ timer' = FALSE
  BY DEF HangupClient, Hangup
<1>3. \A c \in Client : /\ Due(c)' = Due(c) /\ Opening(c)' = Opening(c) /\ c # None
                        /\ c # served => sent'[c] = sent[c] /\ Expected(c)' = Expected(c)
  BY <1>1, <1>2, FrameBufferAssumption DEF Due, Opening, Expected, mainVars, threadVars
<1>4. target' = target /\ gone' = gone
  BY DEF threadVars, programVars
<1>5. Ordered'
  <2>1. \A c \in cut' : sent'[c] = <<>>
    BY <1>1, <1>2, <1>3 DEF Ordered
  <2>2. ASSUME NEW c \in Client \ (cut' \cup gone') PROVE Leading(Expected(c), sent[c], Due(c))'
    <3>1. c # served /\ c \in Client \ (cut \cup gone)
      BY <1>2, <1>4, <2>2
    <3> QED
      BY <1>1, <1>3, <3>1 DEF Ordered, Leading
  <2> QED
    BY <1>2, <2>1, <2>2 DEF Ordered
<1>6. InitFirst'
  BY <1>1, <1>2, <1>3, <1>4 DEF InitFirst, First
<1> QED
  BY <1>1, <1>2, <1>5, <1>6 DEF WordInv, InSync, FramesFit

\* A word is read as what it is.
LEMMA WordRead ==
  ASSUME ScreenInv, ReadOperation \/ ReadParams \/ ReadFrame,
         UNCHANGED <<programVars, mainVars, threadVars>>
  PROVE  WordInv'
<1> DEFINE w == Head(sent[served])
<1>1. /\ TypeOK /\ Ordered /\ InSync /\ InitFirst /\ FramesFit /\ cut \subseteq Client
      /\ expects \in {"op", "params", "pixels"}
  BY DEF ScreenInv, TypeOK, LinkTypeOK
<1>2. served # None /\ sent[served] # <<>> /\ Handled /\ UNCHANGED cut /\ served' = served
  BY <1>1 DEF ReadOperation, ReadParams, ReadFrame, KeepServing, Handled, Ordered
<1>3. /\ served \in Client /\ sent[served] \in Seq(Word) /\ w \in Word
      /\ sent'[served] = Tail(sent[served])
      /\ \A d \in Client \ {served} : sent'[d] = sent[d]
  BY <1>1, <1>2, TakeTypes
<1>4. served \notin cut
  BY <1>1, <1>2 DEF Ordered
<1>5. \A c \in Client : /\ Due(c)' = Due(c) /\ Opening(c)' = Opening(c) /\ c # None
                        /\ c # served => Expected(c)' = Expected(c)
  BY <1>1, <1>2, FrameBufferAssumption DEF Due, Opening, Expected, mainVars, threadVars
<1>6. target' = target /\ gone' = gone
  BY DEF threadVars, programVars
<1>7. Expected(served) = expects /\ Expected(served)' = expects'
  BY <1>2 DEF Expected
<1>8. /\ w.kind \in {"INIT", "params", "FRAM", "pixels"}
      /\ w.kind = "INIT"   => Begins(w.kind) = "op" /\ Leads(w.kind) = "params"
      /\ w.kind = "FRAM"   => Begins(w.kind) = "op" /\ Leads(w.kind) = "pixels"
      /\ w.kind = "params" => Begins(w.kind) = "params" /\ Leads(w.kind) = "op"
      /\ w.kind = "pixels" => Begins(w.kind) = "pixels" /\ Leads(w.kind) = "op"
  BY <1>3, WordKinds
<1>9. expects = "op" => expects' = CASE w.kind = "INIT" -> "params"
                                     [] w.kind = "FRAM" -> "pixels"
                                     [] OTHER -> "op"
  <2>1. w = [kind |-> "INIT"] <=> w.kind = "INIT"
    BY <1>3 DEF Word
  <2>2. w = [kind |-> "FRAM"] <=> w.kind = "FRAM"
    BY <1>3 DEF Word
  <2> QED
    BY <1>2, <2>1, <2>2 DEF ReadOperation, ReadParams, ReadFrame, Incoming
<1>10. expects # "op" => expects' = "op"
  BY DEF ReadOperation, ReadParams, ReadFrame
<1>11. ASSUME served \notin gone
       PROVE  /\ Begins(w.kind) = expects /\ Leads(w.kind) = expects'
              /\ Leading(expects', sent'[served], Due(served))
  <2>1. Leading(expects, sent[served], Due(served))
    BY <1>1, <1>3, <1>4, <1>7, <1>11 DEF Ordered
  <2>2. Begins(w.kind) = expects /\ Leading(Leads(w.kind), Tail(sent[served]), Due(served))
    BY <1>2, <1>3, <2>1, TailLeads
  <2>3. Leads(w.kind) = expects'
    BY <1>1, <1>8, <1>9, <1>10, <2>2
  <2> QED
    BY <1>3, <2>2, <2>3
<1>12. InSync'
  <2>1. served \notin gone => CASE expects = "op" -> w.kind \in {"INIT", "FRAM"}
                                  [] expects = "params" -> w.kind = "params"
                                  [] OTHER -> w.kind = "pixels"
    BY <1>1, <1>8, <1>11
  <2> QED
    BY <1>1, <2>1 DEF ReadOperation, ReadParams, ReadFrame, InSync
<1>13. Ordered'
  <2>1. \A c \in cut' : sent'[c] = <<>>
    BY <1>1, <1>2, <1>3, <1>4 DEF Ordered
  <2>2. ASSUME NEW c \in Client \ (cut' \cup gone') PROVE Leading(Expected(c), sent[c], Due(c))'
    <3>1. CASE c = served
      <4>1. Due(served)' = Due(served) /\ served \notin gone
        BY <1>2, <1>3, <1>5, <1>6, <2>2, <3>1
      <4>2. Leading(Expected(served)', sent'[served], Due(served)')
        BY <1>7, <1>11, <4>1
      <4> QED
        BY <1>2, <3>1, <4>2 DEF Leading
    <3>2. CASE c # served
      <4>1. Leading(Expected(c), sent[c], Due(c))
        BY <1>1, <1>2, <1>6, <2>2 DEF Ordered
      <4>2. Expected(c)' = Expected(c) /\ sent'[c] = sent[c] /\ Due(c)' = Due(c)
        BY <1>3, <1>5, <2>2, <3>2
      <4>3. Leading(Expected(c)', sent'[c], Due(c)')
        BY <4>1, <4>2
      <4> QED
        BY <4>3 DEF Leading
    <3> QED
      BY <3>1, <3>2
  <2> QED
    BY <1>2, <2>1, <2>2 DEF Ordered
<1>14. (data' = None => data = None) /\ (expects = "params" => data' # None)
  <2>1. expects = "params" => data' # None
    BY <1>2, FrameBufferAssumption DEF ReadOperation, ReadParams, ReadFrame, Picture
  <2>2. data' = None => data = None
    BY <1>2, <1>3, <1>8, WordKinds, FrameBufferAssumption
       DEF ReadOperation, ReadParams, ReadFrame, Picture
  <2> QED
    BY <2>1, <2>2
<1>15. ASSUME data' = None PROVE expects = "op" /\ w.kind = "INIT" /\ expects' = "params"
  <2>1. First(served)
    BY <1>1, <1>3, <1>4, <1>14, <1>15 DEF InitFirst
  <2>2. w = sent[served][1]
    BY <1>2, <1>3, Tailed
  <2>3. expects = "op" /\ w.kind = "INIT"
    BY <1>2, <1>7, <1>14, <1>15, <2>1, <2>2 DEF First
  <2> QED
    BY <1>9, <2>3
<1>16. ASSUME data' = None PROVE First(served)'
  <2>1. First(served)
    BY <1>1, <1>3, <1>4, <1>14, <1>15, <1>16 DEF InitFirst
  <2>2. /\ Len(sent'[served]) = Len(sent[served]) - 1 /\ Len(sent[served]) \in Nat
        /\ \A m \in 1 .. Len(sent[served]) - 1 : sent'[served][m] = sent[served][m + 1]
        /\ sent'[served] = <<>> <=> Len(sent[served]) = 1
    BY <1>2, <1>3, Tailed
  <2>3. CASE Len(sent[served]) = 1
    BY <1>2, <1>3, <1>5, <1>6, <1>7, <1>15, <1>16, <2>1, <2>2, <2>3 DEF First
  <2>4. CASE Len(sent[served]) > 1
    <3>1. sent[served][2].kind = "params"
      BY <1>2, <1>7, <1>15, <1>16, <2>1, <2>4 DEF First
    <3>2. sent'[served][1] = sent[served][1 + 1]
      BY <2>2, <2>4
    <3>3. sent'[served][1] = sent[served][2]
      BY <3>2
    <3> QED
      <4>1. Expected(served)' = "params" /\ sent'[served] # <<>> /\ sent'[served][1].kind = "params"
        BY <1>7, <1>15, <1>16, <2>2, <2>4, <3>1, <3>3
      <4> QED
        BY <1>2, <4>1 DEF First
  <2> QED
    BY <1>2, <1>3, <2>2, <2>3, <2>4, Tailed
<1>17. ASSUME data' = None, NEW c \in Client \ cut, c # served PROVE First(c)'
  BY <1>1, <1>3, <1>5, <1>6, <1>14, <1>17 DEF InitFirst, First
<1>18. InitFirst'
  <2>1. timer' \/ strays' => data' # None
    BY <1>1, <1>14, FrameBufferAssumption DEF ReadOperation, ReadParams, ReadFrame, InitFirst
  <2> QED
    BY <1>2, <1>16, <1>17, <2>1 DEF InitFirst
<1>19. FramesFit'
  BY <1>15 DEF FramesFit
<1> QED
  BY <1>12, <1>13, <1>18, <1>19 DEF WordInv

\* While there are no threads but in their own time, what is due is one mmap's
\* business at most.
LEMMA NothingDue ==
  ASSUME TypeOK, OneMapper, OnePair, NEW c \in Client
  PROVE  /\ inMmap # {} /\ pc = "idle" => Due(c) = "op"
         /\ pc = "init" => /\ Due(c) = IF c = caller THEN "params" ELSE "op"
                           /\ \A i \in Pair : sender[i] = "off" /\ reader[i] = "off"
         /\ \A i \in Pair : sender[i] # "off" =>
              Due(c) = IF c = target /\ sender[i] = "half" THEN "pixels" ELSE "op"
<1>1. \A i \in Pair : sender[i] # "off" \/ reader[i] # "off" =>
        (threadsRunning \/ pc = "stop") /\ i = latest
  BY DEF OnePair, Live
<1>2. threadsRunning => inMmap = {} /\ pc = "idle"
  BY DEF OneMapper
<1> QED
  BY <1>1, <1>2 DEF Due, Opening

\* Every word is sent when it is due, and read as what it is.
LEMMA WordStep ==
  ASSUME ScreenInv, ~Overlap, [Next]_vars
  PROVE  WordInv'
<1> USE FrameBufferAssumption
<1>1. /\ TypeOK /\ OneMapper /\ OnePair /\ Ordered /\ InSync /\ InitFirst /\ FramesFit
      /\ cut \subseteq Client
  BY DEF ScreenInv, TypeOK, LinkTypeOK
<1>2. ASSUME NEW c \in Client, Draw(c) \/ Exit(c) \/ Close(c) PROVE WordInv'
  <2>1. /\ UNCHANGED <<pc, caller, sender, sent, cut, served, windowVars, target>>
        /\ gone \subseteq gone'
    BY <1>2 DEF Draw, Exit, Close, linkVars, mainVars, threadVars
  <2> QED
    BY <2>1, NoWord DEF Due, Opening
<1>3. ASSUME Join \/ \E c \in Client : MmapEntry(c), UNCHANGED windowVars PROVE WordInv'
  <2>1. /\ UNCHANGED <<sender, sent, cut, served, windowVars, target, gone>>
        /\ pc # "init" /\ pc' # "init"
    BY <1>3 DEF MmapEntry, Join, linkVars, programVars
  <2> QED
    BY <2>1, NoWord DEF Due, Opening
<1>4. ASSUME NEW c \in Client, MmapExit(c), UNCHANGED windowVars PROVE WordInv'
  <2> DEFINE w == [kind |-> "INIT"]
  <2>1. w \in Word /\ Begins(w.kind) = "op" /\ Leads(w.kind) = "params" /\ w.kind = "INIT"
    BY DEF Word, Begins, Leads
  <2>2. /\ Post(c, <<w>>) /\ CanSend(c)
        /\ UNCHANGED <<served, cut, gone, windowVars, target, sender>>
        /\ pc = "idle" /\ c \in inMmap /\ pc' = "init" /\ caller' = c
    BY <1>4 DEF MmapExit, programVars, threadVars
  <2>3. ~ \E i \in Pair : sender[i] = "half"
    BY <1>1, <2>2 DEF OneMapper, OnePair, Live
  <2>4. \A d \in Client : Due(d) = "op" /\ Due(d)' = IF d = c THEN "params" ELSE "op"
    BY <1>1, <2>2, <2>3 DEF Due, Opening
  <2>5. /\ \A d \in Client \ {c} : sent'[d] = sent[d]
        /\ c \in cut => sent'[c] = sent[c]
        /\ c \notin cut => sent'[c] = sent[c] \o <<w>>
    BY <1>1, <2>1, <2>2, Posts
  <2>6. sent[c] \in Seq(Word)
    BY <1>1 DEF TypeOK, LinkTypeOK
  <2> HIDE DEF w
  <2>7. Ordered'
    BY <2>1, <2>2, <2>4, WordSent
  <2>8. ASSUME data = None, NEW d \in Client \ cut PROVE First(d)'
    <3>1. First(d) /\ Expected(d)' = Expected(d) /\ ~ Opening(d)
      BY <1>1, <2>2, <2>8 DEF InitFirst, Expected, windowVars, Opening
    <3>2. CASE d = c
      <4>1. /\ sent'[c] = sent[c] \o <<w>> /\ sent'[c] # <<>>
            /\ Len(sent'[c]) = Len(sent[c]) + 1 /\ Len(sent[c]) \in Nat
            /\ \A m \in 1 .. Len(sent[c]) : sent'[c][m] = sent[c][m]
            /\ sent'[c][Len(sent[c]) + 1] = w
        BY <2>1, <2>5, <2>6, <2>8, <3>2, Appended
      <4>2. CASE sent[c] = <<>>
        <5>1. Len(sent[c]) = 0
          BY <4>2
        <5>2. Len(sent'[c]) = 1 /\ sent'[c][1].kind = "INIT" /\ target' # c /\ Opening(c)'
          BY <2>1, <2>2, <3>1, <3>2, <4>1, <4>2, <5>1 DEF First, Opening
        <5>3. Expected(d)' = "op"
          BY <3>1, <3>2, <4>2 DEF First
        <5> QED
          BY <3>2, <5>2, <5>3 DEF First
      <4>3. CASE sent[c] # <<>>
        <5>1. Len(sent[c]) # 0
          BY <2>6, <4>3, EmptySeq
        <5> QED
          BY <3>1, <3>2, <4>1, <4>3, <5>1 DEF First
      <4> QED
        BY <4>2, <4>3
    <3>3. CASE d # c
      BY <2>2, <2>5, <3>1, <3>3 DEF First, Opening
    <3> QED
      BY <3>2, <3>3
  <2> QED
    BY <1>1, <2>2, <2>7, <2>8 DEF WordInv, InSync, FramesFit, InitFirst, windowVars
<1>12. ASSUME NEW c \in Client, MmapFails(c), UNCHANGED windowVars PROVE WordInv'
  <2>1. UNCHANGED <<pc, caller, sender, sent, cut, served, windowVars, target, gone>>
    BY <1>12 DEF MmapFails, OpenFails, linkVars, programVars, threadVars
  <2> QED
    BY <2>1, NoWord DEF Due, Opening
<1>5. ASSUME SendParams, UNCHANGED windowVars PROVE WordInv'
  <2> DEFINE w == [kind |-> "params"]
  <2>1. w \in Word /\ Begins(w.kind) = "params" /\ Leads(w.kind) = "op" /\ w.kind = "params"
    BY DEF Word, Begins, Leads
  <2>2. /\ Post(caller, <<w>>) /\ CanSend(caller) /\ caller \in Client
        /\ UNCHANGED <<served, cut, gone, windowVars>>
        /\ pc = "init" /\ pc' = "idle" /\ target' = caller
        /\ caller' = caller
    BY <1>1, <1>5 DEF SendParams, programVars, StartThreads, OneMapper
  <2>3. PICK i \in Pair : sender' = [sender EXCEPT ![i] = "loop"]
    BY <1>5 DEF SendParams, StartThreads
  <2>4. \A j \in Pair : sender[j] = "off"
    BY <1>1, <2>2, NothingDue
  <2>5. \A d \in Client : Due(d) = (IF d = caller THEN "params" ELSE "op") /\ Due(d)' = "op"
    <3>1. \A j \in Pair : sender'[j] # "half"
      BY <1>1, <2>3, <2>4 DEF TypeOK
    <3> QED
      BY <1>1, <2>2, <3>1, NothingDue DEF Due, Opening
  <2>6. /\ \A d \in Client \ {caller} : sent'[d] = sent[d]
        /\ caller \in cut => sent'[caller] = sent[caller]
        /\ caller \notin cut => sent'[caller] = sent[caller] \o <<w>>
    BY <1>1, <2>1, <2>2, Posts
  <2>7. sent[caller] \in Seq(Word)
    BY <1>1, <2>2 DEF TypeOK, LinkTypeOK
  <2> HIDE DEF w
  <2>8. Ordered'
    BY <2>1, <2>2, <2>5, WordSent
  <2>9. ASSUME data = None, NEW d \in Client \ cut PROVE First(d)'
    <3>1. First(d) /\ Expected(d)' = Expected(d) /\ (Opening(d) <=> d = caller)
      BY <1>1, <2>2, <2>9 DEF InitFirst, Expected, windowVars, Opening
    <3>2. CASE d = caller
      <4>1. /\ sent'[d] = sent[d] \o <<w>> /\ sent'[d] # <<>>
            /\ Len(sent'[d]) = Len(sent[d]) + 1 /\ Len(sent[d]) \in Nat
            /\ \A m \in 1 .. Len(sent[d]) : sent'[d][m] = sent[d][m]
            /\ sent'[d][Len(sent[d]) + 1] = w
        BY <2>1, <2>6, <2>7, <2>9, <3>2, Appended
      <4>2. CASE sent[d] = <<>>
        <5>1. Len(sent[d]) = 0
          BY <4>2
        <5>2. sent'[d] # <<>> /\ sent'[d][1].kind = "params"
          BY <2>1, <4>1, <5>1
        <5>3. Expected(d)' = "params"
          BY <3>1, <3>2, <4>2, <5>1 DEF First
        <5> QED
          BY <5>2, <5>3 DEF First
      <4>3. CASE Len(sent[d]) = 1
        <5>1. sent'[d][1] = sent[d][1] /\ sent'[d][2] = w /\ Len(sent'[d]) > 1
          BY <4>1, <4>3
        <5> QED
          BY <2>1, <3>1, <4>1, <4>3, <5>1 DEF First
      <4>4. CASE Len(sent[d]) > 1
        <5>1. sent'[d][1] = sent[d][1] /\ sent'[d][2] = sent[d][2] /\ Len(sent'[d]) > 1
          BY <4>1, <4>4
        <5> QED
          BY <3>1, <4>1, <4>4, <5>1 DEF First
      <4>5. sent[d] # <<>> => Len(sent[d]) # 0
        BY <2>7, <3>2, EmptySeq
      <4> QED
        <5>1. sent[d] = <<>> \/ Len(sent[d]) = 1 \/ Len(sent[d]) > 1
          <6>1. \A n \in Nat : n = 0 \/ n = 1 \/ n > 1
            OBVIOUS
          <6> QED
            BY <4>1, <4>5, <6>1
        <5> QED
          BY <4>2, <4>3, <4>4, <5>1
    <3>3. CASE d # caller
      BY <2>2, <2>6, <3>1, <3>3 DEF First, Opening
    <3> QED
      BY <3>2, <3>3
  <2> QED
    BY <1>1, <2>2, <2>8, <2>9 DEF WordInv, InSync, FramesFit, InitFirst, windowVars
<1>6. ASSUME NEW i \in Pair, ReaderThread(i), OnlyThreads PROVE WordInv'
  <2>1. UNCHANGED <<pc, caller, sender, sent, cut, served, windowVars, target, gone>>
    BY <1>6 DEF ReaderThread, ReadBegin, ReadEnd, ReaderEnds, OnlyThreads, linkVars, mainVars, programVars
  <2> QED
    BY <2>1, NoWord DEF Due, Opening
<1>7. ASSUME NEW i \in Pair, SenderThread(i), OnlyThreads PROVE WordInv'
  <2>1. UNCHANGED <<pc, caller, windowVars, target, gone>>
    BY <1>7 DEF OnlyThreads, mainVars, programVars
  <2>2. sender[i] \in {"loop", "half"} /\ target \in Client /\ buffer \in Picture
    BY <1>1, <1>7 DEF SenderThread, SendFrame, SendPixels, SenderEnds, OnePair, Live, TypeOK
  <2>3. \A j \in Pair : j # i => sender[j] = "off"
    BY <1>1, <2>2 DEF OnePair, Live
  <2>4. \A c \in Client : ~ Opening(c) /\ ~ Opening(c)'
    BY <1>1, <2>1, <2>2 DEF OneMapper, OnePair, Live, Opening
  <2>5. ASSUME NEW v \in {"off", "loop", "half"}, sender' = [sender EXCEPT ![i] = v]
        PROVE  \A c \in Client :
                 /\ Due(c) = IF c = target /\ sender[i] = "half" THEN "pixels" ELSE "op"
                 /\ Due(c)' = IF c = target /\ v = "half" THEN "pixels" ELSE "op"
    <3>1. (\E j \in Pair : sender[j] = "half") <=> sender[i] = "half"
      BY <2>3
    <3>2. (\E j \in Pair : sender'[j] = "half") <=> v = "half"
      BY <1>1, <2>3, <2>5 DEF TypeOK
    <3> QED
      BY <2>1, <2>4, <3>1, <3>2 DEF Due
  <2>6. ASSUME UNCHANGED linkVars, target \in gone \/ UNCHANGED sender \/ SenderEnds(i),
               \E v \in {"off", "loop", "half"} : sender' = [sender EXCEPT ![i] = v]
        PROVE  WordInv'
    <3>1. UNCHANGED <<sent, cut, served>>
      BY <2>6 DEF linkVars
    <3>2. \A c \in Client \ gone : Due(c)' = Due(c)
      BY <2>1, <2>5, <2>6 DEF SenderEnds, Due, Opening
    <3>3. \A c \in Client : Expected(c)' = Expected(c)
      BY <2>1, <3>1 DEF Expected, windowVars
    <3>4. Ordered'
      BY <1>1, <2>1, <3>1, <3>2, <3>3 DEF Ordered, Leading, windowVars
    <3>5. InitFirst'
      BY <1>1, <2>1, <2>4, <3>1, <3>3 DEF InitFirst, First, windowVars
    <3> QED
      BY <1>1, <2>1, <3>4, <3>5 DEF WordInv, InSync, FramesFit, windowVars
  <2>7. ASSUME NEW w \in Word, NEW v \in {"loop", "half"}, CanSend(target), Post(target, <<w>>),
               UNCHANGED <<alive, opened, backlog, served, cut, answer>>,
               sender' = [sender EXCEPT ![i] = v],
               Begins(w.kind) = (IF sender[i] = "half" THEN "pixels" ELSE "op"),
               Leads(w.kind) = (IF v = "half" THEN "pixels" ELSE "op")
        PROVE  WordInv'
    <3>1. Ordered'
      BY <2>1, <2>2, <2>5, <2>7, WordSent
    <3>2. /\ \A d \in Client \ {target} : sent'[d] = sent[d]
          /\ target \in cut => sent'[target] = sent[target]
          /\ target \notin cut => sent'[target] = sent[target] \o <<w>>
          /\ sent[target] \in Seq(Word)
      BY <1>1, <2>2, <2>7, Posts DEF TypeOK, LinkTypeOK
    <3>3. ASSUME data = None, NEW d \in Client \ cut PROVE First(d)'
      <4>1. First(d) /\ Expected(d)' = Expected(d)
        BY <1>1, <2>1, <2>7, <3>3 DEF InitFirst, Expected, windowVars
      <4>2. CASE d = target
        <5>1. /\ sent'[d] # <<>>
              /\ Len(sent'[d]) = Len(sent[d]) + 1 /\ Len(sent[d]) \in Nat
              /\ \A m \in 1 .. Len(sent[d]) : sent'[d][m] = sent[d][m]
          BY <2>7, <3>2, <3>3, <4>2, Appended
        <5>2. \/ Expected(d) = "op" /\ Len(sent[d]) > 1 /\ sent[d][1].kind = "INIT" /\ sent[d][2].kind = "params"
              \/ Expected(d) = "params" /\ sent[d] # <<>> /\ sent[d][1].kind = "params"
          BY <4>1, <4>2 DEF First
        <5>3. sent[d] # <<>> => Len(sent[d]) # 0
          BY <3>2, <4>2, EmptySeq
        <5>4. CASE Len(sent[d]) > 1
          <6>1. sent'[d][1] = sent[d][1] /\ sent'[d][2] = sent[d][2] /\ Len(sent'[d]) > 1
            BY <5>1, <5>4
          <6> QED
            BY <4>1, <5>1, <5>2, <6>1 DEF First
        <5>5. CASE Len(sent[d]) = 1
          <6>1. sent'[d][1] = sent[d][1]
            BY <5>1, <5>5
          <6> QED
            BY <4>1, <5>1, <5>2, <5>5, <6>1 DEF First
        <5> QED
          <6>1. Len(sent[d]) = 1 \/ Len(sent[d]) > 1
            <7>1. \A n \in Nat : n = 0 \/ n = 1 \/ n > 1
              OBVIOUS
            <7>2. sent[d] # <<>>
              BY <5>1, <5>2, <5>3, EmptySeq
            <7> QED
              BY <5>1, <5>3, <7>1, <7>2
          <6> QED
            BY <5>4, <5>5, <6>1
      <4>3. CASE d # target
        BY <2>1, <2>4, <3>2, <4>1, <4>3 DEF First
      <4> QED
        BY <4>2, <4>3
    <3> QED
      BY <1>1, <2>1, <2>7, <3>1, <3>3 DEF WordInv, InSync, FramesFit, InitFirst, windowVars
  <2>8. ASSUME SendFrame(i) PROVE WordInv'
    <3> DEFINE w == [kind |-> "FRAM"]
    <3>1. w \in Word /\ Begins(w.kind) = "op" /\ Leads(w.kind) = "pixels"
      BY DEF Word, Begins, Leads
    <3>2. sender[i] = "loop" /\ sender' = [sender EXCEPT ![i] = "half"] /\ Transmit(w)
      BY <2>8 DEF SendFrame
    <3> HIDE DEF w
    <3> QED
      BY <2>6, <2>7, <3>1, <3>2 DEF Transmit
  <2>9. ASSUME SendPixels(i) PROVE WordInv'
    <3> DEFINE w == [kind |-> "pixels", of |-> buffer]
    <3>1. w \in Word /\ Begins(w.kind) = "pixels" /\ Leads(w.kind) = "op"
      BY <2>2 DEF Word, Begins, Leads
    <3>2. sender[i] = "half" /\ sender' = [sender EXCEPT ![i] = "loop"] /\ Transmit(w)
      BY <2>9 DEF SendPixels
    <3> HIDE DEF w
    <3> QED
      BY <2>6, <2>7, <3>1, <3>2 DEF Transmit
  <2>10. ASSUME SenderEnds(i) PROVE WordInv'
    <3>1. UNCHANGED linkVars /\ sender' = [sender EXCEPT ![i] = "off"]
      BY <2>10 DEF SenderEnds
    <3> QED
      BY <2>6, <2>10, <3>1
  <2> QED
    BY <1>7, <2>8, <2>9, <2>10 DEF SenderThread
<1>8. ASSUME Killed PROVE WordInv'
  <2>1. UNCHANGED <<pc, caller, sender, sent, cut, served, windowVars, target, gone>>
    BY <1>8 DEF Killed, SigPipe, mainVars, programVars, threadVars
  <2> QED
    BY <2>1, NoWord DEF Due, Opening
<1>9. ASSUME Server PROVE WordInv'
  <2>1. UNCHANGED <<programVars, mainVars, threadVars>>
    BY <1>9 DEF Server
  <2>2. ASSUME AcceptClient PROVE WordInv'
    <3>1. /\ served = None /\ served' \in Client /\ expects' = "op"
          /\ UNCHANGED <<sent, cut, inSync, data, timer, strays, shown>>
      BY <1>1, <2>2 DEF AcceptClient, Accept, TypeOK, LinkTypeOK
    <3>2. \A c \in Client : Due(c)' = Due(c) /\ Opening(c)' = Opening(c) /\ Expected(c)' = Expected(c)
      BY <1>1, <2>1, <3>1 DEF Due, Opening, Expected, mainVars, threadVars
    <3>3. Ordered'
      BY <1>1, <2>1, <3>1, <3>2 DEF Ordered, Leading, programVars
    <3>4. InitFirst'
      BY <1>1, <2>1, <3>1, <3>2 DEF InitFirst, First, threadVars
    <3> QED
      BY <1>1, <3>1, <3>3, <3>4 DEF WordInv, InSync, FramesFit
  <2> QED
    BY <1>1, <1>9, <2>1, <2>2, HangupWords, WordRead DEF Server, PreemptClient, Timeout, Ordered
<1>10. ASSUME Tick PROVE WordInv'
  <2>1. /\ UNCHANGED <<pc, caller, sender, sent, cut, served, target, gone>>
        /\ UNCHANGED <<expects, inSync, data, timer, strays>>
    BY <1>10 DEF Tick, linkVars, mainVars, programVars, threadVars
  <2>2. \A c \in Client : Due(c)' = Due(c) /\ Opening(c)' = Opening(c) /\ Expected(c)' = Expected(c)
    BY <2>1 DEF Due, Opening, Expected
  <2>3. Ordered'
    BY <1>1, <2>1, <2>2 DEF Ordered, Leading
  <2>4. InitFirst'
    BY <1>1, <2>1, <2>2 DEF InitFirst, First
  <2> QED
    BY <1>1, <2>1, <2>3, <2>4 DEF WordInv, InSync, FramesFit
<1>11. CASE UNCHANGED vars
  <2>1. UNCHANGED <<pc, caller, sender, sent, cut, served, windowVars, target, gone>>
    BY <1>11 DEF vars, linkVars, mainVars, programVars, threadVars
  <2> QED
    BY <2>1, NoWord DEF Due, Opening
<1> QED
  BY <1>2, <1>3, <1>4, <1>5, <1>6, <1>7, <1>8, <1>9, <1>10, <1>11, <1>12 DEF Next, Programs, Main, Threads
-----------------------------------------------------------------------------
(* Theorems.                                                                *)

\* The strengthening: one pair of threads at a time, and on every connection words
\* that lead from what the server expects to what the agent sends next.
THEOREM Screen ==
  ASSUME ~Overlap
  PROVE  Spec => []ScreenInv
<1>1. ScreenInv /\ [Next]_vars => ScreenInv'
  BY TypeStep, ThreadStep, WordStep DEF ScreenInv, WordInv
<1> QED
  BY <1>1, ScreenInit, PTL DEF Spec

\* The server reads every word of a program that is there as what it is.
THEOREM StaysInSync ==
  ASSUME ~Overlap
  PROVE  Spec => []InSync
<1>1. ScreenInv => InSync
  BY DEF ScreenInv
<1> QED
  BY <1>1, Screen, PTL

\* No thread that uses the buffer outlives it.
THEOREM BufferStays ==
  ASSUME ~Overlap
  PROVE  Spec => []BufferHeld
<1>1. ScreenInv => BufferHeld
  BY DEF ScreenInv, OnePair, Live, BufferHeld
<1> QED
  BY <1>1, Screen, PTL

\* There is a picture for every frame.
THEOREM FramesHaveRoom ==
  ASSUME ~Overlap
  PROVE  Spec => []FramesFit
<1>1. ScreenInv => FramesFit
  BY DEF ScreenInv
<1> QED
  BY <1>1, Screen, PTL

\* Programs, threads and the window keep their types, and no connection holds more
\* than it has room for.
THEOREM TypeCorrect ==
  ASSUME ~Overlap
  PROVE  Spec => []TypeOK
<1>1. ScreenInv => TypeOK
  BY DEF ScreenInv
<1> QED
  BY <1>1, Screen, PTL
=============================================================================
