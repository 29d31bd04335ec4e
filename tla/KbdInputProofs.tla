---------------------------- MODULE KbdInputProofs ----------------------------
(***************************************************************************)
(* What holds of KbdInput for any users, programs and lengths of the queue *)
(* and of the read buffer, while a read returns all that gathers in the    *)
(* queue.                                                                  *)
(***************************************************************************)
EXTENDS Integers, KbdInputInv, SequenceTheorems, TLAPS

-----------------------------------------------------------------------------
(* Items and what they leave down.                                         *)

LEMMA DownWithout ==
  ASSUME NEW items, NEW k, NEW b, \A i \in DOMAIN items : items[i].key # k
  PROVE  DownAfter(items, k, b) = b
BY DEF DownAfter

LEMMA DownWith ==
  ASSUME NEW items \in Seq(Item), NEW k, NEW b, NEW i \in DOMAIN items,
         items[i].key = k, \A j \in DOMAIN items : j > i => items[j].key # k
  PROVE  DownAfter(items, k, b) = items[i].down
<1> DEFINE at == {j \in DOMAIN items : items[j].key = k}
<1>1. i \in at /\ \A j \in at : j <= i
  BY LenProperties
<1>2. \A m \in at : (\A j \in at : j <= m) => m = i
  BY <1>1, LenProperties
<1>3. (CHOOSE m \in at : \A j \in at : j <= m) = i
  BY <1>1, <1>2
<1>4. at # {}
  BY <1>1
<1> HIDE DEF at
<1> QED
  BY <1>3, <1>4 DEF DownAfter, at

\* The items of s and then those of t.
LEMMA Joined ==
  ASSUME NEW s \in Seq(Item), NEW t \in Seq(Item), HasLast(s), HasLast(t)
  PROVE  /\ HasLast(s \o t)
         /\ \A k \in Key : \A b :
              DownAfter(s \o t, k, b) = DownAfter(t, k, DownAfter(s, k, b))
<1>0. PICK u : u = s \o t
  OBVIOUS
<1>u. u \in Seq(Item)
  BY <1>0, ConcatProperties
<1>1. PICK m \in Nat, n \in Nat :
      /\ u \in Seq(Item) /\ m = Len(s) /\ n = Len(t)
      /\ DOMAIN s = 1..m /\ DOMAIN t = 1..n /\ DOMAIN u = 1..m + n
      /\ \A i \in 1..m : u[i] = s[i]
      /\ \A i \in 1..n : m + i \in 1..m + n /\ u[m + i] = t[i]
      /\ \A i \in 1..m + n : i > m => i - m \in 1..n /\ u[i] = t[i - m]
  <2>1. PICK m \in Nat, n \in Nat : m = Len(s) /\ n = Len(t)
    BY LenProperties
  <2>2. u \in Seq(Item) /\ Len(u) = m + n
    BY <1>0, <2>1, ConcatProperties
  <2>3. DOMAIN s = 1..m /\ DOMAIN t = 1..n /\ DOMAIN u = 1..m + n
    BY <2>1, <2>2, LenProperties
  <2>4. \A i \in 1..m + n : u[i] = IF i <= m THEN s[i] ELSE t[i - m]
    BY <1>0, <2>1, ConcatProperties
  <2>5. \A i \in 1..m : i \in 1..m + n /\ u[i] = s[i]
    BY <2>4
  <2>6. \A i \in 1..n : m + i \in 1..m + n /\ u[m + i] = t[i]
    BY <2>4
  <2>7. \A i \in 1..m + n : i > m => i - m \in 1..n /\ u[i] = t[i - m]
    BY <2>4
  <2> QED
    BY <2>1, <2>2, <2>3, <2>5, <2>6, <2>7
<1>2. ASSUME NEW i \in DOMAIN u
      PROVE  \/ i \in DOMAIN s /\ u[i] = s[i]
             \/ i - m \in DOMAIN t /\ u[i] = t[i - m]
  BY <1>1
<1> SUFFICES /\ HasLast(u)
             /\ \A k \in Key : \A b : DownAfter(u, k, b) = DownAfter(t, k, DownAfter(s, k, b))
  BY <1>0
<1> SUFFICES ASSUME NEW k \in Key
             PROVE  /\ \/ \A i \in DOMAIN u : u[i].key # k
                       \/ \E i \in DOMAIN u :
                            /\ u[i].key = k
                            /\ \A j \in DOMAIN u : j > i => u[j].key # k
                    /\ \A b : DownAfter(u, k, b) = DownAfter(t, k, DownAfter(s, k, b))
  BY DEF HasLast
<1>3. CASE \E i \in DOMAIN t : t[i].key = k /\ \A j \in DOMAIN t : j > i => t[j].key # k
  <2>1. PICK i \in DOMAIN t : t[i].key = k /\ \A j \in DOMAIN t : j > i => t[j].key # k
    BY <1>3
  <2>2. PICK p \in DOMAIN u : p = m + i /\ u[p] = t[i]
    BY <1>1
  <2>3. \A j \in DOMAIN u : j > p => u[j].key # k
    <3> SUFFICES ASSUME NEW j \in DOMAIN u, j > p
                 PROVE  u[j].key # k
      OBVIOUS
    <3>1. j - m \in DOMAIN t /\ j - m > i /\ u[j] = t[j - m]
      <4>1. j \in 1..m + n /\ i \in 1..n /\ m + i < j
        BY <1>1, <2>2
      <4>2. j > m /\ j - m > i
        BY <4>1
      <4> QED
        BY <1>1, <4>1, <4>2
    <3> QED
      BY <2>1, <3>1
  <2>4. \A b : DownAfter(u, k, b) = t[i].down
    <3> SUFFICES ASSUME NEW b PROVE DownAfter(u, k, b) = t[i].down
      OBVIOUS
    <3>1. u[p].key = k
      BY <2>1, <2>2
    <3>2. DownAfter(u, k, b) = u[p].down
      BY <1>u, <2>3, <3>1, DownWith, SMTT(30)
    <3> QED
      BY <2>2, <3>2
  <2>5. \A b : DownAfter(t, k, b) = t[i].down
    BY <2>1, DownWith, ZenonT(60)
  <2> QED
    BY <2>1, <2>2, <2>3, <2>4, <2>5
<1>4. CASE \A i \in DOMAIN t : t[i].key # k
  <2>1. \A b : DownAfter(t, k, b) = b
    BY <1>4, DownWithout
  <2>2. CASE \E i \in DOMAIN s : s[i].key = k /\ \A j \in DOMAIN s : j > i => s[j].key # k
    <3>1. PICK i \in DOMAIN s : s[i].key = k /\ \A j \in DOMAIN s : j > i => s[j].key # k
      BY <2>2
    <3>2. i \in DOMAIN u /\ u[i] = s[i]
      BY <1>1
    <3>3. \A j \in DOMAIN u : j > i => u[j].key # k
      BY <1>2, <1>4, <3>1
    <3>4. \A b : DownAfter(u, k, b) = s[i].down
      <4> SUFFICES ASSUME NEW b PROVE DownAfter(u, k, b) = s[i].down
        OBVIOUS
      <4>1. DownAfter(u, k, b) = u[i].down
        BY <1>u, <3>1, <3>2, <3>3, DownWith, SMTT(30)
      <4> QED
        BY <3>2, <4>1
    <3>5. \A b : DownAfter(s, k, b) = s[i].down
      BY <3>1, DownWith, ZenonT(60)
    <3> QED
      BY <2>1, <3>1, <3>2, <3>3, <3>4, <3>5
  <2>3. CASE \A i \in DOMAIN s : s[i].key # k
    <3>1. \A i \in DOMAIN u : u[i].key # k
      BY <1>2, <1>4, <2>3
    <3>2. \A b : DownAfter(u, k, b) = b
      BY <3>1, DownWithout
    <3>3. \A b : DownAfter(s, k, b) = b
      BY <2>3, DownWithout
    <3> QED
      BY <2>1, <3>1, <3>2, <3>3
  <2> QED
    BY <2>2, <2>3 DEF HasLast
<1> QED
  BY <1>3, <1>4 DEF HasLast

\* One item.
LEMMA Single ==
  ASSUME NEW item \in Item
  PROVE  /\ <<item>> \in Seq(Item) /\ HasLast(<<item>>)
         /\ \A k, b : DownAfter(<<item>>, k, b) = IF item.key = k THEN item.down ELSE b
<1>1. <<item>> \in Seq(Item) /\ DOMAIN <<item>> = {1} /\ <<item>>[1] = item
  OBVIOUS
<1>2. HasLast(<<item>>)
  BY <1>1 DEF HasLast
<1>3. ASSUME NEW k, NEW b
      PROVE  DownAfter(<<item>>, k, b) = IF item.key = k THEN item.down ELSE b
  <2>0. PICK u \in Seq(Item) : u = <<item>>
    BY <1>1
  <2>1. CASE item.key = k
    <3>1. 1 \in DOMAIN u /\ u[1] = item /\ \A j \in DOMAIN u : ~ (j > 1)
      BY <1>1, <2>0
    <3>2. DownAfter(u, k, b) = u[1].down
      BY <2>1, <3>1, DownWith
    <3> QED
      BY <2>0, <2>1, <3>1, <3>2
  <2>2. CASE item.key # k
    BY <1>1, <2>2, DownWithout
  <2> QED
    BY <2>1, <2>2
<1> QED
  BY <1>1, <1>2, <1>3

LEMMA None0 ==
  /\ <<>> \in Seq(Item) /\ HasLast(<<>>)
  /\ \A k, b : DownAfter(<<>>, k, b) = b
<1>1. <<>> \in Seq(Item) /\ DOMAIN <<>> = {}
  OBVIOUS
<1> QED
  BY <1>1, DownWithout DEF HasLast
-----------------------------------------------------------------------------
(* The window.                                                             *)

LEMMA Bounds ==
  /\ QueueBound \in Nat /\ QueueBound > PasteLimit
  /\ \A n \in Nat : n < TypeAhead \/ n <= PasteLimit => n < QueueBound
BY KbdAssumption DEF QueueBound

LEMMA ItemParts ==
  /\ \A item \in Item : item.key \in Key /\ item.down \in BOOLEAN
  /\ \A k \in Key, d \in BOOLEAN : [key |-> k, down |-> d] \in Item
BY DEF Item

\* An event at the window.
LEMMA Event ==
  ASSUME TypeOK, LastSeen, HasLast(keyData), NEW item \in Item, KeyEvent(item),
         Len(keyData) < QueueBound
  PROVE  /\ keyData' \in Seq(Item) /\ Len(keyData') <= QueueBound /\ HasLast(keyData')
         /\ lastItem' \in Item \cup {None} /\ pressed' \subseteq Key /\ LastSeen'
         /\ \A h \in Seq(Item), k \in Key, b \in BOOLEAN :
              HasLast(h) /\ (DownAfter(h \o keyData, k, b) <=> k \in pressed) =>
                (DownAfter(h \o keyData', k, b) <=> k \in pressed')
<1>1. /\ keyData' = (IF lastItem = item THEN keyData ELSE Append(keyData, item))
      /\ lastItem' = item
      /\ pressed' = IF item.down THEN pressed \cup {item.key} ELSE pressed \ {item.key}
      /\ keyData \in Seq(Item) /\ pressed \subseteq Key /\ item.key \in Key
  BY ItemParts DEF KeyEvent, EnqueueItem, Apply, TypeOK
<1>2. pressed' \subseteq Key /\ lastItem' \in Item \cup {None} /\ LastSeen'
  BY <1>1 DEF LastSeen
<1>3. CASE lastItem = item
  <2>1. item # None
    BY KbdAssumption
  <2>2. item.down <=> item.key \in pressed
    BY <1>3, <2>1 DEF LastSeen
  <2>3. keyData' = keyData /\ pressed' = pressed
    BY <1>1, <1>3, <2>2
  <2> QED
    BY <1>1, <1>2, <2>3 DEF TypeOK
<1>4. CASE lastItem # item
  <2>1. keyData' = Append(keyData, item)
    BY <1>1, <1>4
  <2>2. keyData' = keyData \o <<item>>
    BY <1>1, <2>1, AppendIsConcat
  <2>3. keyData' \in Seq(Item) /\ Len(keyData') <= QueueBound
    <3>1. keyData' \in Seq(Item) /\ Len(keyData') = Len(keyData) + 1
      BY <1>1, <2>1, AppendProperties
    <3>2. Len(keyData) \in Nat
      BY <1>1, LenProperties
    <3> QED
      BY <3>1, <3>2, Bounds
  <2>4. /\ HasLast(keyData')
        /\ \A k \in Key : \A b : DownAfter(keyData', k, b) =
             IF item.key = k THEN item.down ELSE DownAfter(keyData, k, b)
    <3>1. PICK u \in Seq(Item) : u = <<item>>
      BY Single
    <3>2. HasLast(u) /\ \A k, b : DownAfter(u, k, b) = IF item.key = k THEN item.down ELSE b
      BY <3>1, Single
    <3>3. /\ HasLast(keyData \o u)
          /\ \A k \in Key : \A b :
               DownAfter(keyData \o u, k, b) = DownAfter(u, k, DownAfter(keyData, k, b))
      BY <1>1, <3>2, Joined
    <3> QED
      BY <2>2, <3>1, <3>2, <3>3
  <2>5. ASSUME NEW h \in Seq(Item), NEW k \in Key, NEW b \in BOOLEAN, HasLast(h),
               DownAfter(h \o keyData, k, b) <=> k \in pressed
        PROVE  DownAfter(h \o keyData', k, b) <=> k \in pressed'
    <3> DEFINE b1 == DownAfter(h, k, b)
    <3>1. DownAfter(h \o keyData, k, b) = DownAfter(keyData, k, b1)
      BY <1>1, <2>5, Joined
    <3>2. DownAfter(h \o keyData', k, b) = DownAfter(keyData', k, b1)
      BY <2>3, <2>4, <2>5, Joined
    <3>3. DownAfter(keyData', k, b1) =
            IF item.key = k THEN item.down ELSE DownAfter(keyData, k, b1)
      BY <2>4
    <3> HIDE DEF b1
    <3>4. CASE item.key = k
      BY <1>1, <3>2, <3>3, <3>4
    <3>5. CASE item.key # k
      <4>1. k \in pressed' <=> k \in pressed
        BY <1>1, <3>5
      <4>2. DownAfter(h \o keyData', k, b) = DownAfter(h \o keyData, k, b)
        BY <3>1, <3>2, <3>3, <3>5
      <4> QED
        BY <2>5, <4>1, <4>2
    <3> QED
      BY <3>4, <3>5
  <2> QED
    BY <1>2, <2>3, <2>4, <2>5
<1> QED
  BY <1>3, <1>4

\* The keys agree as long as what is on its way leaves each of them as before.
LEMMA AgreeKept ==
  ASSUME KeysAgree, TypeOK, Answers,
         UNCHANGED <<answer, view>>, cut \subseteq cut',
         \A c \in Client : opened[c] => opened'[c],
         \A h \in Seq(Item), k \in Key, b \in BOOLEAN :
              HasLast(h) /\ (DownAfter(h \o keyData, k, b) <=> k \in pressed) =>
                (DownAfter(h \o keyData', k, b) <=> k \in pressed')
  PROVE  KeysAgree'
<1> SUFFICES ASSUME NEW c \in Client, c \notin cut', \A d \in Client : opened'[d] => d = c,
                    NEW k \in Key
             PROVE  WillBeDown(c, k)' <=> k \in pressed'
  BY DEF KeysAgree
<1>1. PICK h : h = Answered(c)
  OBVIOUS
<1>2. PICK b \in BOOLEAN : b = (k \in view[c])
  <2> WITNESS (k \in view[c]) \in BOOLEAN
  <2> QED
    OBVIOUS
<1>3. h \in Seq(Item) /\ HasLast(h)
  <2>1. CASE answer[c] = <<>>
    BY <1>1, <2>1, None0 DEF Answered
  <2>2. CASE answer[c] # <<>>
    <3>1. answer[c] \in Seq(Seq(Item))
      BY DEF TypeOK, LinkTypeOK
    <3>2. 1 \in DOMAIN answer[c] /\ answer[c][1] \in Seq(Item) /\ h = answer[c][1]
      BY <1>1, <2>2, <3>1 DEF Answered
    <3> QED
      BY <3>2 DEF Answers
  <2> QED
    BY <2>1, <2>2
<1>4. DownAfter(h \o keyData, k, b) <=> k \in pressed
  <2>1. WillBeDown(c, k) <=> k \in pressed
    BY DEF KeysAgree
  <2> QED
    BY <1>1, <1>2, <2>1 DEF WillBeDown, OnTheWay
<1>5. DownAfter(h \o keyData', k, b) <=> k \in pressed'
  BY <1>3, <1>4
<1>6. Answered(c)' = h /\ (k \in view'[c]) = b
  BY <1>1, <1>2 DEF Answered
<1> QED
  BY <1>5, <1>6 DEF WillBeDown, OnTheWay

\* While no keys move, the rest of the window does not matter.
LEMMA QuietKeys ==
  ASSUME KbdInv, UNCHANGED <<keyData, lastItem, pressed>>
  PROVE  /\ keyData' \in Seq(Item) /\ Len(keyData') <= QueueBound /\ HasLast(keyData')
         /\ lastItem' \in Item \cup {None} /\ pressed' \subseteq Key /\ LastSeen'
         /\ \A h \in Seq(Item), k \in Key, b \in BOOLEAN :
              HasLast(h) /\ (DownAfter(h \o keyData, k, b) <=> k \in pressed) =>
                (DownAfter(h \o keyData', k, b) <=> k \in pressed')
BY DEF KbdInv, TypeOK, LastSeen, Answers

LEMMA WindowStep ==
  ASSUME KbdInv, Window
  PROVE  KbdInv'
<1> DEFINE Good ==
         /\ keyData' \in Seq(Item) /\ Len(keyData') <= QueueBound /\ HasLast(keyData')
         /\ lastItem' \in Item \cup {None} /\ pressed' \subseteq Key /\ LastSeen'
         /\ \A h \in Seq(Item), k \in Key, b \in BOOLEAN :
              HasLast(h) /\ (DownAfter(h \o keyData, k, b) <=> k \in pressed) =>
                (DownAfter(h \o keyData', k, b) <=> k \in pressed')
       Typed1 ==
         /\ focus' \in BOOLEAN /\ captured' \in BOOLEAN /\ held' \subseteq Typed
         /\ pasting' \in Seq(Item) /\ tryCount' \in 0..PasteTries
<1>1. TypeOK /\ LastSeen /\ Answers /\ Known /\ OneRead /\ KeysAgree
  BY DEF KbdInv
<1>2. /\ focus \in BOOLEAN /\ captured \in BOOLEAN /\ held \subseteq Typed
      /\ pasting \in Seq(Item) /\ tryCount \in 0..PasteTries /\ HasLast(keyData)
      /\ Len(keyData) \in Nat
  BY <1>1, LenProperties DEF TypeOK, Answers
<1>3. UNCHANGED <<keyData, lastItem, pressed>> => Good
  BY QuietKeys
<1>4. ASSUME NEW item \in Item, KeyEvent(item), Len(keyData) < QueueBound PROVE Good
  BY <1>1, <1>2, <1>4, Event
<1> HIDE DEF Good
<1>5. Good /\ Typed1
  <2>1. ASSUME NEW k \in Typed, KeyDown(k) PROVE Good /\ Typed1
    <3>1. PICK item \in Item : item = [key |-> k, down |-> TRUE]
      BY KbdAssumption, ItemParts
    <3>2. KeyEvent(item) /\ Len(keyData) < QueueBound
      BY <1>2, <2>1, <3>1, Bounds DEF KeyDown, UserActs
    <3>3. Typed1
      BY <1>2, <2>1 DEF KeyDown
    <3> QED
      BY <1>4, <3>2, <3>3
  <2>2. ASSUME NEW k \in Typed, KeyUp(k) PROVE Good /\ Typed1
    <3>1. PICK item \in Item : item = [key |-> k, down |-> FALSE]
      BY KbdAssumption, ItemParts
    <3>2. focus => KeyEvent(item) /\ Len(keyData) < QueueBound
      BY <1>2, <2>2, <3>1, Bounds DEF KeyUp, UserActs
    <3>3. ~ focus => UNCHANGED <<keyData, lastItem, pressed>>
      BY <2>2 DEF KeyUp
    <3>4. Typed1
      BY <1>2, <2>2 DEF KeyUp
    <3> QED
      BY <1>3, <1>4, <3>2, <3>3, <3>4
  <2>3. CASE ChangeFocus
    BY <1>2, <1>3, <2>3 DEF ChangeFocus
  <2>4. CASE ToggleCapture
    BY <1>2, <1>3, <2>4 DEF ToggleCapture
  <2>5. CASE StartPaste
    <3>1. pasting' \in Seq(Item) /\ 0 \in 0..PasteTries
      BY <2>5, KbdAssumption DEF StartPaste
    <3> QED
      BY <1>2, <1>3, <2>5, <3>1 DEF StartPaste
  <2>6. CASE PasteKey
    <3>1. Head(pasting) \in Item /\ Tail(pasting) \in Seq(Item) /\ 0 \in 0..PasteTries
      BY <1>2, <2>6, KbdAssumption, HeadTailProperties DEF PasteKey
    <3>2. KeyEvent(Head(pasting)) /\ Len(keyData) < QueueBound
      BY <1>2, <2>6, Bounds DEF PasteKey
    <3>3. Typed1
      BY <1>2, <2>6, <3>1 DEF PasteKey
    <3> QED
      BY <1>4, <3>1, <3>2, <3>3
  <2>7. CASE PasteWait
    <3>1. tryCount' \in 0..PasteTries /\ pasting' \in Seq(Item)
      <4>1. CASE tryCount < PasteTries
        BY <1>2, <2>7, <4>1, KbdAssumption DEF PasteWait
      <4>2. CASE ~ (tryCount < PasteTries)
        BY <2>7, <4>2, None0, KbdAssumption DEF PasteWait
      <4> QED
        BY <4>1, <4>2
    <3> QED
      BY <1>2, <1>3, <2>7, <3>1 DEF PasteWait
  <2> QED
    BY <2>1, <2>2, <2>3, <2>4, <2>5, <2>6, <2>7 DEF Window, Paste
<1>6. /\ UNCHANGED <<alive, opened, backlog, served, cut, reset, sent, answer>>
      /\ UNCHANGED <<initialized, awaiting, enabled, reader, lengthSent, view>>
  BY DEF Window, linkVars, serverVars, agentVars
<1>7. TypeOK'
  <2>1. LinkTypeOK(Message, Seq(Item))'
    BY <1>1, <1>6 DEF TypeOK, LinkTypeOK
  <2> QED
    BY <1>1, <1>5, <1>6, <2>1 DEF TypeOK, Good
<1>8. Answers' /\ Known' /\ OneRead'
  BY <1>1, <1>5, <1>6 DEF Answers, Known, OneRead, Good
<1>9. KeysAgree'
  <2>1. UNCHANGED <<answer, view>> /\ cut \subseteq cut' /\ \A c \in Client : opened[c] => opened'[c]
    BY <1>6
  <2> QED
    BY <1>1, <1>5, <2>1, AgreeKept DEF Good
<1> QED
  BY <1>5, <1>7, <1>8, <1>9 DEF KbdInv, Good
-----------------------------------------------------------------------------
(* The server.                                                             *)

LEMMA MessageKinds ==
  /\ Messages \subseteq Message
  /\ LengthOf # [op |-> "INIT"] /\ LengthOf # [op |-> "READ"]
  /\ \A len \in 1..99 : [len |-> len] \in Messages => len = ReadItems
<1>1. \A len, o : [len |-> len] # [op |-> o]
  <2> SUFFICES ASSUME NEW len, NEW o, [len |-> len] = [op |-> o] PROVE FALSE
    OBVIOUS
  <2>1. DOMAIN [len |-> len] = {"len"} /\ DOMAIN [op |-> o] = {"op"}
    OBVIOUS
  <2> QED
    BY <2>1
<1>2. \A x, y : [len |-> x] = [len |-> y] => x = y
  <2> SUFFICES ASSUME NEW x, NEW y, [len |-> x] = [len |-> y] PROVE x = y
    OBVIOUS
  <2>1. [len |-> x].len = [len |-> y].len
    OBVIOUS
  <2> QED
    BY <2>1
<1>3. ReadItems \in 1..99
  BY KbdAssumption
<1>4. Messages \subseteq Message
  BY <1>3 DEF Messages, Message, LengthOf
<1> QED
  BY <1>1, <1>2, <1>4 DEF Messages, LengthOf

\* The keys and what depends on them do not change while the queue, the answers
\* and the window stay.
LEMMA Elsewhere ==
  ASSUME KbdInv, UNCHANGED <<windowVars, keyData, lastItem, answer, view>>,
         cut \subseteq cut', \A c \in Client : opened[c] => opened'[c],
         LinkTypeOK(Message, Seq(Item))', initialized' \in BOOLEAN, awaiting' \in BOOLEAN,
         enabled' \in [Client -> BOOLEAN], reader' \in Client \cup {None},
         lengthSent' \in BOOLEAN, Known', OneRead'
  PROVE  KbdInv'
<1>1. TypeOK /\ LastSeen /\ Answers /\ KeysAgree
  BY DEF KbdInv
<1>2. UNCHANGED <<keyData, lastItem, pressed>>
  BY DEF windowVars
<1>3. TypeOK'
  BY <1>1 DEF TypeOK, windowVars
<1>4. LastSeen' /\ Answers'
  BY <1>1, <1>2 DEF LastSeen, Answers
<1>5. KeysAgree'
  BY <1>1, <1>2, AgreeKept, QuietKeys
<1> QED
  BY <1>3, <1>4, <1>5 DEF KbdInv

LEMMA HangupKept ==
  ASSUME KbdInv, served # None, HangupClient, UNCHANGED <<windowVars, lastItem, agentVars>>
  PROVE  KbdInv'
<1>1. TypeOK /\ LinkTypeOK(Message, Seq(Item)) /\ Known /\ OneRead
  BY DEF KbdInv, TypeOK
<1>2. /\ served' = None /\ cut' = cut \cup {served}
      /\ reset' = reset \cup {c \in {served} : sent[c] # <<>>}
      /\ sent' = [sent EXCEPT ![served] = <<>>]
      /\ UNCHANGED <<alive, opened, backlog, answer, initialized, keyData>> /\ awaiting' = FALSE
  BY DEF HangupClient, Hangup
<1>3. /\ UNCHANGED <<enabled, reader, lengthSent, view>>
  BY DEF agentVars
<1>4. served \in Client /\ <<>> \in Seq(Message)
  BY <1>1 DEF LinkTypeOK
<1>5. LinkTypeOK(Message, Seq(Item))'
  BY <1>1, <1>2, <1>4 DEF LinkTypeOK
<1>6. Known'
  BY <1>1, <1>2 DEF Known
<1>7. OneRead'
  <2>1. \A c \in Client : sent'[c] = sent[c] \/ sent'[c] = <<>>
    BY <1>1, <1>2, <1>4 DEF LinkTypeOK
  <2>2. \A c \in Client \ cut' : sent'[c] = sent[c] /\ c \in Client \ cut
    BY <1>1, <1>2, <1>4 DEF LinkTypeOK
  <2>3. DOMAIN <<>> = {}
    OBVIOUS
  <2> QED
    BY <1>1, <1>2, <1>3, <2>1, <2>2, <2>3 DEF OneRead
<1>8. /\ initialized' \in BOOLEAN /\ awaiting' \in BOOLEAN
      /\ enabled' \in [Client -> BOOLEAN] /\ reader' \in Client \cup {None}
      /\ lengthSent' \in BOOLEAN
  BY <1>1, <1>2, <1>3 DEF TypeOK
<1> QED
  BY <1>2, <1>3, <1>5, <1>6, <1>7, <1>8, Elsewhere

LEMMA AcceptStep ==
  ASSUME KbdInv, AcceptClient, UNCHANGED <<windowVars, lastItem, agentVars>>
  PROVE  KbdInv'
<1>1. TypeOK /\ LinkTypeOK(Message, Seq(Item)) /\ Known /\ OneRead
  BY DEF KbdInv, TypeOK
<1>2. /\ backlog # <<>> /\ served' = Head(backlog) /\ backlog' = Tail(backlog)
      /\ UNCHANGED <<alive, opened, cut, reset, sent, answer, keyData>>
      /\ initialized' = FALSE /\ awaiting' = FALSE
  BY DEF AcceptClient, Accept
<1>3. UNCHANGED <<enabled, reader, lengthSent, view>>
  BY DEF agentVars
<1>4. /\ backlog \in Seq(Client) /\ Len(backlog) \in Nat /\ DOMAIN backlog = 1..Len(backlog)
      /\ Head(backlog) = backlog[1] /\ 1 \in DOMAIN backlog /\ backlog[1] \in Client
  BY <1>1, <1>2, LenProperties DEF LinkTypeOK
<1>5. /\ Tail(backlog) \in Seq(Client)
      /\ \A i \in DOMAIN Tail(backlog) : i + 1 \in DOMAIN backlog /\ Tail(backlog)[i] = backlog[i + 1]
  BY <1>2, <1>4
<1>6. LinkTypeOK(Message, Seq(Item))'
  BY <1>1, <1>2, <1>4, <1>5 DEF LinkTypeOK
<1>7. Known'
  BY <1>1, <1>2, <1>4, <1>5 DEF Known
<1>8. OneRead'
  BY <1>1, <1>2, <1>3 DEF OneRead
<1>9. /\ enabled' \in [Client -> BOOLEAN] /\ reader' \in Client \cup {None}
      /\ lengthSent' \in BOOLEAN
  BY <1>1, <1>3 DEF TypeOK
<1> QED
  BY <1>2, <1>3, <1>6, <1>7, <1>8, <1>9, Elsewhere

\* A message is read.
LEMMA Took ==
  ASSUME TypeOK, OneRead, served \in Client, sent[served] # <<>>, Take,
         UNCHANGED <<cut, reader, lengthSent>>,
         \A c \in Client \ {served} : answer'[c] = answer[c]
  PROVE  /\ sent' \in [Client -> Seq(Message)]
         /\ Head(sent[served]) \in Messages
         /\ UNCHANGED answer => OneRead'
         /\ \A c \in Client : \A i \in DOMAIN sent'[c] : sent'[c][i] \in Messages
         /\ \A c \in Client \ {served} : sent'[c] = sent[c]
         /\ Head(sent[served]) = LengthOf /\ served \notin cut =>
              sent'[served] = <<>> /\ reader = served /\ lengthSent /\ answer[served] = <<>>
<1>1. PICK s \in Seq(Message) : s = sent[served]
  BY DEF TypeOK, LinkTypeOK
<1>2. s # <<>> /\ sent' = [sent EXCEPT ![served] = Tail(s)]
  BY <1>1 DEF Take
<1>3. PICK n \in Nat : n = Len(s)
  BY LenProperties
<1>4. /\ DOMAIN s = 1..n /\ n > 0 /\ Head(s) = s[1] /\ 1 \in DOMAIN s
      /\ Tail(s) \in Seq(Message) /\ Len(Tail(s)) = n - 1
  BY <1>2, <1>3
<1>5. \A i \in DOMAIN Tail(s) : i + 1 \in DOMAIN s /\ Tail(s)[i] = s[i + 1]
                                /\ (i + 1 = n => i = Len(Tail(s)))
  BY <1>2, <1>3, <1>4
<1>6. sent' \in [Client -> Seq(Message)]
  BY <1>2, <1>4 DEF TypeOK, LinkTypeOK
<1>7. sent'[served] = Tail(s) /\ \A c \in Client \ {served} : sent'[c] = sent[c]
  BY <1>2 DEF TypeOK, LinkTypeOK
<1>8. Head(sent[served]) \in Messages
  BY <1>1, <1>4 DEF OneRead
<1>11. \A c \in Client : \A i \in DOMAIN sent'[c] : sent'[c][i] \in Messages
  <2>1. \A i \in DOMAIN Tail(s) : Tail(s)[i] \in Messages
    BY <1>1, <1>5 DEF OneRead
  <2> QED
    BY <1>7, <2>1 DEF OneRead
<1>9. ASSUME UNCHANGED answer PROVE OneRead'
  <2>2. ASSUME NEW c \in Client \ cut', NEW i \in DOMAIN sent'[c], sent'[c][i] = LengthOf
        PROVE  i = Len(sent'[c]) /\ reader' = c /\ lengthSent' /\ answer'[c] = <<>>
    <3>1. CASE c = served
      <4>1. i \in DOMAIN Tail(s) /\ s[i + 1] = LengthOf
        BY <1>5, <1>7, <2>2, <3>1
      <4>2. i + 1 = n /\ reader = c /\ lengthSent /\ answer[c] = <<>>
        BY <1>1, <1>3, <1>5, <2>2, <3>1, <4>1 DEF OneRead
      <4> QED
        BY <1>5, <1>7, <1>9, <3>1, <4>1, <4>2
    <3>2. CASE c # served
      BY <1>7, <1>9, <2>2, <3>2 DEF OneRead
    <3> QED
      BY <3>1, <3>2
  <2> QED
    BY <1>9, <1>11, <2>2 DEF OneRead
<1>10. ASSUME Head(sent[served]) = LengthOf, served \notin cut
       PROVE  sent'[served] = <<>> /\ reader = served /\ lengthSent /\ answer[served] = <<>>
  <2>1. 1 = n /\ reader = served /\ lengthSent /\ answer[served] = <<>>
    BY <1>1, <1>3, <1>4, <1>10 DEF OneRead
  <2>2. Tail(s) = <<>>
    BY <1>4, <2>1, EmptySeq
  <2> QED
    BY <1>7, <2>1, <2>2
<1> QED
  BY <1>6, <1>7, <1>8, <1>9, <1>10, <1>11

\* INIT, and READ of a handler that has said INIT.
LEMMA ReadOpStep ==
  ASSUME KbdInv, served # None, sent[served] # <<>>, Take,
         UNCHANGED <<windowVars, lastItem, agentVars, keyData>>,
         UNCHANGED <<alive, opened, backlog, served, cut, reset, answer>>,
         initialized' \in BOOLEAN, awaiting' \in BOOLEAN
  PROVE  KbdInv'
<1>1. TypeOK /\ LinkTypeOK(Message, Seq(Item)) /\ Known /\ OneRead
  BY DEF KbdInv, TypeOK
<1>2. served \in Client
  BY <1>1 DEF LinkTypeOK
<1>3. UNCHANGED <<enabled, reader, lengthSent, view>>
  BY DEF agentVars
<1>4. sent' \in [Client -> Seq(Message)] /\ OneRead'
  BY <1>1, <1>2, <1>3, Took
<1>5. LinkTypeOK(Message, Seq(Item))'
  BY <1>1, <1>4 DEF LinkTypeOK
<1>6. Known'
  BY <1>1 DEF Known
<1>7. /\ enabled' \in [Client -> BOOLEAN] /\ reader' \in Client \cup {None}
      /\ lengthSent' \in BOOLEAN
  BY <1>1, <1>3 DEF TypeOK
<1> QED
  BY <1>3, <1>4, <1>5, <1>6, <1>7, Elsewhere

LEMMA OpSteps ==
  ASSUME KbdInv, ReadInit \/ ReadRead \/ LengthTimeout \/ PreemptClient,
         UNCHANGED <<windowVars, lastItem, agentVars>>
  PROVE  KbdInv'
<1>1. initialized \in BOOLEAN /\ awaiting \in BOOLEAN
  BY DEF KbdInv, TypeOK
<1>2. CASE ReadInit
  BY <1>1, <1>2, ReadOpStep DEF ReadInit, KeepServing, Incoming
<1>3. CASE ReadRead
  <2>1. CASE ~ initialized
    BY <1>3, <2>1, HangupKept DEF ReadRead, KeepServing
  <2>2. CASE initialized
    BY <1>1, <1>3, <2>2, ReadOpStep DEF ReadRead, KeepServing, Incoming
  <2> QED
    BY <2>1, <2>2
<1>4. CASE LengthTimeout
  BY <1>4, HangupKept DEF LengthTimeout, KbdInv, Known
<1>5. CASE PreemptClient
  BY <1>5, HangupKept DEF PreemptClient, Preempt, HangupClient
<1> QED
  BY <1>2, <1>3, <1>4, <1>5

\* The queue becomes the answer.
LEMMA ReadLengthStep ==
  ASSUME KbdInv, Roomy, ReadLength, UNCHANGED <<windowVars, lastItem, agentVars>>
  PROVE  KbdInv'
<1>1. TypeOK /\ LinkTypeOK(Message, Seq(Item)) /\ LastSeen /\ Answers /\ Known /\ OneRead
      /\ KeysAgree
  BY DEF KbdInv, TypeOK
<1>2. PICK len \in 1..99 :
        /\ Incoming([len |-> len])
        /\ Reply(SubSeq(keyData, 1, IF Len(keyData) < len THEN Len(keyData) ELSE len))
  BY DEF ReadLength
<1>3. /\ Take /\ keyData' = <<>> /\ awaiting' = FALSE
      /\ UNCHANGED <<alive, opened, backlog, served, cut, reset, initialized>>
      /\ UNCHANGED <<focus, captured, held, pressed, pasting, tryCount, lastItem>>
      /\ UNCHANGED <<enabled, reader, lengthSent, view>>
  BY DEF ReadLength, windowVars, agentVars
<1>4. served \in Client /\ sent[served] # <<>> /\ Head(sent[served]) = [len |-> len]
  BY <1>1, <1>2 DEF Incoming, LinkTypeOK
<1>5. PICK a \in [Client -> Seq(Seq(Item))] : a = answer
  BY <1>1 DEF LinkTypeOK
<1>6. PICK q \in Seq(Item) : q = keyData
  BY <1>1 DEF TypeOK
<1>7. /\ HasLast(q) /\ Len(q) <= QueueBound /\ Len(q) \in Nat
  BY <1>1, <1>6, LenProperties DEF Answers, TypeOK
<1>8. \A c \in Client \ {served} : answer'[c] = answer[c]
  BY <1>2, <1>5 DEF Reply
<1>9. /\ sent' \in [Client -> Seq(Message)] /\ [len |-> len] \in Messages
      /\ \A c \in Client : \A i \in DOMAIN sent'[c] : sent'[c][i] \in Messages
      /\ \A c \in Client \ {served} : sent'[c] = sent[c]
      /\ [len |-> len] = LengthOf /\ served \notin cut =>
           sent'[served] = <<>> /\ reader = served /\ lengthSent /\ answer[served] = <<>>
  BY <1>1, <1>3, <1>4, <1>8, Took
<1>10. len = ReadItems /\ [len |-> len] = LengthOf
  BY <1>9, MessageKinds DEF LengthOf
<1>11. answer' = [a EXCEPT ![served] = Append(a[served], q)]
  <2>1. PICK n \in Nat : n = Len(q)
    BY <1>7
  <2>2. n <= len
    BY <1>7, <1>10, <2>1, Bounds, KbdAssumption DEF Roomy
  <2>3. (IF n < len THEN n ELSE len) = n
    BY <2>1, <2>2
  <2>4. SubSeq(q, 1, n) = q
    BY <1>6, <2>1
  <2> QED
    BY <1>2, <1>5, <1>6, <2>1, <2>3, <2>4 DEF Reply
<1>12. /\ Append(a[served], q) \in Seq(Seq(Item))
       /\ answer'[served] = Append(a[served], q)
       /\ \A i \in DOMAIN answer'[served] :
            answer'[served][i] = q \/ (i \in DOMAIN a[served] /\ answer'[served][i] = a[served][i])
  <2>1. PICK s \in Seq(Seq(Item)) : s = a[served]
    BY <1>4
  <2>2. PICK n \in Nat : n = Len(s) /\ DOMAIN s = 1..n
    BY LenProperties
  <2>3. /\ Append(s, q) \in Seq(Seq(Item)) /\ DOMAIN Append(s, q) = 1..n + 1
        /\ \A i \in 1..n : Append(s, q)[i] = s[i]
        /\ Append(s, q)[n + 1] = q
    BY <2>2, AppendProperties, LenProperties
  <2>4. answer'[served] = Append(s, q)
    BY <1>4, <1>11, <2>1
  <2>5. \A i \in 1..n + 1 : i = n + 1 \/ i \in 1..n
    OBVIOUS
  <2> QED
    BY <2>1, <2>2, <2>3, <2>4, <2>5
<1>13. answer' \in [Client -> Seq(Seq(Item))]
  BY <1>4, <1>11, <1>12
<1>14. TypeOK'
  <2>1. LinkTypeOK(Message, Seq(Item))'
    BY <1>1, <1>3, <1>9, <1>13 DEF LinkTypeOK
  <2>2. keyData' \in Seq(Item) /\ Len(keyData') <= QueueBound
    <3>1. Len(<<>>) = 0
      OBVIOUS
    <3> QED
      BY <1>3, <3>1, None0, Bounds
  <2> QED
    BY <1>1, <1>3, <2>1, <2>2 DEF TypeOK
<1>15. Answers'
  <2>1. \A i \in DOMAIN answer'[served] :
          HasLast(answer'[served][i]) /\ Len(answer'[served][i]) <= QueueBound
    BY <1>1, <1>4, <1>5, <1>7, <1>12 DEF Answers
  <2> QED
    BY <1>1, <1>3, <1>8, <2>1, None0 DEF Answers
<1>16. LastSeen' /\ Known'
  BY <1>1, <1>3 DEF LastSeen, Known
<1>17. served \notin cut => answer'[served] = <<q>> /\ Len(<<q>>) = 1 /\ <<q>> # <<>>
  <2> SUFFICES ASSUME served \notin cut PROVE answer'[served] = <<q>>
    OBVIOUS
  <2>1. a[served] = <<>>
    BY <1>5, <1>9, <1>10
  <2> QED
    BY <1>12, <2>1
<1>18. OneRead'
  <2>1. ASSUME NEW c \in Client \ cut'
        PROVE  /\ \A i \in DOMAIN sent'[c] : sent'[c][i] = LengthOf =>
                    i = Len(sent'[c]) /\ reader' = c /\ lengthSent' /\ answer'[c] = <<>>
               /\ answer'[c] # <<>> => Len(answer'[c]) = 1 /\ reader' = c /\ lengthSent'
    <3>1. CASE c = served
      <4>1. sent'[c] = <<>> /\ reader' = c /\ lengthSent' /\ DOMAIN <<>> = {}
        BY <1>3, <1>9, <1>10, <2>1, <3>1
      <4> QED
        BY <1>3, <1>17, <2>1, <3>1, <4>1
    <3>2. CASE c # served
      BY <1>1, <1>3, <1>8, <1>9, <2>1, <3>2, ZenonT(60) DEF OneRead
    <3> QED
      BY <3>1, <3>2
  <2> QED
    BY <1>9, <2>1 DEF OneRead
<1>19. KeysAgree'
  <2> SUFFICES ASSUME NEW c \in Client, c \notin cut', \A d \in Client : opened'[d] => d = c,
                      NEW k \in Key
               PROVE  WillBeDown(c, k)' <=> k \in pressed'
    BY DEF KeysAgree
  <2>1. c = served
    BY <1>1, <1>3, <1>4, KbdAssumption DEF Known
  <2>2. WillBeDown(c, k) <=> k \in pressed
    BY <1>1, <1>3 DEF KeysAgree
  <2>3. Answered(c) = <<>> /\ Answered(c)' = q
    <3>1. Head(<<q>>) = q
      OBVIOUS
    <3> QED
      BY <1>3, <1>9, <1>10, <1>17, <2>1, <3>1 DEF Answered
  <2>4. OnTheWay(c) = q /\ OnTheWay(c)' = q
    BY <1>3, <1>6, <2>3, ConcatEmptySeq DEF OnTheWay
  <2> QED
    BY <1>3, <2>2, <2>4 DEF WillBeDown
<1> QED
  BY <1>14, <1>15, <1>16, <1>18, <1>19 DEF KbdInv

LEMMA ServerStep ==
  ASSUME KbdInv, Roomy, Server
  PROVE  KbdInv'
BY AcceptStep, OpSteps, ReadLengthStep DEF Server
-----------------------------------------------------------------------------
(* The agent.                                                              *)

LEMMA Posted ==
  ASSUME TypeOK, NEW c \in Client, NEW m \in Messages, Post(c, <<m>>), UNCHANGED cut
  PROVE  /\ sent' \in [Client -> Seq(Message)] /\ reset' \subseteq cut'
         /\ \A d \in Client : \A i \in DOMAIN sent'[d] :
              \/ i \in DOMAIN sent[d] /\ sent'[d][i] = sent[d][i]
              \/ d = c /\ c \notin cut /\ i = Len(sent'[d]) /\ sent'[d][i] = m
<1>1. sent \in [Client -> Seq(Message)] /\ reset \subseteq cut /\ m \in Message
  BY MessageKinds DEF TypeOK, LinkTypeOK
<1>2. CASE c \in cut
  <2>1. reset' = reset \cup {c} /\ sent' = sent
    BY <1>2 DEF Post
  <2> QED
    BY <1>1, <1>2, <2>1
<1>3. CASE c \notin cut
  <2>1. PICK s \in Seq(Message) : s = sent[c]
    BY <1>1
  <2>2. s \o <<m>> = Append(s, m)
    BY <1>1, AppendIsConcat
  <2>3. reset' = reset /\ sent' = [sent EXCEPT ![c] = Append(s, m)]
    BY <1>3, <2>1, <2>2 DEF Post
  <2>4. PICK n \in Nat : n = Len(s) /\ DOMAIN s = 1..n
    BY LenProperties
  <2>5. PICK t \in Seq(Message) :
          /\ t = Append(s, m) /\ Len(t) = n + 1 /\ DOMAIN t = 1..n + 1
          /\ t[n + 1] = m /\ \A i \in 1..n : t[i] = s[i]
    <3>1. /\ Append(s, m) \in Seq(Message) /\ Len(Append(s, m)) = n + 1
          /\ DOMAIN Append(s, m) = 1..n + 1
          /\ Append(s, m)[n + 1] = m /\ \A i \in 1..n : Append(s, m)[i] = s[i]
      BY <1>1, <2>4, AppendProperties, LenProperties
    <3> QED
      BY <3>1
  <2>6. sent'[c] = t /\ \A d \in Client \ {c} : sent'[d] = sent[d]
    BY <1>1, <2>3, <2>5
  <2>7. \A i \in 1..n + 1 : i = n + 1 \/ i \in 1..n
    OBVIOUS
  <2>8. sent' \in [Client -> Seq(Message)]
    BY <1>1, <2>3, <2>5
  <2>9. ASSUME NEW d \in Client, NEW i \in DOMAIN sent'[d]
        PROVE  \/ i \in DOMAIN sent[d] /\ sent'[d][i] = sent[d][i]
               \/ d = c /\ c \notin cut /\ i = Len(sent'[d]) /\ sent'[d][i] = m
    BY <1>3, <2>1, <2>4, <2>5, <2>6, <2>7
  <2> QED
    BY <1>1, <2>3, <2>8, <2>9
<1> QED
  BY <1>2, <1>3

LEMMA EnableStep ==
  ASSUME KbdInv, NEW c \in Client, Enable(c),
         UNCHANGED <<windowVars, keyData, lastItem, serverVars>>
  PROVE  KbdInv'
<1>1. TypeOK /\ LinkTypeOK(Message, Seq(Item)) /\ Known /\ OneRead
  BY DEF KbdInv, TypeOK
<1>2. /\ reader = None /\ Open(c) /\ Post(c, <<[op |-> "INIT"]>>)
      /\ enabled' = [enabled EXCEPT ![c] = TRUE]
      /\ UNCHANGED <<alive, served, cut, answer, reader, lengthSent, view>>
      /\ UNCHANGED <<initialized, awaiting>>
  BY DEF Enable, serverVars
<1>3. [op |-> "INIT"] \in Messages /\ [op |-> "INIT"] # LengthOf
  BY MessageKinds DEF Messages
<1>4. /\ sent' \in [Client -> Seq(Message)] /\ reset' \subseteq cut'
      /\ \A d \in Client : \A i \in DOMAIN sent'[d] :
           \/ i \in DOMAIN sent[d] /\ sent'[d][i] = sent[d][i]
           \/ d = c /\ c \notin cut /\ i = Len(sent'[d]) /\ sent'[d][i] = [op |-> "INIT"]
  BY <1>1, <1>2, <1>3, Posted
<1>5. /\ opened' \in [Client -> BOOLEAN] /\ opened'[c] = TRUE
      /\ \A d \in Client : opened[d] => opened'[d]
  BY <1>1, <1>2 DEF Open, LinkTypeOK
<1>6. /\ backlog' \in Seq(Client)
      /\ \A i \in DOMAIN backlog' : (i \in DOMAIN backlog /\ backlog'[i] = backlog[i]) \/ backlog'[i] = c
  <2>1. CASE opened[c]
    BY <1>1, <1>2, <2>1 DEF Open, LinkTypeOK
  <2>2. CASE ~ opened[c]
    <3>1. PICK s \in Seq(Client) : s = backlog
      BY <1>1 DEF LinkTypeOK
    <3>2. PICK n \in Nat : n = Len(s) /\ DOMAIN s = 1..n
      BY LenProperties
    <3>3. /\ Append(s, c) \in Seq(Client) /\ DOMAIN Append(s, c) = 1..n + 1
          /\ Append(s, c)[n + 1] = c /\ \A i \in 1..n : Append(s, c)[i] = s[i]
      BY <3>2, AppendProperties, LenProperties
    <3>4. backlog' = Append(s, c)
      BY <1>2, <2>2, <3>1 DEF Open
    <3>5. \A i \in 1..n + 1 : i = n + 1 \/ i \in 1..n
      OBVIOUS
    <3> QED
      BY <3>1, <3>2, <3>3, <3>4, <3>5
  <2> QED
    BY <2>1, <2>2
<1>7. LinkTypeOK(Message, Seq(Item))'
  BY <1>1, <1>2, <1>4, <1>5, <1>6 DEF LinkTypeOK
<1>8. Known'
  <2>1. served # None => opened'[served]
    BY <1>1, <1>5 DEF Known, LinkTypeOK
  <2>2. \A i \in DOMAIN backlog' : opened'[backlog'[i]]
    <3>1. \A i \in DOMAIN backlog : backlog[i] \in Client
      BY <1>1 DEF LinkTypeOK
    <3> QED
      BY <1>1, <1>5, <1>6, <3>1 DEF Known
  <2> QED
    BY <1>1, <1>2, <2>1, <2>2 DEF Known
<1>9. OneRead'
  <2>1. \A d \in Client : \A i \in DOMAIN sent'[d] : sent'[d][i] \in Messages
    BY <1>1, <1>3, <1>4 DEF OneRead
  <2>2. ASSUME NEW d \in Client \ cut', NEW i \in DOMAIN sent'[d], sent'[d][i] = LengthOf
        PROVE  FALSE
    <3>1. i \in DOMAIN sent[d] /\ sent[d][i] = LengthOf
      BY <1>3, <1>4, <2>2
    <3>2. reader = d /\ d # None
      BY <1>1, <1>2, <2>2, <3>1, KbdAssumption DEF OneRead
    <3> QED
      BY <1>2, <3>2
  <2> QED
    BY <1>1, <1>2, <2>1, <2>2 DEF OneRead
<1>10. /\ initialized' \in BOOLEAN /\ awaiting' \in BOOLEAN
       /\ enabled' \in [Client -> BOOLEAN] /\ reader' \in Client \cup {None}
       /\ lengthSent' \in BOOLEAN
  BY <1>1, <1>2 DEF TypeOK
<1> QED
  BY <1>2, <1>5, <1>7, <1>8, <1>9, <1>10, Elsewhere

LEMMA EnableFailsStep ==
  ASSUME KbdInv, NEW c \in Client, EnableFails(c),
         UNCHANGED <<windowVars, keyData, lastItem, serverVars>>
  PROVE  KbdInv'
<1>1. TypeOK /\ LinkTypeOK(Message, Seq(Item)) /\ Known /\ OneRead
  BY DEF KbdInv, TypeOK
<1>2. /\ UNCHANGED <<alive, opened, backlog, served, cut, reset, sent, answer>>
      /\ enabled' = [enabled EXCEPT ![c] = FALSE]
      /\ UNCHANGED <<reader, lengthSent, view, initialized, awaiting>>
  BY DEF EnableFails, OpenFails, linkVars, serverVars
<1>3. LinkTypeOK(Message, Seq(Item))' /\ Known' /\ OneRead'
  BY <1>1, <1>2 DEF LinkTypeOK, Known, OneRead
<1>4. /\ initialized' \in BOOLEAN /\ awaiting' \in BOOLEAN
      /\ enabled' \in [Client -> BOOLEAN] /\ reader' \in Client \cup {None}
      /\ lengthSent' \in BOOLEAN
  BY <1>1, <1>2 DEF TypeOK
<1> QED
  BY <1>2, <1>3, <1>4, Elsewhere

LEMMA AskStep ==
  ASSUME KbdInv, (\E c \in Client : BeginRead(c)) \/ SendLength,
         UNCHANGED <<windowVars, keyData, lastItem, serverVars>>
  PROVE  KbdInv'
<1>1. TypeOK /\ LinkTypeOK(Message, Seq(Item)) /\ Known /\ OneRead
  BY DEF KbdInv, TypeOK
<1>2. UNCHANGED <<initialized, awaiting>>
  BY DEF serverVars
<1>3. /\ {[op |-> "READ"], LengthOf} \subseteq Messages /\ [op |-> "READ"] # LengthOf
  BY MessageKinds DEF Messages
<1>4. PICK c \in Client, m \in Messages :
        /\ Post(c, <<m>>) /\ reader' = c
        /\ \/ m # LengthOf /\ reader = None /\ lengthSent' = FALSE
           \/ m = LengthOf /\ reader = c /\ ~ lengthSent /\ lengthSent' = TRUE
        /\ UNCHANGED <<alive, opened, backlog, served, cut, answer, enabled, view>>
  <2>1. ASSUME NEW c \in Client, BeginRead(c)
        PROVE  /\ Post(c, <<[op |-> "READ"]>>) /\ reader' = c
               /\ reader = None /\ lengthSent' = FALSE
               /\ UNCHANGED <<alive, opened, backlog, served, cut, answer, enabled, view>>
    BY <2>1 DEF BeginRead
  <2>2. CASE SendLength
    <3>1. reader \in Client
      BY <1>1, <2>2 DEF SendLength, TypeOK
    <3>2. /\ Post(reader, <<LengthOf>>) /\ reader' = reader /\ ~ lengthSent /\ lengthSent' = TRUE
          /\ UNCHANGED <<alive, opened, backlog, served, cut, answer, enabled, view>>
      BY <2>2 DEF SendLength, LengthOf
    <3> QED
      BY <1>3, <3>1, <3>2
  <2> QED
    BY <1>3, <2>1, <2>2
<1>5. /\ sent' \in [Client -> Seq(Message)] /\ reset' \subseteq cut'
      /\ \A d \in Client : \A i \in DOMAIN sent'[d] :
           \/ i \in DOMAIN sent[d] /\ sent'[d][i] = sent[d][i]
           \/ d = c /\ c \notin cut /\ i = Len(sent'[d]) /\ sent'[d][i] = m
  BY <1>1, <1>4, Posted
<1>6. LinkTypeOK(Message, Seq(Item))'
  BY <1>1, <1>4, <1>5 DEF LinkTypeOK
<1>7. Known'
  BY <1>1, <1>2, <1>4 DEF Known
<1>8. \A d \in Client : ~ (reader = d /\ lengthSent)
  BY <1>4, KbdAssumption
<1>9. OneRead'
  <2>1. \A d \in Client : \A i \in DOMAIN sent'[d] : sent'[d][i] \in Messages
    BY <1>1, <1>5 DEF OneRead
  <2>2. ASSUME NEW d \in Client \ cut' PROVE answer'[d] = <<>>
    BY <1>1, <1>4, <1>8, <2>2 DEF OneRead
  <2>3. ASSUME NEW d \in Client \ cut', NEW i \in DOMAIN sent'[d], sent'[d][i] = LengthOf
        PROVE  i = Len(sent'[d]) /\ reader' = d /\ lengthSent'
    <3>1. CASE i \in DOMAIN sent[d] /\ sent'[d][i] = sent[d][i]
      BY <1>1, <1>4, <1>8, <2>3, <3>1 DEF OneRead
    <3>2. CASE d = c /\ c \notin cut /\ i = Len(sent'[d]) /\ sent'[d][i] = m
      BY <1>4, <2>3, <3>2
    <3> QED
      BY <1>5, <3>1, <3>2
  <2> QED
    BY <2>1, <2>2, <2>3 DEF OneRead
<1>10. /\ initialized' \in BOOLEAN /\ awaiting' \in BOOLEAN
       /\ enabled' \in [Client -> BOOLEAN] /\ reader' \in Client \cup {None}
       /\ lengthSent' \in BOOLEAN
  BY <1>1, <1>2, <1>4 DEF TypeOK
<1> QED
  BY <1>4, <1>6, <1>7, <1>9, <1>10, Elsewhere

LEMMA KilledStep ==
  ASSUME KbdInv, Killed, UNCHANGED <<windowVars, keyData, lastItem, serverVars>>
  PROVE  KbdInv'
<1>1. TypeOK /\ LinkTypeOK(Message, Seq(Item)) /\ Known /\ OneRead
  BY DEF KbdInv, TypeOK
<1>2. /\ alive' = FALSE
      /\ UNCHANGED <<opened, backlog, served, cut, reset, sent, answer>>
      /\ UNCHANGED <<enabled, reader, lengthSent, view, initialized, awaiting>>
  BY DEF Killed, SigPipe, agentVars, serverVars
<1>3. LinkTypeOK(Message, Seq(Item))'
  BY <1>1, <1>2 DEF LinkTypeOK
<1>4. Known' /\ OneRead'
  BY <1>1, <1>2 DEF Known, OneRead
<1>5. /\ initialized' \in BOOLEAN /\ awaiting' \in BOOLEAN
       /\ enabled' \in [Client -> BOOLEAN] /\ reader' \in Client \cup {None}
       /\ lengthSent' \in BOOLEAN
  BY <1>1, <1>2 DEF TypeOK
<1> QED
  BY <1>2, <1>3, <1>4, <1>5, Elsewhere

LEMMA DownIsBoolean ==
  ASSUME NEW items \in Seq(Item), HasLast(items), NEW k \in Key, NEW b \in BOOLEAN
  PROVE  DownAfter(items, k, b) \in BOOLEAN
<1>1. CASE \A i \in DOMAIN items : items[i].key # k
  BY <1>1, DownWithout
<1>2. CASE \E i \in DOMAIN items :
             items[i].key = k /\ \A j \in DOMAIN items : j > i => items[j].key # k
  <2>1. PICK i \in DOMAIN items :
          items[i].key = k /\ \A j \in DOMAIN items : j > i => items[j].key # k
    BY <1>2
  <2>2. items[i] \in Item
    OBVIOUS
  <2>3. DownAfter(items, k, b) = items[i].down
    BY <2>1, DownWith
  <2> QED
    BY <2>2, <2>3, ItemParts
<1> QED
  BY <1>1, <1>2 DEF HasLast

\* A read returns.
LEMMA Delivered ==
  ASSUME TypeOK, NEW r \in Client, r = reader, NEW items \in Seq(Item), Deliver(items)
  PROVE  /\ view' \in [Client -> SUBSET Key]
         /\ view'[r] = {k \in Key : DownAfter(items, k, k \in view[r])}
         /\ \A c \in Client \ {r} : view'[c] = view[c]
         /\ reader' = None /\ lengthSent' = FALSE /\ enabled' = enabled
<1>1. /\ view' = [view EXCEPT ![r] = {k \in Key : DownAfter(items, k, k \in view[r])}]
      /\ reader' = None /\ lengthSent' = FALSE /\ enabled' = enabled
  BY DEF Deliver
<1> QED
  BY <1>1 DEF TypeOK

LEMMA ReceiveStep ==
  ASSUME KbdInv, Receive, UNCHANGED <<windowVars, keyData, lastItem, serverVars>>
  PROVE  KbdInv'
<1>1. TypeOK /\ LinkTypeOK(Message, Seq(Item)) /\ LastSeen /\ Answers /\ Known /\ OneRead
      /\ KeysAgree
  BY DEF KbdInv, TypeOK
<1>2. /\ reader # None /\ lengthSent /\ answer[reader] # <<>>
      /\ Deliver(Head(answer[reader]))
      /\ answer' = [answer EXCEPT ![reader] = Tail(answer[reader])]
      /\ UNCHANGED <<alive, opened, backlog, served, cut, reset, sent>>
      /\ UNCHANGED <<focus, captured, held, pressed, pasting, tryCount, initialized, awaiting>>
  BY DEF Receive, windowVars, serverVars
<1>3. PICK r \in Client : r = reader
  BY <1>1, <1>2 DEF TypeOK
<1>4. PICK s \in Seq(Seq(Item)) : s = answer[r]
  BY <1>1 DEF LinkTypeOK
<1>5. PICK n \in Nat : n = Len(s) /\ DOMAIN s = 1..n
  BY LenProperties
<1>6. s # <<>> /\ n > 0 /\ 1 \in DOMAIN s /\ Head(s) = s[1]
  BY <1>2, <1>3, <1>4, <1>5
<1>7. PICK items \in Seq(Item) : items = s[1] /\ items = Head(s)
  BY <1>4, <1>6
<1>8. HasLast(items)
  BY <1>1, <1>3, <1>4, <1>6, <1>7 DEF Answers
<1>9. Deliver(items)
  BY <1>2, <1>3, <1>4, <1>7
<1>10. /\ view' \in [Client -> SUBSET Key]
       /\ view'[r] = {k \in Key : DownAfter(items, k, k \in view[r])}
       /\ \A c \in Client \ {r} : view'[c] = view[c]
       /\ reader' = None /\ lengthSent' = FALSE /\ enabled' = enabled
  BY <1>1, <1>3, <1>8, <1>9, Delivered
<1>11. /\ Tail(s) \in Seq(Seq(Item)) /\ Len(Tail(s)) = n - 1
       /\ \A i \in DOMAIN Tail(s) : i + 1 \in DOMAIN s /\ Tail(s)[i] = s[i + 1]
  BY <1>5, <1>6
<1>12. /\ answer' \in [Client -> Seq(Seq(Item))] /\ answer'[r] = Tail(s)
       /\ \A c \in Client \ {r} : answer'[c] = answer[c]
  BY <1>1, <1>2, <1>3, <1>4, <1>11 DEF LinkTypeOK
<1>13. TypeOK'
  <2>1. LinkTypeOK(Message, Seq(Item))'
    BY <1>1, <1>2, <1>12 DEF LinkTypeOK
  <2> QED
    BY <1>1, <1>2, <1>10, <2>1 DEF TypeOK
<1>14. LastSeen' /\ Known'
  BY <1>1, <1>2 DEF LastSeen, Known
<1>15. Answers'
  <2>1. \A i \in DOMAIN Tail(s) : HasLast(Tail(s)[i]) /\ Len(Tail(s)[i]) <= QueueBound
    BY <1>1, <1>3, <1>4, <1>11 DEF Answers
  <2> QED
    BY <1>1, <1>12, <2>1 DEF Answers
<1>16. r \notin cut => Tail(s) = <<>>
  <2> SUFFICES ASSUME r \notin cut PROVE Tail(s) = <<>>
    OBVIOUS
  <2>1. n = 1
    BY <1>1, <1>2, <1>3, <1>4, <1>5 DEF OneRead
  <2> QED
    BY <1>11, <2>1, EmptySeq
<1>17. OneRead'
  <2>1. ASSUME NEW c \in Client \ cut'
        PROVE  answer'[c] = <<>> /\ \A i \in DOMAIN sent'[c] : sent'[c][i] # LengthOf
    <3>1. CASE c = r
      BY <1>1, <1>2, <1>3, <1>12, <1>16, <2>1, <3>1 DEF OneRead
    <3>2. CASE c # r
      BY <1>1, <1>2, <1>3, <1>12, <2>1, <3>2 DEF OneRead
    <3> QED
      BY <3>1, <3>2
  <2> QED
    BY <1>1, <1>2, <2>1 DEF OneRead
<1>18. KeysAgree'
  <2> SUFFICES ASSUME NEW c \in Client, c \notin cut', \A d \in Client : opened'[d] => d = c,
                      NEW k \in Key
               PROVE  WillBeDown(c, k)' <=> k \in pressed'
    BY DEF KeysAgree
  <2>1. WillBeDown(c, k) <=> k \in pressed'
    BY <1>1, <1>2 DEF KeysAgree
  <2>2. CASE c = r
    <3>1. PICK b \in BOOLEAN : b = (k \in view[r])
      <4> WITNESS (k \in view[r]) \in BOOLEAN
      <4> QED
        OBVIOUS
    <3>2. (k \in view'[r]) = DownAfter(items, k, b)
      <4>1. DownAfter(items, k, b) \in BOOLEAN
        BY <1>8, DownIsBoolean
      <4> QED
        BY <1>10, <3>1, <4>1
    <3>3. Answered(c) = items /\ Answered(c)' = <<>>
      <4>1. Answered(c) = items
        BY <1>2, <1>3, <1>4, <1>7, <2>2 DEF Answered
      <4>2. answer'[c] = <<>>
        BY <1>2, <1>12, <1>16, <2>2
      <4> QED
        BY <4>1, <4>2 DEF Answered
    <3>4. OnTheWay(c) = items \o keyData /\ OnTheWay(c)' = keyData
      BY <1>1, <3>3, ConcatEmptySeq DEF OnTheWay, TypeOK
    <3>5. WillBeDown(c, k) = DownAfter(keyData, k, DownAfter(items, k, b))
      <4>1. keyData \in Seq(Item) /\ HasLast(keyData)
        BY <1>1 DEF TypeOK, Answers
      <4>2. DownAfter(items \o keyData, k, b) = DownAfter(keyData, k, DownAfter(items, k, b))
        BY <1>8, <4>1, Joined
      <4> QED
        BY <2>2, <3>1, <3>4, <4>2 DEF WillBeDown
    <3>6. WillBeDown(c, k)' = DownAfter(keyData, k, DownAfter(items, k, b))
      BY <2>2, <3>2, <3>4 DEF WillBeDown
    <3> QED
      BY <2>1, <3>5, <3>6
  <2>3. CASE c # r
    <3>1. Answered(c)' = Answered(c) /\ view'[c] = view[c]
      BY <1>10, <1>12, <2>3 DEF Answered
    <3> QED
      BY <2>1, <3>1 DEF WillBeDown, OnTheWay
  <2> QED
    BY <2>2, <2>3
<1> QED
  BY <1>10, <1>13, <1>14, <1>15, <1>17, <1>18 DEF KbdInv

LEMMA ReceiveFailsStep ==
  ASSUME KbdInv, ReceiveFails, UNCHANGED <<windowVars, keyData, lastItem, serverVars>>
  PROVE  KbdInv'
<1>1. TypeOK /\ LinkTypeOK(Message, Seq(Item)) /\ LastSeen /\ Answers /\ Known /\ OneRead
      /\ KeysAgree
  BY DEF KbdInv, TypeOK
<1>2. /\ reader # None /\ reader \in cut
      /\ UNCHANGED <<alive, opened, backlog, served, cut, reset, sent, answer>>
      /\ UNCHANGED <<focus, captured, held, pressed, pasting, tryCount, initialized, awaiting>>
  BY DEF ReceiveFails, linkVars, windowVars, serverVars
<1>3. PICK items \in Garbage : Deliver(items)
  BY DEF ReceiveFails
<1>4. PICK r \in Client : r = reader
  BY <1>1, <1>2 DEF TypeOK
<1>5. items \in Seq(Item)
  BY KbdAssumption
<1>6. /\ view' \in [Client -> SUBSET Key]
      /\ \A c \in Client \ {r} : view'[c] = view[c]
      /\ reader' = None /\ lengthSent' = FALSE /\ enabled' = enabled
  BY <1>1, <1>3, <1>4, <1>5, Delivered
<1>7. TypeOK'
  <2>1. LinkTypeOK(Message, Seq(Item))'
    BY <1>1, <1>2 DEF LinkTypeOK
  <2> QED
    BY <1>1, <1>2, <1>6, <2>1 DEF TypeOK
<1>8. LastSeen' /\ Known' /\ Answers'
  BY <1>1, <1>2 DEF LastSeen, Known, Answers
<1>9. OneRead'
  <2>1. ASSUME NEW c \in Client \ cut'
        PROVE  answer'[c] = <<>> /\ \A i \in DOMAIN sent'[c] : sent'[c][i] # LengthOf
    BY <1>1, <1>2, <2>1 DEF OneRead
  <2> QED
    BY <1>1, <1>2, <2>1 DEF OneRead
<1>10. KeysAgree'
  <2> SUFFICES ASSUME NEW c \in Client, c \notin cut', \A d \in Client : opened'[d] => d = c,
                      NEW k \in Key
               PROVE  WillBeDown(c, k)' <=> k \in pressed'
    BY DEF KeysAgree
  <2>1. WillBeDown(c, k) <=> k \in pressed'
    BY <1>1, <1>2 DEF KeysAgree
  <2>2. Answered(c)' = Answered(c) /\ view'[c] = view[c]
    BY <1>2, <1>4, <1>6 DEF Answered
  <2> QED
    BY <2>1, <2>2 DEF WillBeDown, OnTheWay
<1> QED
  BY <1>6, <1>7, <1>8, <1>9, <1>10 DEF KbdInv
-----------------------------------------------------------------------------
(* The theorems.                                                           *)

LEMMA KbdInit == Init => KbdInv
<1> SUFFICES ASSUME Init PROVE KbdInv
  OBVIOUS
<1>1. DOMAIN <<>> = {} /\ Len(<<>>) = 0 /\ \A S : <<>> \in Seq(S)
  OBVIOUS
<1>2. LinkTypeOK(Message, Seq(Item))
  BY <1>1 DEF Init, LinkInit, LinkTypeOK
<1>3. TypeOK
  <2>1. 0 \in 0..PasteTries /\ 0 <= QueueBound
    BY KbdAssumption, Bounds
  <2>2. /\ focus \in BOOLEAN /\ captured \in BOOLEAN /\ held \subseteq Typed
        /\ pressed \subseteq Key /\ initialized \in BOOLEAN /\ awaiting \in BOOLEAN
        /\ lastItem \in Item \cup {None} /\ reader \in Client \cup {None}
        /\ lengthSent \in BOOLEAN
    BY DEF Init
  <2>3. /\ enabled \in [Client -> BOOLEAN] /\ view \in [Client -> SUBSET Key]
    BY DEF Init
  <2>4. /\ pasting \in Seq(Item) /\ keyData \in Seq(Item) /\ Len(keyData) <= QueueBound
        /\ tryCount \in 0..PasteTries
    BY <1>1, <2>1 DEF Init
  <2> QED
    BY <1>2, <2>2, <2>3, <2>4 DEF TypeOK
<1>4. LastSeen /\ Answers /\ Known
  BY <1>1, None0 DEF Init, LinkInit, LastSeen, Answers, Known
<1>5. OneRead
  BY <1>1 DEF Init, LinkInit, OneRead
<1>6. KeysAgree
  <2> SUFFICES ASSUME NEW c \in Client, NEW k \in Key
               PROVE  WillBeDown(c, k) <=> k \in pressed
    BY DEF KeysAgree
  <2>1. OnTheWay(c) = <<>>
    BY <1>1, None0, ConcatEmptySeq DEF Init, LinkInit, OnTheWay, Answered
  <2>2. view[c] = {} /\ pressed = {}
    BY DEF Init
  <2>3. WillBeDown(c, k) = DownAfter(<<>>, k, k \in view[c])
    BY <2>1 DEF WillBeDown
  <2>4. DownAfter(<<>>, k, k \in view[c]) = (k \in view[c])
    BY None0
  <2> QED
    BY <2>2, <2>3, <2>4
<1> QED
  BY <1>3, <1>4, <1>5, <1>6 DEF KbdInv

LEMMA KbdStep == Roomy /\ KbdInv /\ [Next]_vars => KbdInv'
<1> SUFFICES ASSUME Roomy, KbdInv, [Next]_vars PROVE KbdInv'
  OBVIOUS
<1>1. CASE Agent
  BY <1>1, EnableStep, EnableFailsStep, AskStep, ReceiveStep, ReceiveFailsStep, KilledStep DEF Agent, Reading
<1>2. CASE UNCHANGED vars
  <2>1. TypeOK /\ LinkTypeOK(Message, Seq(Item)) /\ Known /\ OneRead
    BY DEF KbdInv, TypeOK
  <2>2. /\ UNCHANGED <<windowVars, keyData, lastItem, answer, view>>
        /\ UNCHANGED <<alive, opened, backlog, served, cut, reset, sent>>
        /\ UNCHANGED <<initialized, awaiting, enabled, reader, lengthSent>>
    BY <1>2 DEF vars, linkVars, serverVars, agentVars
  <2>3. LinkTypeOK(Message, Seq(Item))' /\ Known' /\ OneRead'
    BY <2>1, <2>2 DEF LinkTypeOK, Known, OneRead
  <2>4. /\ initialized' \in BOOLEAN /\ awaiting' \in BOOLEAN
        /\ enabled' \in [Client -> BOOLEAN] /\ reader' \in Client \cup {None}
        /\ lengthSent' \in BOOLEAN
    BY <2>1, <2>2 DEF TypeOK
  <2> QED
    BY <2>2, <2>3, <2>4, Elsewhere
<1> QED
  BY <1>1, <1>2, WindowStep, ServerStep DEF Next

\* The strengthening: one read at a time, answers that are whole queues, and a
\* lastItem that agrees with what the window saw.
THEOREM Keyboard == ASSUME Roomy PROVE Spec => []KbdInv
BY KbdInit, KbdStep, PTL DEF Spec

\* The queue, the window and the connections stay what they are declared to be, and
\* the queue as short as the paste keeps it.
THEOREM TypeCorrect == ASSUME Roomy PROVE Spec => []TypeOK
<1>1. KbdInv => TypeOK
  BY DEF KbdInv
<1> QED
  BY Keyboard, <1>1, PTL

\* While a read asks for all that gathers in KbdHandler's queue, typing,
\* pasting, the server and the reads leave a program that has the keyboard to itself
\* with the keys the window saw go down and not up.
THEOREM KeysStayRight == ASSUME Roomy PROVE Spec => []KeysAgree
<1>1. KbdInv => KeysAgree
  BY DEF KbdInv
<1> QED
  BY Keyboard, <1>1, PTL

\* What _lastItem suppresses is a repetition: the press of a key the window has not
\* seen go down is queued.
THEOREM PressesForwarded == ASSUME Roomy PROVE Spec => Forwarded
<1> DEFINE Press == \A k \in Typed : k \notin held /\ k \in held' /\ k \notin pressed =>
                      keyData' = Append(keyData, [key |-> k, down |-> TRUE])
<1>1. KbdInv /\ [Next]_vars => [Press]_vars
  <2> SUFFICES ASSUME KbdInv, Next, NEW k \in Typed,
                      k \notin held, k \in held', k \notin pressed
               PROVE  keyData' = Append(keyData, [key |-> k, down |-> TRUE])
    OBVIOUS
  <2>1. Window
    <3>1. held' # held
      OBVIOUS
    <3> QED
      BY <3>1 DEF Next, Server, Agent, windowVars
  <2>2. KeyDown(k)
    <3>1. ASSUME NEW j \in Typed, KeyDown(j) PROVE j = k
      BY <3>1 DEF KeyDown
    <3>2. ASSUME NEW j \in Typed, KeyUp(j) PROVE FALSE
      BY <3>2 DEF KeyUp
    <3> QED
      BY <2>1, <3>1, <3>2 DEF Window, Paste, ChangeFocus, ToggleCapture, StartPaste,
        PasteKey, PasteWait
  <2>3. PICK item \in Item : item = [key |-> k, down |-> TRUE]
    BY KbdAssumption, ItemParts
  <2>4. keyData' = IF lastItem = item THEN keyData ELSE Append(keyData, item)
    BY <2>2, <2>3 DEF KeyDown, KeyEvent, EnqueueItem
  <2>5. lastItem # item
    <3>1. item # None /\ item.key = k /\ item.down = TRUE
      BY <2>3, KbdAssumption
    <3> QED
      BY <3>1 DEF KbdInv, LastSeen
  <2> QED
    BY <2>3, <2>4, <2>5
<1> QED
  BY Keyboard, <1>1, PTL DEF Spec, Forwarded
=============================================================================
