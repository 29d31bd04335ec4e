-------------------------- MODULE MouseInputProofs --------------------------
(***************************************************************************)
(* Proofs about MouseInput: what a program reads are complete groups of    *)
(* the events the mouse says it has, and every change of the buttons       *)
(* reaches a program that has the mouse for itself, once and in order      *)
(* (MouseInput implements Clicks).                                         *)
(***************************************************************************)
EXTENDS MouseInputInv, ExposerLinkProofs
-----------------------------------------------------------------------------
(* The events.                                                             *)

LEMMA MiceDeclaredIs ==
  MiceDeclared =
    {<<"EV_REL", "REL_WHEEL">>, <<"EV_ABS", "ABS_X">>, <<"EV_ABS", "ABS_Y">>,
     <<"EV_KEY", "BTN_LEFT">>, <<"EV_KEY", "BTN_RIGHT">>, <<"EV_KEY", "BTN_WHEEL">>}
BY DEF MiceDeclared, Declared, MiceEv, MiceBits

LEMMA KbdDeclaredAll == KbdEvents \subseteq KbdDeclared
<1> SUFFICES ASSUME NEW byte \in 0..255
             PROVE  <<"EV_KEY", byte % 128>> \in KbdDeclared
  BY DEF KbdEvents
<1>1. byte % 128 \in 0..127
  OBVIOUS
<1> QED
  BY <1>1 DEF KbdDeclared, Declared, KbdEv, KbdBits

LEMMA GroupedDeclared == Grouped => EventsDeclared
<1> SUFFICES ASSUME NEW news \in SUBSET MiceDeclared, news # {},
                    returned = news \cup {<<"EV_SYN", "SYN_REPORT">>}
             PROVE  LET codes == returned \ {<<"EV_SYN", "SYN_REPORT">>}
                    IN  codes # {} /\ codes # returned /\ codes \subseteq MiceDeclared
  BY KbdDeclaredAll DEF Grouped, EventsDeclared
<1>1. <<"EV_SYN", "SYN_REPORT">> \notin MiceDeclared
  BY MiceDeclaredIs
<1>2. returned \ {<<"EV_SYN", "SYN_REPORT">>} = news
  BY <1>1
<1> QED
  BY <1>2
-----------------------------------------------------------------------------
(* Changes.                                                                *)

Step(start, line, i) ==
  IF line[i] = (IF i = 1 THEN start ELSE line[i - 1]) THEN <<>> ELSE <<line[i]>>
Steps(start, line) == [i \in DOMAIN line |-> Step(start, line, i)]

LEMMA ChangesAre ==
  ASSUME NEW start, NEW line
  PROVE  Changes(start, line) = FlattenSeq(Steps(start, line))
BY Zenon DEF Changes, Steps, Step

LEMMA StepsIs ==
  ASSUME NEW S, NEW start \in S, NEW line \in Seq(S)
  PROVE  /\ Steps(start, line) \in Seq(Seq(S)) /\ Len(Steps(start, line)) = Len(line)
         /\ \A i \in 1..Len(line) : Steps(start, line)[i] = Step(start, line, i)
<1>1. Len(line) \in Nat /\ DOMAIN line = 1..Len(line) /\ \A i \in 1..Len(line) : line[i] \in S
  OBVIOUS
<1>2. \A i \in 1..Len(line) : Step(start, line, i) \in Seq(S)
  BY <1>1 DEF Step
<1>3. Steps(start, line) = [i \in 1..Len(line) |-> Step(start, line, i)]
  BY <1>1 DEF Steps
<1>4. [i \in 1..Len(line) |-> Step(start, line, i)] \in Seq(Seq(S))
  BY <1>1, <1>2, IsASeq
<1> QED
  BY <1>1, <1>3, <1>4

\* What is one line after the other.
Follows(s, t, u) ==
  /\ Len(s) \in Nat /\ Len(t) \in Nat /\ DOMAIN s = 1..Len(s) /\ DOMAIN t = 1..Len(t)
  /\ Len(u) = Len(s) + Len(t) /\ DOMAIN u = 1..Len(s) + Len(t)
  /\ \A i \in 1..Len(s) : u[i] = s[i]
  /\ \A i \in 1..Len(t) : u[Len(s) + i] = t[i]

LEMMA Following ==
  ASSUME NEW S, NEW s \in Seq(S), NEW t \in Seq(S)
  PROVE  Follows(s, t, s \o t) /\ s \o t \in Seq(S)
BY DEF Follows

LEMMA FollowingIs ==
  ASSUME NEW S, NEW s \in Seq(S), NEW t \in Seq(S), NEW u \in Seq(S), Follows(s, t, u)
  PROVE  u = s \o t
<1>1. Follows(s, t, s \o t) /\ s \o t \in Seq(S)
  BY Following
<1>2. Len(u) = Len(s \o t) /\ Len(s) \in Nat /\ Len(t) \in Nat
  BY <1>1 DEF Follows
<1>3. \A i \in 1..Len(u) : u[i] = (s \o t)[i]
  <2> SUFFICES ASSUME NEW i \in 1..Len(u)
               PROVE  u[i] = (s \o t)[i]
    OBVIOUS
  <2>1. i \in 1..Len(s) \/ (i - Len(s) \in 1..Len(t) /\ i = Len(s) + (i - Len(s)))
    BY <1>2 DEF Follows
  <2> QED
    BY <1>1, <2>1 DEF Follows
<1> QED
  BY <1>1, <1>2, <1>3, SeqEqual

LEMMA FinalIs ==
  ASSUME NEW S, NEW start \in S, NEW line \in Seq(S)
  PROVE  Final(start, line) \in S
BY EmptySeq, LenProperties DEF Final

LEMMA StepsJoined ==
  ASSUME NEW S, NEW start \in S, NEW s \in Seq(S), NEW t \in Seq(S)
  PROVE  Steps(start, s \o t) = Steps(start, s) \o Steps(Final(start, s), t)
<1>1. PICK u \in Seq(S) : u = s \o t /\ Follows(s, t, u)
  BY Following
<1>2. PICK b \in S : b = Final(start, s)
  BY FinalIs
<1>3. /\ Steps(start, s) \in Seq(Seq(S)) /\ Len(Steps(start, s)) = Len(s)
      /\ \A i \in 1..Len(s) : Steps(start, s)[i] = Step(start, s, i)
  BY StepsIs
<1>4. /\ Steps(b, t) \in Seq(Seq(S)) /\ Len(Steps(b, t)) = Len(t)
      /\ \A i \in 1..Len(t) : Steps(b, t)[i] = Step(b, t, i)
  BY StepsIs
<1>5. /\ Steps(start, u) \in Seq(Seq(S)) /\ Len(Steps(start, u)) = Len(u)
      /\ \A i \in 1..Len(u) : Steps(start, u)[i] = Step(start, u, i)
  BY StepsIs
<1>6. Len(s) \in Nat /\ Len(t) \in Nat /\ Len(u) = Len(s) + Len(t)
  BY <1>1 DEF Follows
<1>7. \A i \in 1..Len(s) : Step(start, u, i) = Step(start, s, i)
  <2> SUFFICES ASSUME NEW i \in 1..Len(s)
               PROVE  Step(start, u, i) = Step(start, s, i)
    OBVIOUS
  <2>1. i # 1 => i - 1 \in 1..Len(s)
    BY <1>6
  <2> QED
    BY <1>1, <2>1 DEF Step, Follows
<1>8. \A i \in 1..Len(t) : Step(start, u, Len(s) + i) = Step(b, t, i)
  <2> SUFFICES ASSUME NEW i \in 1..Len(t)
               PROVE  Step(start, u, Len(s) + i) = Step(b, t, i)
    OBVIOUS
  <2>1. u[Len(s) + i] = t[i]
    BY <1>1 DEF Follows
  <2>2. CASE i # 1
    <3>1. i - 1 \in 1..Len(t) /\ Len(s) + i # 1 /\ (Len(s) + i) - 1 = Len(s) + (i - 1)
      BY <1>6, <2>2
    <3>2. u[Len(s) + (i - 1)] = t[i - 1]
      BY <1>1, <3>1 DEF Follows
    <3> QED
      BY <2>1, <2>2, <3>1, <3>2 DEF Step
  <2>3. CASE i = 1 /\ Len(s) = 0
    <3>1. b = start /\ Len(s) + i = 1
      BY <1>2, <2>3, EmptySeq DEF Final
    <3> QED
      BY <2>1, <2>3, <3>1 DEF Step
  <2>4. CASE i = 1 /\ Len(s) # 0
    <3>1. s # <<>> /\ b = s[Len(s)]
      BY <1>2, <2>4, EmptySeq DEF Final
    <3>2. Len(s) + i # 1 /\ (Len(s) + i) - 1 = Len(s) /\ Len(s) \in 1..Len(s)
      BY <1>6, <2>4
    <3>3. u[Len(s)] = s[Len(s)]
      BY <1>1, <3>2 DEF Follows
    <3> QED
      BY <2>1, <2>4, <3>1, <3>2, <3>3 DEF Step
  <2> QED
    BY <2>2, <2>3, <2>4
<1>9. Follows(Steps(start, s), Steps(b, t), Steps(start, u))
  <2>1. \A i \in 1..Len(s) : i \in 1..Len(u)
    BY <1>6
  <2>2. \A i \in 1..Len(t) : Len(s) + i \in 1..Len(u)
    BY <1>6
  <2>3. \A i \in 1..Len(s) : Steps(start, u)[i] = Steps(start, s)[i]
    BY <1>3, <1>5, <1>7, <2>1
  <2>4. \A i \in 1..Len(t) : Steps(start, u)[Len(s) + i] = Steps(b, t)[i]
    BY <1>4, <1>5, <1>8, <2>2
  <2>5. /\ DOMAIN Steps(start, s) = 1..Len(s) /\ DOMAIN Steps(b, t) = 1..Len(t)
        /\ DOMAIN Steps(start, u) = 1..Len(u)
    BY <1>3, <1>4, <1>5, LenProperties
  <2> QED
    BY <1>3, <1>4, <1>5, <1>6, <2>3, <2>4, <2>5 DEF Follows
<1> QED
  BY <1>1, <1>2, <1>3, <1>4, <1>5, <1>9, FollowingIs

LEMMA ChangesJoined ==
  ASSUME NEW S, NEW start \in S, NEW s \in Seq(S), NEW t \in Seq(S)
  PROVE  /\ Changes(start, s) \in Seq(S) /\ Changes(Final(start, s), t) \in Seq(S)
         /\ Changes(start, s \o t) = Changes(start, s) \o Changes(Final(start, s), t)
<1>1. PICK b \in S : b = Final(start, s)
  BY FinalIs
<1>2. Steps(start, s) \in Seq(Seq(S)) /\ Steps(b, t) \in Seq(Seq(S))
  BY StepsIs
<1>3. FlattenSeq(Steps(start, s)) \in Seq(S) /\ FlattenSeq(Steps(b, t)) \in Seq(S)
  BY <1>2, FlattenType
<1>4. FlattenSeq(Steps(start, s) \o Steps(b, t)) = FlattenSeq(Steps(start, s)) \o FlattenSeq(Steps(b, t))
  BY <1>2, FlattenConcat, Zenon
<1>5. Steps(start, s \o t) = Steps(start, s) \o Steps(b, t)
  <2>1. Steps(start, s \o t) = Steps(start, s) \o Steps(Final(start, s), t)
    BY StepsJoined
  <2> QED
    BY <1>1, <2>1, Zenon
<1> QED
  BY <1>1, <1>3, <1>4, <1>5, ChangesAre, Zenon
LEMMA OneOf ==
  ASSUME NEW S, NEW e \in S
  PROVE  <<e>> \in Seq(S)
OBVIOUS

LEMMA ChangesNone ==
  ASSUME NEW start
  PROVE  Changes(start, <<>>) = <<>> /\ Final(start, <<>>) = start
<1>1. Steps(start, <<>>) = <<>>
  BY DEF Steps
<1> QED
  BY <1>1, ChangesAre, FlattenEmpty DEF Final

LEMMA ChangesOne ==
  ASSUME NEW S, NEW start \in S, NEW e \in S
  PROVE  /\ Changes(start, <<e>>) = IF e = start THEN <<>> ELSE <<e>>
         /\ Final(start, <<e>>) = e
<1>1. PICK y : y = IF e = start THEN <<>> ELSE <<e>>
  OBVIOUS
<1>2. y \in Seq(S)
  BY <1>1
<1>3. Steps(start, <<e>>) = <<y>>
  <2>1. DOMAIN <<e>> = {1} /\ <<e>>[1] = e
    OBVIOUS
  <2>2. Step(start, <<e>>, 1) = y
    BY <1>1, <2>1 DEF Step
  <2>3. Steps(start, <<e>>) = [i \in {1} |-> y]
    BY <2>1, <2>2 DEF Steps
  <2>4. [i \in {1} |-> y] = <<y>>
    OBVIOUS
  <2> QED
    BY <2>3, <2>4
<1>4. FlattenSeq(<<y>>) = y
  BY <1>2, FlattenOne
<1> QED
  BY <1>1, <1>3, <1>4, ChangesAre DEF Final

\* Where a line ends that consists of two.
LEMMA FinalJoined ==
  ASSUME NEW S, NEW start \in S, NEW s \in Seq(S), NEW t \in Seq(S)
  PROVE  Final(start, s \o t) = Final(Final(start, s), t)
<1>1. PICK u \in Seq(S) : u = s \o t /\ Follows(s, t, u)
  BY Following
<1>2. Len(s) \in Nat /\ Len(t) \in Nat /\ Len(u) = Len(s) + Len(t)
  BY <1>1 DEF Follows
<1>3. CASE Len(t) = 0
  <2>1. t = <<>>
    BY <1>3, EmptySeq
  <2>2. s \o t = s
    BY <2>1, ConcatEmptySeq
  <2> QED
    BY <2>1, <2>2 DEF Final
<1>4. CASE Len(t) # 0
  <2>1. t # <<>> /\ u # <<>> /\ Len(t) \in 1..Len(t)
    BY <1>2, <1>4, EmptySeq
  <2>2. u[Len(s) + Len(t)] = t[Len(t)]
    BY <1>1, <2>1 DEF Follows
  <2> QED
    BY <1>1, <1>2, <2>1, <2>2 DEF Final
<1> QED
  BY <1>3, <1>4

\* An entry at the end is a change if it differs from the last one.
LEMMA ChangesLast ==
  ASSUME NEW S, NEW start \in S, NEW s \in Seq(S), NEW e \in S
  PROVE  /\ Changes(start, s) \in Seq(S)
         /\ Changes(start, Append(s, e)) =
              IF e = Final(start, s) THEN Changes(start, s) ELSE Append(Changes(start, s), e)
         /\ Final(start, Append(s, e)) = e
<1>1. PICK b \in S : b = Final(start, s)
  BY FinalIs
<1>2. PICK c \in Seq(S) : c = Changes(start, s)
  BY ChangesJoined
<1>3. Append(s, e) = s \o <<e>>
  OBVIOUS
<1>4. Changes(start, s \o <<e>>) = c \o Changes(b, <<e>>)
  <2>1. PICK f \in Seq(S) : f = <<e>>
    BY OneOf, Zenon
  <2>2. Changes(start, s \o f) = Changes(start, s) \o Changes(Final(start, s), f)
    BY ChangesJoined
  <2> QED
    BY <1>1, <1>2, <2>1, <2>2, Zenon
<1>5. Changes(b, <<e>>) = IF e = b THEN <<>> ELSE <<e>>
  BY ChangesOne
<1>6. c \o <<>> = c /\ c \o <<e>> = Append(c, e)
  OBVIOUS
<1>7. Final(start, Append(s, e)) = e
  BY AndLast DEF Final
<1> QED
  BY <1>1, <1>2, <1>3, <1>4, <1>5, <1>6, <1>7, Zenon

\* The last change is where the line ends.
LEMMA NewestIs ==
  ASSUME NEW S, NEW start \in S
  PROVE  \A s \in Seq(S) : /\ Changes(start, s) = <<>> => Final(start, s) = start
                           /\ Changes(start, s) # <<>> =>
                                Changes(start, s)[Len(Changes(start, s))] = Final(start, s)
<1> DEFINE Ends(s) == /\ Changes(start, s) = <<>> => Final(start, s) = start
                      /\ Changes(start, s) # <<>> =>
                           Changes(start, s)[Len(Changes(start, s))] = Final(start, s)
           U == {n \in Nat : \A s \in Seq(S) : Len(s) = n => Ends(s)}
<1>1. 0 \in U
  <2>1. \A s \in Seq(S) : Len(s) = 0 => s = <<>>
    BY EmptySeq
  <2> QED
    BY <2>1, ChangesNone
<1>2. \A n \in Nat : n \in U => n + 1 \in U
  <2> SUFFICES ASSUME NEW n \in Nat, n \in U, NEW s \in Seq(S), Len(s) = n + 1
               PROVE  Ends(s)
    OBVIOUS
  <2>1. PICK r \in Seq(S), e \in S : s = Append(r, e) /\ Len(r) = n
    BY SplitLast
  <2>2. PICK c \in Seq(S) : c = Changes(start, r)
    BY <2>1, ChangesLast
  <2>3. Changes(start, s) = (IF e = Final(start, r) THEN c ELSE Append(c, e)) /\ Final(start, s) = e
    BY <2>1, <2>2, ChangesLast
  <2>4. /\ c = <<>> => Final(start, r) = start
        /\ c # <<>> => c[Len(c)] = Final(start, r)
    BY <2>1, <2>2
  <2>5. Append(c, e) # <<>> /\ Append(c, e)[Len(Append(c, e))] = e
    BY AndLast
  <2> QED
    BY <2>3, <2>4, <2>5, Zenon
<1>3. Nat \subseteq U
  <2> HIDE DEF U
  <2> QED
    BY <1>1, <1>2, Induction
<1> QED
  BY <1>3, LenProperties

\* A line of the same is no change.
LEMMA ChangesSame ==
  ASSUME NEW S, NEW e \in S
  PROVE  \A s \in Seq(S) : (\A i \in 1..Len(s) : s[i] = e) => Changes(e, s) = <<>> /\ Final(e, s) = e
<1> DEFINE Same(s) == \A i \in 1..Len(s) : s[i] = e
           Still(s) == Changes(e, s) = <<>> /\ Final(e, s) = e
           U == {n \in Nat : \A s \in Seq(S) : Len(s) = n /\ Same(s) => Still(s)}
<1>1. 0 \in U
  <2>1. \A s \in Seq(S) : Len(s) = 0 => s = <<>>
    BY EmptySeq
  <2> QED
    BY <2>1, ChangesNone
<1>2. \A n \in Nat : n \in U => n + 1 \in U
  <2> SUFFICES ASSUME NEW n \in Nat, n \in U, NEW s \in Seq(S), Len(s) = n + 1, Same(s)
               PROVE  Still(s)
    OBVIOUS
  <2>1. PICK r \in Seq(S), d \in S : s = Append(r, d) /\ Len(r) = n
    BY SplitLast
  <2>2. d = e /\ Same(r)
    BY <2>1, AndLast
  <2>3. Still(r)
    BY <2>1, <2>2
  <2> QED
    BY <2>1, <2>2, <2>3, ChangesLast
<1>3. Nat \subseteq U
  <2> HIDE DEF U
  <2> QED
    BY <1>1, <1>2, Induction
<1> QED
  BY <1>3, LenProperties
LEMMA Associative ==
  ASSUME NEW S
  PROVE  \A s, t, u \in Seq(S) : (s \o t) \o u = s \o (t \o u) /\ s \o t \in Seq(S)
OBVIOUS

\* The lines of buttons, and what is proved of them so far.  Cat and One are not
\* expanded below: the provers lose their way in sequences of sequences.
Pressed == SUBSET Button
Lines == Seq(Pressed)
Cat(s, t) == s \o t
One(e) == <<e>>

LEMMA LinesAre ==
  /\ \A e \in Pressed : One(e) \in Lines
  /\ \A s, t \in Lines : Cat(s, t) \in Lines
  /\ \A s, t, u \in Lines : Cat(Cat(s, t), u) = Cat(s, Cat(t, u))
  /\ \A s \in Lines : Cat(<<>>, s) = s /\ Cat(s, <<>>) = s
  /\ \A s \in Lines, e \in Pressed : Append(s, e) = Cat(s, One(e))
<1>1. \A e \in Pressed : One(e) \in Lines
  BY OneOf DEF One, Lines
<1>2. \A s, t \in Lines : Cat(s, t) \in Lines
  BY Associative DEF Cat, Lines
<1>3. \A s, t, u \in Lines : Cat(Cat(s, t), u) = Cat(s, Cat(t, u))
  BY Associative DEF Cat, Lines
<1>4. \A s \in Lines : Cat(<<>>, s) = s /\ Cat(s, <<>>) = s
  BY DEF Cat, Lines
<1>5. \A s \in Lines, e \in Pressed : Append(s, e) = Cat(s, One(e))
  BY DEF Cat, One, Lines
<1> QED
  BY <1>1, <1>2, <1>3, <1>4, <1>5

LEMMA Joining ==
  \A start \in Pressed : \A s, t \in Lines :
     /\ Changes(start, s) \in Lines /\ Final(start, s) \in Pressed
     /\ Changes(start, Cat(s, t)) = Cat(Changes(start, s), Changes(Final(start, s), t))
     /\ Final(start, Cat(s, t)) = Final(Final(start, s), t)
<1> SUFFICES ASSUME NEW start \in Pressed, NEW s \in Lines, NEW t \in Lines
             PROVE  /\ Changes(start, s) \in Lines /\ Final(start, s) \in Pressed
                    /\ Changes(start, Cat(s, t)) = Cat(Changes(start, s), Changes(Final(start, s), t))
                    /\ Final(start, Cat(s, t)) = Final(Final(start, s), t)
  OBVIOUS
<1>1. s \in Seq(Pressed) /\ t \in Seq(Pressed)
  BY DEF Lines
<1>2. Final(start, s) \in Pressed
  BY <1>1, FinalIs
<1>3. /\ Changes(start, s) \in Seq(Pressed)
      /\ Changes(start, s \o t) = Changes(start, s) \o Changes(Final(start, s), t)
  BY <1>1, ChangesJoined
<1>4. Final(start, s \o t) = Final(Final(start, s), t)
  BY <1>1, FinalJoined
<1> QED
  BY <1>2, <1>3, <1>4, Zenon DEF Lines, Cat

LEMMA Single ==
  \A start, e \in Pressed : /\ Changes(start, One(e)) = IF e = start THEN <<>> ELSE One(e)
                            /\ Final(start, One(e)) = e
BY ChangesOne DEF One

LEMMA Still ==
  \A e \in Pressed : \A s \in Lines :
    (\A i \in 1..Len(s) : s[i] = e) => Changes(e, s) = <<>> /\ Final(e, s) = e
BY ChangesSame DEF Lines

\* An entry at the start.
LEMMA ChangesFirst ==
  ASSUME NEW start \in Pressed, NEW e \in Pressed, NEW t \in Lines
  PROVE  /\ Changes(start, Cat(One(e), t)) = IF e = start THEN Changes(e, t) ELSE Cat(One(e), Changes(e, t))
         /\ Final(start, Cat(One(e), t)) = Final(e, t)
<1>1. start \in Pressed /\ e \in Pressed /\ t \in Lines /\ One(e) \in Lines
  BY LinesAre
<1>2. /\ Changes(start, Cat(One(e), t)) = Cat(Changes(start, One(e)), Changes(Final(start, One(e)), t))
      /\ Final(start, Cat(One(e), t)) = Final(Final(start, One(e)), t)
      /\ Changes(e, t) \in Lines
  BY <1>1, Joining
<1>3. Cat(<<>>, Changes(e, t)) = Changes(e, t)
  BY <1>2, LinesAre
<1> QED
  BY <1>2, <1>3, Single

-----------------------------------------------------------------------------
(* What the queue, the server and the agent do to the changes on their way: *)
(* told and then queue is the line of buttons that follow those seen.       *)

\* The window adds an entry.
LEMMA LineAdds ==
  ASSUME NEW seen \in Pressed, NEW told \in Lines, NEW queue \in Lines, NEW e \in Pressed
  PROVE  LET before == Changes(seen, Cat(told, queue))
             newest == IF before = <<>> THEN seen ELSE before[Len(before)]
         IN  Changes(seen, Cat(told, Append(queue, e))) =
               IF e = newest THEN before ELSE Append(before, e)
<1>1. PICK line \in Lines : line = Cat(told, queue)
  BY LinesAre
<1>2. Cat(told, Append(queue, e)) = Append(line, e)
  BY <1>1, ConcatAppend DEF Cat, Lines
<1>3. PICK before : before = Changes(seen, line)
  OBVIOUS
<1>4. (IF before = <<>> THEN seen ELSE before[Len(before)]) = Final(seen, line)
  BY <1>3, NewestIs DEF Lines
<1>5. Changes(seen, Append(line, e)) = IF e = Final(seen, line) THEN before ELSE Append(before, e)
  BY <1>3, ChangesLast DEF Lines
<1> QED
  BY <1>1, <1>2, <1>3, <1>4, <1>5, Zenon

\* The window clears the queue.
LEMMA LineCleared ==
  ASSUME NEW seen \in Pressed, NEW told \in Lines, NEW queue \in Lines
  PROVE  \E n \in 0..Len(Changes(seen, Cat(told, queue))) :
           Changes(seen, told) = SubSeq(Changes(seen, Cat(told, queue)), 1, n)
<1>1. PICK s \in Lines, t \in Lines :
        s = Changes(seen, told) /\ t = Changes(Final(seen, told), queue)
  BY Joining
<1>2. Changes(seen, Cat(told, queue)) = Cat(s, t)
  BY <1>1, Joining
<1>3. SubSeq(Cat(s, t), 1, Len(s)) = s /\ Len(s) \in 0..Len(Cat(s, t))
  BY DEF Cat, Lines
<1> QED
  BY <1>1, <1>2, <1>3, Zenon

\* The agent takes the first entry.
LEMMA LineTaken ==
  ASSUME NEW seen \in Pressed, NEW e \in Pressed, NEW told \in Lines, NEW queue \in Lines
  PROVE  LET after == Changes(e, Cat(told, queue))
         IN  Changes(seen, Cat(Cat(One(e), told), queue)) = IF e = seen THEN after ELSE Cat(One(e), after)
<1>1. Cat(told, queue) \in Lines /\ Cat(Cat(One(e), told), queue) = Cat(One(e), Cat(told, queue))
  BY LinesAre
<1> QED
  BY <1>1, ChangesFirst

\* Several entries that are the same are like one of them.
LEMMA RunIsOne ==
  ASSUME NEW l \in Pressed, NEW e \in Pressed, NEW run \in Lines, run # <<>>,
         \A i \in 1..Len(run) : run[i] = e
  PROVE  Changes(l, run) = Changes(l, One(e)) /\ Final(l, run) = e
<1>1. PICK r \in Lines : run = Cat(One(e), r) /\ \A i \in 1..Len(r) : r[i] = e
  <2>1. /\ Tail(run) \in Lines /\ run = <<Head(run)>> \o Tail(run) /\ Head(run) = run[1]
        /\ 1 \in 1..Len(run)
    BY DEF Lines
  <2>2. \A i \in 1..Len(Tail(run)) : i + 1 \in 1..Len(run) /\ Tail(run)[i] = run[i + 1]
    BY FirstAndRest DEF Lines
  <2> QED
    BY <2>1, <2>2 DEF Cat, One
<1>2. Changes(e, r) = <<>> /\ Final(e, r) = e
  BY <1>1, Still
<1>3. Cat(One(e), <<>>) = One(e)
  BY LinesAre
<1> QED
  BY <1>1, <1>2, <1>3, ChangesFirst, Single

\* The server reads one or several entries that are the same.
LEMMA LineRead ==
  ASSUME NEW seen \in Pressed, NEW told \in Lines, NEW run \in Lines, NEW rest \in Lines,
         NEW e \in Pressed, run # <<>>, \A i \in 1..Len(run) : run[i] = e
  PROVE  Changes(seen, Cat(told, Cat(run, rest))) = Changes(seen, Cat(Append(told, e), rest))
<1>1. PICK l \in Pressed : l = Final(seen, told)
  BY Joining
<1>2. Changes(l, run) = Changes(l, One(e)) /\ Final(l, run) = e /\ Final(l, One(e)) = e
  BY RunIsOne, Single
<1>3. Cat(run, rest) \in Lines /\ One(e) \in Lines /\ Cat(One(e), rest) \in Lines
  BY LinesAre
<1>4. Changes(l, Cat(run, rest)) = Changes(l, Cat(One(e), rest))
  <2>1. Changes(l, Cat(run, rest)) = Cat(Changes(l, run), Changes(Final(l, run), rest))
    BY Joining
  <2>2. Changes(l, Cat(One(e), rest)) = Cat(Changes(l, One(e)), Changes(Final(l, One(e)), rest))
    BY <1>3, Joining
  <2> QED
    BY <1>2, <2>1, <2>2
<1>5. Changes(seen, Cat(told, Cat(run, rest))) = Changes(seen, Cat(told, Cat(One(e), rest)))
  <2>1. Changes(seen, Cat(told, Cat(run, rest))) = Cat(Changes(seen, told), Changes(l, Cat(run, rest)))
    BY <1>1, <1>3, Joining
  <2>2. Changes(seen, Cat(told, Cat(One(e), rest))) = Cat(Changes(seen, told), Changes(l, Cat(One(e), rest)))
    BY <1>1, <1>3, Joining
  <2> QED
    BY <1>4, <2>1, <2>2
<1>6. Cat(Append(told, e), rest) = Cat(told, Cat(One(e), rest))
  <2>1. Append(told, e) = Cat(told, One(e))
    BY LinesAre
  <2>2. Cat(Cat(told, One(e)), rest) = Cat(told, Cat(One(e), rest))
    BY <1>3, LinesAre
  <2> QED
    BY <2>1, <2>2
<1> QED
  BY <1>5, <1>6

\* With nothing in the queue the server repeats the last entry.
LEMMA LineRepeated ==
  ASSUME NEW seen \in Pressed, NEW told \in Lines
  PROVE  Changes(seen, Cat(Append(told, Final(seen, told)), <<>>)) = Changes(seen, Cat(told, <<>>))
<1>1. PICK e \in Pressed : e = Final(seen, told)
  BY Joining
<1>2. Append(told, e) \in Lines
  BY AndLast DEF Lines
<1>3. Cat(Append(told, e), <<>>) = Append(told, e) /\ Cat(told, <<>>) = told
  BY <1>2, LinesAre
<1>4. Changes(seen, Append(told, e)) = Changes(seen, told)
  BY <1>1, ChangesLast DEF Lines
<1> QED
  BY <1>1, <1>3, <1>4, Zenon
-----------------------------------------------------------------------------
(* The buttons of the states in the queue and of the answers on their way. *)

LEMMA ButtonsAre ==
  ASSUME NEW R, \A r \in R : r.buttons \in Pressed, NEW l \in Seq(R)
  PROVE  /\ Buttons(l) \in Lines /\ Len(Buttons(l)) = Len(l)
         /\ \A i \in 1..Len(l) : Buttons(l)[i] = l[i].buttons
<1>1. Len(l) \in Nat /\ DOMAIN l = 1..Len(l) /\ \A i \in 1..Len(l) : l[i].buttons \in Pressed
  OBVIOUS
<1>2. Buttons(l) = [i \in 1..Len(l) |-> l[i].buttons]
  BY <1>1 DEF Buttons
<1>3. Buttons(l) \in Seq(Pressed) /\ Len(Buttons(l)) = Len(l)
  BY <1>1, <1>2, IsASeq
<1> QED
  BY <1>1, <1>2, <1>3 DEF Lines

LEMMA ButtonsNone == Buttons(<<>>) = <<>>
BY DEF Buttons

LEMMA WithLast ==
  ASSUME NEW S, NEW s \in Seq(S), NEW e \in S
  PROVE  /\ Append(s, e) \in Seq(S) /\ Len(Append(s, e)) = Len(s) + 1
         /\ Append(s, e)[Len(s) + 1] = e /\ \A i \in 1..Len(s) : Append(s, e)[i] = s[i]
OBVIOUS

LEMMA ButtonsLast ==
  ASSUME NEW R, \A r \in R : r.buttons \in Pressed, NEW l \in Seq(R), NEW e \in R
  PROVE  Buttons(Append(l, e)) = Append(Buttons(l), e.buttons)
<1>1. PICK m \in Seq(R) : m = Append(l, e)
  BY AndLast
<1>2. /\ Len(l) \in Nat /\ Len(m) = Len(l) + 1 /\ m[Len(l) + 1] = e
      /\ \A i \in 1..Len(l) : m[i] = l[i]
  BY <1>1, AndLast
<1>3. PICK b \in Lines : /\ b = Buttons(l) /\ Len(b) = Len(l)
                         /\ \A i \in 1..Len(l) : b[i] = l[i].buttons
  BY ButtonsAre
<1>4. PICK c \in Lines : /\ c = Buttons(m) /\ Len(c) = Len(m)
                         /\ \A i \in 1..Len(m) : c[i] = m[i].buttons
  BY ButtonsAre
<1>5. PICK d \in Lines : d = Append(b, e.buttons) /\ Len(d) = Len(b) + 1
                         /\ d[Len(b) + 1] = e.buttons /\ \A i \in 1..Len(b) : d[i] = b[i]
  <2>1. PICK p \in Pressed : p = e.buttons
    OBVIOUS
  <2>2. b \in Seq(Pressed)
    BY DEF Lines
  <2>3. /\ Append(b, p) \in Seq(Pressed) /\ Len(Append(b, p)) = Len(b) + 1
        /\ Append(b, p)[Len(b) + 1] = p /\ \A i \in 1..Len(b) : Append(b, p)[i] = b[i]
    BY <2>2, WithLast
  <2> QED
    BY <2>1, <2>3 DEF Lines
<1>6. \A i \in 1..Len(c) : c[i] = d[i]
  <2> SUFFICES ASSUME NEW i \in 1..Len(c)
               PROVE  c[i] = d[i]
    OBVIOUS
  <2>1. CASE i = Len(l) + 1
    BY <1>2, <1>3, <1>4, <1>5, <2>1
  <2>2. CASE i \in 1..Len(l)
    BY <1>2, <1>3, <1>4, <1>5, <2>2
  <2> QED
    BY <1>2, <1>4, <2>1, <2>2
<1>7. c = d
  BY <1>2, <1>3, <1>4, <1>5, <1>6, SeqEqual DEF Lines
<1> QED
  BY <1>1, <1>3, <1>4, <1>5, <1>7, Zenon

\* The buttons of a queue are those of what is taken off it and of the rest.
LEMMA ButtonsCut ==
  ASSUME NEW R, \A r \in R : r.buttons \in Pressed, NEW l \in Seq(R), NEW n \in 0..Len(l)
  PROVE  /\ SubSeq(l, 1, n) \in Seq(R) /\ Len(SubSeq(l, 1, n)) = n
         /\ SubSeq(l, n + 1, Len(l)) \in Seq(R)
         /\ Buttons(l) = Cat(Buttons(SubSeq(l, 1, n)), Buttons(SubSeq(l, n + 1, Len(l))))
<1>1. Len(l) \in Nat /\ n \in Nat /\ n <= Len(l)
  OBVIOUS
<1>2. PICK s \in Seq(R) : /\ s = SubSeq(l, 1, n) /\ Len(s) = n
                          /\ \A i \in 1..n : s[i] = l[i]
  <2>1. \A i \in 1..n : l[i] \in R
    BY <1>1
  <2>2. PICK s : s = SubSeq(l, 1, n)
    OBVIOUS
  <2>3. s \in Seq(R) /\ Len(s) = n /\ \A i \in 1..n : s[i] = l[i]
    BY <1>1, <2>1, <2>2, SubSeqProperties
  <2> QED
    BY <2>2, <2>3
<1>3. PICK t \in Seq(R) : /\ t = SubSeq(l, n + 1, Len(l)) /\ Len(t) = Len(l) - n
                          /\ \A i \in 1..Len(t) : t[i] = l[n + i]
  <2>1. \A i \in n + 1..Len(l) : l[i] \in R
    BY <1>1
  <2>2. PICK t : t = SubSeq(l, n + 1, Len(l))
    OBVIOUS
  <2>3. /\ t \in Seq(R) /\ Len(t) = Len(l) - n
        /\ \A i \in 1..Len(l) - (n + 1) + 1 : t[i] = l[(n + 1) + i - 1]
    BY <1>1, <2>1, <2>2, SubSeqProperties
  <2>4. \A i \in 1..Len(t) : t[i] = l[n + i]
    BY <1>1, <2>3
  <2> QED
    BY <2>2, <2>3, <2>4
<1>4. PICK b \in Lines : /\ b = Buttons(l) /\ Len(b) = Len(l)
                         /\ \A i \in 1..Len(l) : b[i] = l[i].buttons
  BY ButtonsAre
<1>5. PICK c \in Lines : /\ c = Buttons(s) /\ Len(c) = n
                         /\ \A i \in 1..n : c[i] = s[i].buttons
  BY <1>2, ButtonsAre
<1>6. PICK d \in Lines : /\ d = Buttons(t) /\ Len(d) = Len(l) - n
                         /\ \A i \in 1..Len(l) - n : d[i] = t[i].buttons
  <2>1. /\ Buttons(t) \in Lines /\ Len(Buttons(t)) = Len(t)
        /\ \A i \in 1..Len(t) : Buttons(t)[i] = t[i].buttons
    BY ButtonsAre
  <2> QED
    BY <1>3, <2>1
<1>7. Follows(c, d, b)
  <2>1. \A i \in 1..n : b[i] = c[i]
    BY <1>1, <1>2, <1>4, <1>5
  <2>2. \A i \in 1..Len(l) - n : b[n + i] = d[i]
    <3> SUFFICES ASSUME NEW i \in 1..Len(l) - n
                 PROVE  b[n + i] = d[i]
      OBVIOUS
    <3>1. n + i \in 1..Len(l)
      BY <1>1
    <3>2. b[n + i] = l[n + i].buttons
      BY <1>4, <3>1
    <3>3. d[i] = t[i].buttons /\ t[i] = l[n + i]
      BY <1>3, <1>6
    <3> QED
      BY <3>2, <3>3
  <2>3. DOMAIN b = 1..Len(b) /\ DOMAIN c = 1..Len(c) /\ DOMAIN d = 1..Len(d)
    BY DEF Lines
  <2> QED
    BY <1>1, <1>4, <1>5, <1>6, <2>1, <2>2, <2>3 DEF Follows
<1>8. b = Cat(c, d)
  BY <1>7, FollowingIs DEF Lines, Cat
<1> QED
  BY <1>2, <1>3, <1>4, <1>5, <1>6, <1>8

\* The buttons of the answer a handler receives come first.
LEMMA ButtonsFirst ==
  ASSUME NEW R, \A r \in R : r.buttons \in Pressed, NEW l \in Seq(R), l # <<>>
  PROVE  /\ Head(l) \in R /\ Tail(l) \in Seq(R)
         /\ Buttons(l) = Cat(One(Head(l).buttons), Buttons(Tail(l)))
<1>1. /\ Head(l) \in R /\ Tail(l) \in Seq(R) /\ 1 \in 0..Len(l)
      /\ SubSeq(l, 1, 1) = <<Head(l)>> /\ SubSeq(l, 1 + 1, Len(l)) = Tail(l)
  <2>1. Head(l) \in R /\ Tail(l) \in Seq(R) /\ Len(l) \in Nat /\ 1 \in 0..Len(l)
    OBVIOUS
  <2>2. SubSeq(l, 1, 1) = <<Head(l)>>
    <3>1. PICK s : s = SubSeq(l, 1, 1)
      OBVIOUS
    <3>2. \A i \in 1..1 : l[i] \in R
      OBVIOUS
    <3>3. s \in Seq(R) /\ Len(s) = 1 /\ s[1] = l[1]
      BY <3>1, <3>2, SubSeqProperties
    <3>4. s = <<l[1]>>
      BY <3>3
    <3>5. Head(l) = l[1]
      OBVIOUS
    <3> QED
      BY <3>1, <3>4, <3>5
  <2>3. Tail(l) = SubSeq(l, 1 + 1, Len(l))
    <3>1. PICK s : s = SubSeq(l, 2, Len(l))
      OBVIOUS
    <3>2. \A i \in 2..Len(l) : l[i] \in R
      OBVIOUS
    <3>3. /\ s \in Seq(R) /\ Len(s) = IF 2 <= Len(l) THEN Len(l) - 2 + 1 ELSE 0
          /\ \A i \in 1..Len(l) - 2 + 1 : s[i] = l[2 + i - 1]
      BY <2>1, <3>1, <3>2, SubSeqProperties
    <3>4. PICK t \in Seq(R) : t = Tail(l)
      BY <2>1
    <3>5. Len(t) = Len(l) - 1 /\ \A i \in 1..Len(l) - 1 : t[i] = l[i + 1]
      BY <3>4, FirstAndRest
    <3>6. Len(s) = Len(t) /\ Len(l) >= 1
      BY <2>1, <3>3, <3>5
    <3>7. \A i \in 1..Len(s) : s[i] = t[i]
      BY <2>1, <3>3, <3>5, <3>6
    <3>8. s = t
      BY <3>3, <3>6, <3>7, SeqEqual
    <3> QED
      BY <3>1, <3>4, <3>8
  <2> QED
    BY <2>1, <2>2, <2>3
<1>2. Buttons(<<Head(l)>>) = One(Head(l).buttons)
  BY DEF Buttons, One
<1>3. Buttons(l) = Cat(Buttons(SubSeq(l, 1, 1)), Buttons(SubSeq(l, 1 + 1, Len(l))))
  BY <1>1, ButtonsCut
<1> QED
  BY <1>1, <1>2, <1>3
\* A READ takes at least one state off the queue, and the states it merges have the
\* same buttons.
LEMMA MergedIs ==
  ASSUME states \in Seq(State), states # <<>>
  PROVE  Merged \in 1..Len(states) /\ \A i \in 1..Merged : states[i].buttons = states[1].buttons
<1>0. Len(states) \in Nat \ {0}
  BY EmptySeq
<1> DEFINE Run(n) == \A i \in 2..n : Joins(states[i], states[1])
           Longest(n) == Run(n) /\ (n < Len(states) => ~Joins(states[n + 1], states[1]))
<1>1. CASE lastRead = None
  BY <1>0, <1>1 DEF Merged
<1>2. CASE lastRead # None
  <2>1. \E n \in 1..Len(states) : Longest(n)
    <3> SUFFICES ASSUME \A n \in 1..Len(states) : ~Longest(n)
                 PROVE  FALSE
      OBVIOUS
    <3> DEFINE U == {n \in Nat : n \in 1..Len(states) => Run(n)}
    <3>1. 0 \in U
      OBVIOUS
    <3>2. \A n \in Nat : n \in U => n + 1 \in U
      <4> SUFFICES \A n \in Nat : (n \in 1..Len(states) => Run(n)) => (n + 1 \in 1..Len(states) => Run(n + 1))
        <5> HIDE DEF Run
        <5> QED
          OBVIOUS
      <4> SUFFICES ASSUME NEW n \in Nat, n \in 1..Len(states) => Run(n), n + 1 \in 1..Len(states)
                   PROVE  Run(n + 1)
        OBVIOUS
      <4>1. CASE n = 0
        BY <4>1
      <4>2. CASE n # 0
        <5>1. n \in 1..Len(states) /\ n < Len(states)
          BY <1>0, <4>2
        <5>2. Run(n) /\ Joins(states[n + 1], states[1])
          BY <5>1
        <5>3. \A i \in 2..n + 1 : i \in 2..n \/ i = n + 1
          OBVIOUS
        <5> HIDE DEF U
        <5> QED
          BY <5>2, <5>3
      <4> QED
        BY <4>1, <4>2
    <3>3. Nat \subseteq U
      <4> HIDE DEF U
      <4> QED
        BY <3>1, <3>2, Induction
    <3>4. Run(Len(states)) /\ Len(states) \in 1..Len(states)
      BY <1>0, <3>3
    <3> QED
      BY <1>0, <3>4
  <2>2. Merged = CHOOSE n \in 1..Len(states) : Longest(n)
    BY <1>2 DEF Merged
  <2>3. Merged \in 1..Len(states) /\ Run(Merged)
    <3> HIDE DEF Longest
    <3>1. Merged \in 1..Len(states) /\ Longest(Merged)
      BY <2>1, <2>2, Zenon
    <3> QED
      BY <3>1 DEF Longest
  <2> QED
    BY <1>0, <2>3 DEF Joins
<1> QED
  BY <1>1, <1>2
-----------------------------------------------------------------------------
(* The invariant.                                                          *)

WindowOK ==
  /\ held \subseteq Button /\ captured \in BOOLEAN
  /\ mice \in State /\ mice.wheel = 0
  /\ captures \in 0..Captures /\ events \in 0..Events
QueueOK ==
  /\ states \in Seq(State) /\ Len(states) <= QueueBound
  /\ lastRead \in State \cup {None}
  /\ initialized \in BOOLEAN
AgentOK ==
  /\ enabled \in [Client -> BOOLEAN] /\ reader \in Client \cup {None}
  /\ last \in [Client -> [buttons : SUBSET Button, x : X \cup {Start}]]
  /\ returned \subseteq MiceDeclared \cup {<<"EV_SYN", "SYN_REPORT">>}
LinkOK == LinkTypeOK({"INIT", "READ"}, Answer)
AskedOK == asked[1] \in Handler \cup {None}

LEMMA TypeParts == TypeOK <=> LinkOK /\ WindowOK /\ QueueOK /\ AgentOK /\ AskedOK
BY DEF TypeOK, LinkOK, WindowOK, QueueOK, AgentOK, AskedOK

LEMMA TypePartsNext == (TypeOK <=> LinkOK /\ WindowOK /\ QueueOK /\ AgentOK /\ AskedOK)'
BY TypeParts, PTL

LEMMA Constants ==
  /\ None \notin Client /\ None \notin State /\ First \in Client
  /\ \A r \in State : r.buttons \in Pressed
  /\ \A r \in Answer : r.buttons \in Pressed
<1>1. None \notin Client /\ None \notin State /\ \E c \in Client : TRUE
  BY MouseAssumption
<1> QED
  BY <1>1 DEF First, State, Answer, Pressed

\* What no step of the agent's touches, and what only the agent does.
LEMMA WindowKept == WindowOK /\ UNCHANGED windowVars => WindowOK'
BY DEF WindowOK, windowVars

LEMMA QueueKept == QueueOK /\ UNCHANGED <<queueVars, initialized>> => QueueOK'
BY DEF QueueOK, queueVars

LEMMA AgentKept == AgentOK /\ UNCHANGED agentVars => AgentOK'
BY DEF AgentOK, agentVars

LEMMA NotAsked == asked' = Nothing => AskedOK'
BY DEF AskedOK, Nothing

\* Whether another program has the mouse, as the connections are.
LEMMA TakenIs ==
  ASSUME ~ Taken, LinkOK
  PROVE  \A c \in Client : opened[c] => c = First
BY DEF Taken, LinkOK, LinkTypeOK
-----------------------------------------------------------------------------
(* The window.                                                             *)

LEMMA WindowTypes ==
  ASSUME WindowOK, QueueOK, Window
  PROVE  /\ WindowOK' /\ QueueOK'
<1>1. /\ mice \in State /\ mice.wheel = 0 /\ held \subseteq Button /\ states \in Seq(State)
      /\ captured \in BOOLEAN /\ captures \in 0..Captures /\ events \in 0..Events
      /\ Len(states) <= QueueBound
  BY DEF WindowOK, QueueOK
<1>2. \A e \in State : Append(states, e) \in Seq(State) /\ Len(Append(states, e)) = Len(states) + 1
  BY <1>1
<1>3. /\ Captures \in Nat /\ QueueBound \in Nat /\ Events \in Nat /\ Len(states) \in Nat
      /\ Place \subseteq X /\ Delta \subseteq Delta \cup {0}
  BY <1>1, MouseAssumption DEF X
<1>4. /\ \A b \in SUBSET Button : [mice EXCEPT !.buttons = b] \in State /\ [mice EXCEPT !.buttons = b].wheel = 0
      /\ \A x \in Place : [mice EXCEPT !.x = x] \in State /\ [mice EXCEPT !.x = x].wheel = 0
      /\ \A d \in Delta : [mice EXCEPT !.wheel = d] \in State
  BY <1>1, <1>3 DEF State
<1>5. ASSUME UserActs
      PROVE  /\ events' \in 0..Events /\ Len(states) < QueueBound /\ lastRead' = lastRead
             /\ \A e \in State : Enqueue(e) => states' \in Seq(State) /\ Len(states') <= QueueBound
  BY <1>1, <1>2, <1>3, <1>5 DEF UserActs, Enqueue
<1>6. initialized' = initialized
  BY DEF Window
<1>7. ASSUME NEW b \in SUBSET Button, UserActs, ButtonEvent(b), held' \subseteq Button
      PROVE  WindowOK' /\ QueueOK'
  <2>1. CASE captured
    <3>1. mice' = [mice EXCEPT !.buttons = b] /\ Enqueue(mice') /\ UNCHANGED <<captured, captures>>
      BY <1>7, <2>1 DEF ButtonEvent
    <3>2. mice' \in State /\ mice'.wheel = 0
      BY <1>4, <3>1
    <3>3. states' \in Seq(State) /\ Len(states') <= QueueBound
      BY <1>5, <1>7, <3>1, <3>2
    <3> QED
      BY <1>1, <1>5, <1>6, <1>7, <3>1, <3>2, <3>3 DEF WindowOK, QueueOK
  <2>2. CASE ~captured
    BY <1>1, <1>5, <1>6, <1>7, <2>2 DEF ButtonEvent, WindowOK, QueueOK
  <2> QED
    BY <2>1, <2>2
<1>8. ASSUME NEW b \in Button, ButtonDown(b) \/ ButtonUp(b)
      PROVE  WindowOK' /\ QueueOK'
  <2>1. mice.buttons \in SUBSET Button /\ mice.buttons \cup {b} \in SUBSET Button
        /\ mice.buttons \ {b} \in SUBSET Button
    BY <1>1, <1>8 DEF State
  <2>2. held' \subseteq Button /\ UserActs
    BY <1>1, <1>8 DEF ButtonDown, ButtonUp
  <2> QED
    BY <1>7, <1>8, <2>1, <2>2 DEF ButtonDown, ButtonUp
<1>9. CASE ToggleCapture
  <2>1. /\ captures' \in 0..Captures /\ held' \subseteq Button /\ captured' \in BOOLEAN /\ UserActs
    BY <1>1, <1>3, <1>9 DEF ToggleCapture
  <2>2. mice' \in State /\ mice'.wheel = 0 /\ states' \in Seq(State) /\ Len(states') <= QueueBound
    <3>1. CASE captured'
      <4>1. mice' = [mice EXCEPT !.buttons = {}] /\ states' = <<>>
        BY <1>9, <3>1 DEF ToggleCapture
      <4>2. states' \in Seq(State) /\ Len(states') = 0
        BY <4>1, EmptySeq
      <4>3. mice' \in State /\ mice'.wheel = 0
        <5>1. {} \in SUBSET Button
          OBVIOUS
        <5> QED
          BY <1>4, <4>1, <5>1
      <4> QED
        BY <1>3, <4>2, <4>3
    <3>2. CASE ~captured'
      BY <1>1, <1>9, <3>2 DEF ToggleCapture
    <3> QED
      BY <3>1, <3>2
  <2> QED
    BY <1>5, <1>6, <2>1, <2>2 DEF WindowOK, QueueOK
<1>a. CASE Move
  <2>1. UserActs /\ Enqueue(mice') /\ mice' \in State /\ mice'.wheel = 0
        /\ UNCHANGED <<held, captured, captures>>
    BY <1>4, <1>a DEF Move
  <2> QED
    BY <1>1, <1>5, <1>6, <2>1 DEF WindowOK, QueueOK
<1>b. CASE Wheel
  <2>1. UserActs /\ UNCHANGED <<held, captured, captures, mice>> /\ \E e \in State : Enqueue(e)
    BY <1>4, <1>b DEF Wheel
  <2> QED
    BY <1>1, <1>5, <1>6, <2>1 DEF WindowOK, QueueOK
<1> QED
  BY <1>8, <1>9, <1>a, <1>b DEF Window

LEMMA WindowKeeps ==
  ASSUME MouseInv, Window
  PROVE  MouseInv'
<1>1. LinkOK /\ WindowOK /\ QueueOK /\ AgentOK
  BY TypeParts DEF MouseInv
<1>2. UNCHANGED <<linkVars, initialized, agentVars>> /\ asked' = Nothing /\ lastRead' = lastRead
  BY DEF Window, ButtonDown, ButtonUp, ToggleCapture, Move, Wheel, UserActs
<1>3. TypeOK'
  <2>1. LinkOK' /\ AgentOK' /\ AskedOK'
    BY <1>1, <1>2, AgentKept, NotAsked DEF LinkOK, LinkTypeOK, linkVars
  <2> QED
    BY <1>1, <2>1, WindowTypes, TypePartsNext
<1>4. Connected' /\ EnabledIsOpened' /\ InitFirst' /\ Grouped'
  BY <1>2 DEF MouseInv, Connected, EnabledIsOpened, InitFirst, Grouped, linkVars, agentVars
<1>5. InSync'
  BY <1>2 DEF MouseInv, InSync, Taken, linkVars, agentVars
<1> QED
  BY <1>2, <1>3, <1>4, <1>5, NotAsked DEF MouseInv
-----------------------------------------------------------------------------
(* The server.                                                             *)

LEMMA AcceptKeeps ==
  ASSUME MouseInv, Server, AcceptClient
  PROVE  MouseInv'
<1>1. LinkOK /\ WindowOK /\ QueueOK /\ AgentOK /\ Connected
  BY TypeParts DEF MouseInv
<1>2. /\ Accept /\ initialized' = FALSE /\ UNCHANGED <<queueVars, windowVars, agentVars>>
      /\ asked' = Nothing /\ served = None /\ UNCHANGED <<opened, cut, sent, answer>>
  BY DEF AcceptClient, Accept, Server
<1>3. LinkOK' /\ Connected'
  BY <1>1, <1>2, ConnectedAccept DEF LinkOK
<1>4. TypeOK'
  <2>1. QueueOK'
    BY <1>1, <1>2 DEF QueueOK, queueVars
  <2> QED
    BY <1>1, <1>2, <1>3, <2>1, WindowKept, AgentKept, NotAsked, TypePartsNext
<1>5. EnabledIsOpened' /\ Grouped'
  BY <1>2 DEF MouseInv, EnabledIsOpened, Grouped, agentVars
<1>6. InitFirst'
  BY <1>2, Constants DEF MouseInv, InitFirst
<1>7. InSync'
  BY <1>2 DEF MouseInv, InSync, Taken, queueVars, agentVars
<1> QED
  BY <1>2, <1>3, <1>4, <1>5, <1>6, <1>7, NotAsked DEF MouseInv

\* A connection is closed only when another program has the mouse: a handler
\* connects once and says INIT first.
LEMMA HangupKeeps ==
  ASSUME MouseInv, served # None, Hangup, Taken,
         UNCHANGED <<queueVars, initialized, windowVars, agentVars>>, asked' = Nothing
  PROVE  MouseInv'
<1>1. LinkOK /\ WindowOK /\ QueueOK /\ AgentOK /\ Connected
  BY TypeParts DEF MouseInv
<1>2. /\ LinkOK' /\ Connected'
      /\ sent'[served] = <<>> /\ \A c \in Client : c # served => sent'[c] = sent[c]
  BY <1>1, Constants, ConnectedHangup DEF LinkOK
<1>3. served' = None /\ cut' = cut \cup {served} /\ UNCHANGED <<opened, answer>>
  BY DEF Hangup
<1>4. TypeOK'
  BY <1>1, <1>2, WindowKept, QueueKept, AgentKept, NotAsked, TypePartsNext
<1>5. EnabledIsOpened' /\ Grouped'
  BY <1>3 DEF MouseInv, EnabledIsOpened, Grouped, agentVars
<1>6. InitFirst'
  BY <1>2, <1>3 DEF MouseInv, InitFirst
<1>7. InSync'
  BY <1>3 DEF InSync, Taken
<1> QED
  BY <1>2, <1>4, <1>5, <1>6, <1>7, NotAsked DEF MouseInv

LEMMA PreemptTaken ==
  ASSUME MouseInv, Preempt
  PROVE  Taken
<1>1. LinkOK /\ Connected
  BY TypeParts DEF MouseInv
<1>2. served # None /\ backlog # <<>>
  BY DEF Preempt, KeepServing
<1>3. 1 \in DOMAIN backlog /\ backlog[1] \in Client /\ served \in Client
  BY <1>1, <1>2 DEF LinkOK, LinkTypeOK
<1>4. opened[served] /\ opened[backlog[1]] /\ backlog[1] # served
  BY <1>1, <1>2, <1>3 DEF Connected
<1> QED
  BY <1>3, <1>4 DEF Taken

LEMMA RefusedTaken ==
  ASSUME MouseInv, Incoming("READ"), ~ initialized
  PROVE  Taken
<1>1. LinkOK /\ Connected /\ InitFirst
  BY TypeParts DEF MouseInv
<1>2. served # None /\ served \in Client /\ sent[served] # <<>> /\ sent[served] \in Seq({"INIT", "READ"})
      /\ Head(sent[served]) = "READ"
  BY <1>1 DEF Incoming, LinkOK, LinkTypeOK
<1>3. sent[served][1] = "READ"
  BY <1>2, FirstAndRest
<1>4. opened[served] /\ served \notin cut
  BY <1>1, <1>2 DEF Connected
<1> QED
  BY <1>1, <1>2, <1>3, <1>4 DEF InitFirst

\* A message is read off the connection served.
LEMMA TakeKeeps ==
  ASSUME MouseInv, NEW m \in {"INIT", "READ"}, Incoming(m), Take,
         UNCHANGED <<alive, opened, backlog, served, cut, reset, windowVars, agentVars>>,
         answer' \in [Client -> Seq(Answer)],
         \A c \in Client : c # served => answer'[c] = answer[c],
         initialized', asked' = Nothing, QueueOK'
  PROVE  /\ TypeOK' /\ Connected' /\ EnabledIsOpened' /\ InitFirst' /\ Grouped'
         /\ served \in Client /\ opened[served]
<1>1. LinkOK /\ WindowOK /\ QueueOK /\ AgentOK /\ Connected /\ EnabledIsOpened /\ InitFirst /\ Grouped
  BY TypeParts DEF MouseInv
<1>2. served # None /\ sent[served] # <<>>
  BY DEF Incoming
<1>3. /\ LinkOK' /\ Connected' /\ served \in Client
      /\ \A c \in Client : c # served => sent'[c] = sent[c]
  BY <1>1, <1>2, ConnectedTake DEF LinkOK
<1>4. TypeOK'
  BY <1>1, <1>3, WindowKept, AgentKept, NotAsked, TypePartsNext
<1>5. EnabledIsOpened' /\ Grouped'
  BY <1>1 DEF EnabledIsOpened, Grouped, agentVars
<1>6. InitFirst'
  BY <1>1, <1>3 DEF InitFirst
<1> QED
  BY <1>1, <1>2, <1>3, <1>4, <1>5, <1>6, NotAsked DEF Connected

LEMMA InitKeeps ==
  ASSUME MouseInv, Server, ReadInit
  PROVE  MouseInv'
<1>1. /\ Incoming("INIT") /\ Take /\ initialized' /\ asked' = Nothing
      /\ UNCHANGED <<alive, opened, backlog, served, cut, reset, windowVars, agentVars>>
      /\ UNCHANGED <<answer, queueVars>>
  BY DEF ReadInit, Server
<1>2. answer \in [Client -> Seq(Answer)] /\ QueueOK'
  BY <1>1, TypeParts DEF MouseInv, LinkOK, LinkTypeOK, QueueOK, queueVars
<1>3. TypeOK' /\ Connected' /\ EnabledIsOpened' /\ InitFirst' /\ Grouped'
  BY <1>1, <1>2, TakeKeeps
<1>4. InSync'
  BY <1>1 DEF MouseInv, InSync, Taken, queueVars, agentVars
<1> QED
  BY <1>3, <1>4 DEF MouseInv
LEMMA ReplyIs ==
  ASSUME answer \in [Client -> Seq(Answer)], served \in Client, NEW a \in Answer, Reply(a)
  PROVE  /\ answer' \in [Client -> Seq(Answer)]
         /\ answer'[served] = Append(answer[served], a)
         /\ \A c \in Client : c # served => answer'[c] = answer[c]
<1>1. answer' = [answer EXCEPT ![served] = Append(@, a)]
  BY DEF Reply
<1>2. Append(answer[served], a) \in Seq(Answer)
  BY AndLast
<1> QED
  BY <1>1, <1>2

LEMMA SignIs ==
  ASSUME NEW r \in State
  PROVE  /\ [r EXCEPT !.wheel = Sign(@)] \in Answer
         /\ [r EXCEPT !.wheel = Sign(@)].buttons = r.buttons
<1>1. r.wheel \in Int
  <2>1. Delta \cup {0} \subseteq Int
    BY MouseAssumption
  <2>2. r.wheel \in Delta \cup {0}
    BY DEF State
  <2> QED
    BY <2>1, <2>2
<1>2. Sign(r.wheel) \in -1..1
  BY <1>1 DEF Sign
<1> QED
  BY <1>2 DEF State, Answer

\* What the server answers when nothing happened.
LEMMA IdleIs ==
  ASSUME QueueOK
  PROVE  LET a == IF lastRead = None THEN [buttons |-> {}, x |-> 0, wheel |-> 0]
                                     ELSE [lastRead EXCEPT !.wheel = 0]
         IN  a \in Answer /\ a.buttons = IF lastRead = None THEN {} ELSE lastRead.buttons
<1>1. CASE lastRead = None
  BY <1>1 DEF Answer, X
<1>2. CASE lastRead # None
  <2>1. lastRead \in State
    BY <1>2 DEF QueueOK
  <2> QED
    BY <1>2, <2>1 DEF State, Answer
<1> QED
  BY <1>1, <1>2

\* A program that has the mouse for itself is told the buttons of the answer last.
LEMMA ToldLast ==
  ASSUME LinkOK, NEW a \in Answer, Reply(a), UNCHANGED <<opened, cut, last>>, served \in Client,
         opened[served], ~ Taken => cut = {},
         a.buttons = IF lastRead' = None THEN {} ELSE lastRead'.buttons
  PROVE  InSync'
<1> SUFFICES ASSUME ~ Taken, ~ Taken'
             PROVE  Final(last[First].buttons, Buttons(answer'[First])) =
                      IF lastRead' = None THEN {} ELSE lastRead'.buttons
  BY DEF InSync, Taken
<1>1. served = First /\ answer \in [Client -> Seq(Answer)]
  BY TakenIs DEF LinkOK, LinkTypeOK
<1>2. answer[First] \in Seq(Answer) /\ answer'[First] = Append(answer[First], a)
  BY <1>1, ReplyIs
<1>3. Buttons(answer'[First]) = Append(Buttons(answer[First]), a.buttons)
  BY <1>2, Constants, ButtonsLast
<1>4. Buttons(answer[First]) \in Lines /\ a.buttons \in Pressed
  BY <1>2, Constants, ButtonsAre
<1>5. Final(last[First].buttons, Append(Buttons(answer[First]), a.buttons)) = a.buttons
  BY <1>4, WithLast, AndLast DEF Final, Lines
<1> QED
  BY <1>3, <1>5

LEMMA ReadKeeps ==
  ASSUME MouseInv, Server, ReadRead
  PROVE  MouseInv'
<1>0. /\ served # None /\ Incoming("READ") /\ UNCHANGED <<initialized, windowVars, agentVars>>
      /\ asked' = Nothing
  BY DEF ReadRead, Server, Incoming
<1>1. CASE ~ initialized
  BY <1>0, <1>1, HangupKeeps, RefusedTaken DEF ReadRead
<1>2. CASE initialized
  <2>1. /\ LinkOK /\ QueueOK /\ InSync /\ Connected /\ Take /\ initialized'
        /\ UNCHANGED <<alive, opened, backlog, served, cut, reset, last>>
    BY <1>0, <1>2, TypeParts DEF ReadRead, MouseInv, agentVars
  <2>2. served \in Client /\ opened[served] /\ answer \in [Client -> Seq(Answer)]
    BY <1>0, <2>1 DEF Connected, LinkOK, LinkTypeOK
  <2>3. PICK a \in Answer : /\ Reply(a) /\ QueueOK'
                            /\ a.buttons = IF lastRead' = None THEN {} ELSE lastRead'.buttons
    <3>1. CASE states = <<>>
      <4>1. ReadIdle
        BY <1>2, <3>1 DEF ReadRead
      <4>2. UNCHANGED <<queueVars, initialized>>
        BY <1>0, <4>1 DEF ReadIdle
      <4> QED
        BY <2>1, <4>1, <4>2, QueueKept, IdleIs DEF ReadIdle, queueVars
    <3>2. CASE states # <<>>
      <4>1. ReadQueue
        BY <1>2, <3>2 DEF ReadRead
      <4>2. states \in Seq(State) /\ Len(states) <= QueueBound /\ Len(states) \in Nat
        BY <2>1 DEF QueueOK
      <4>3. PICK n \in 1..Len(states) : n = Merged
        BY <3>2, <4>2, MergedIs
      <4>4. PICK r \in State : r = states[n]
        BY <4>2, <4>3
      <4>5. lastRead' = r /\ lastRead' # None
        BY <4>1, <4>3, <4>4, Constants DEF ReadQueue
      <4>6. states' = SubSeq(states, n + 1, Len(states))
        BY <4>1, <4>3 DEF ReadQueue
      <4>7. states' \in Seq(State) /\ Len(states') <= QueueBound
        <5>1. /\ n + 1 \in Int /\ Len(states) \in Int /\ QueueBound \in Nat
              /\ \A i \in n + 1..Len(states) : states[i] \in State
          BY <4>2, <4>3, MouseAssumption
        <5>2. /\ states' \in Seq(State)
              /\ Len(states') = IF n + 1 <= Len(states) THEN Len(states) - (n + 1) + 1 ELSE 0
          BY <4>6, <5>1, SubSeqProperties
        <5> QED
          BY <4>2, <4>3, <5>1, <5>2
      <4>8. QueueOK'
        BY <1>0, <2>1, <4>5, <4>7 DEF QueueOK
      <4>9. Reply([r EXCEPT !.wheel = Sign(@)])
        BY <4>1, <4>3, <4>4 DEF ReadQueue
      <4> QED
        BY <4>5, <4>8, <4>9, SignIs
    <3> QED
      BY <3>1, <3>2
  <2>4. /\ answer' \in [Client -> Seq(Answer)]
        /\ \A c \in Client : c # served => answer'[c] = answer[c]
    BY <2>2, <2>3, ReplyIs
  <2>5. TypeOK' /\ Connected' /\ EnabledIsOpened' /\ InitFirst' /\ Grouped'
    BY <1>0, <2>1, <2>3, <2>4, TakeKeeps
  <2>6. ~ Taken => cut = {}
    BY <2>1 DEF InSync
  <2>7. InSync'
    BY <2>1, <2>2, <2>3, <2>6, ToldLast
  <2> QED
    BY <2>5, <2>7 DEF MouseInv
<1> QED
  BY <1>1, <1>2

LEMMA ServerKeeps ==
  ASSUME MouseInv, Server
  PROVE  MouseInv'
<1>1. CASE PreemptClient
  <2>1. Preempt /\ served # None /\ Hangup /\ UNCHANGED <<queueVars, initialized, windowVars, agentVars>>
        /\ asked' = Nothing
    BY <1>1 DEF Server, PreemptClient, Preempt
  <2> QED
    BY <2>1, PreemptTaken, HangupKeeps
<1> QED
  BY <1>1, AcceptKeeps, InitKeeps, ReadKeeps DEF Server
-----------------------------------------------------------------------------
(* The agent.                                                              *)

LEMMA EnableKeeps ==
  ASSUME MouseInv, NEW c \in Client, Agent, Enable(c)
  PROVE  MouseInv'
<1>1. /\ LinkOK /\ WindowOK /\ QueueOK /\ AgentOK /\ Connected /\ EnabledIsOpened /\ InitFirst
      /\ Grouped /\ InSync
  BY TypeParts DEF MouseInv
<1>2. /\ Open(c) /\ Post(c, <<"INIT">>) /\ enabled' = [enabled EXCEPT ![c] = TRUE]
      /\ UNCHANGED <<alive, served, cut, answer, reader, last, returned>>
      /\ UNCHANGED <<windowVars, queueVars, initialized>> /\ asked' = Nothing
  BY DEF Agent, Enable
<1>3. /\ opened \in [Client -> BOOLEAN] /\ sent \in [Client -> Seq({"INIT", "READ"})]
      /\ cut \subseteq Client /\ reset \subseteq cut
  BY <1>1 DEF LinkOK, LinkTypeOK
<1>4. /\ c \in cut => sent' = sent /\ reset' \subseteq cut
      /\ c \notin cut => /\ sent'[c] = Append(sent[c], "INIT") /\ reset' = reset
                         /\ sent' \in [Client -> Seq({"INIT", "READ"})]
      /\ \A d \in Client : d # c => sent'[d] = sent[d]
  <2>1. c \in cut => sent' = sent /\ reset' \subseteq cut
    BY <1>2, <1>3 DEF Post
  <2>2. ASSUME c \notin cut
        PROVE  sent' = [sent EXCEPT ![c] = Append(sent[c], "INIT")] /\ reset' = reset
    <3>1. sent' = [sent EXCEPT ![c] = @ \o <<"INIT">>] /\ reset' = reset
      BY <1>2, <2>2 DEF Post
    <3>2. sent[c] \o <<"INIT">> = Append(sent[c], "INIT")
      BY <1>3
    <3> QED
      BY <3>1, <3>2
  <2>3. Append(sent[c], "INIT") \in Seq({"INIT", "READ"})
    BY <1>3, AndLast
  <2> QED
    BY <1>3, <2>1, <2>2, <2>3
<1>5. Connected' /\ opened' \in [Client -> BOOLEAN] /\ backlog' \in Seq(Client)
  <2>1. \A d \in Client : sent'[d] # sent[d] => d = c /\ d \notin cut
    BY <1>4
  <2> QED
    BY <1>1, <1>2, <2>1, Constants, ConnectedOpen DEF LinkOK
<1>6. opened'[c] /\ \A d \in Client : d # c => opened'[d] = opened[d]
  BY <1>2, <1>3 DEF Open
<1>7. LinkOK'
  <2>1. sent' \in [Client -> Seq({"INIT", "READ"})] /\ reset' \subseteq cut'
    BY <1>2, <1>3, <1>4
  <2> QED
    BY <1>1, <1>2, <1>5, <2>1 DEF LinkOK, LinkTypeOK
<1>8. TypeOK'
  <2>1. AgentOK'
    BY <1>1, <1>2 DEF AgentOK
  <2> QED
    BY <1>1, <1>2, <1>7, <2>1, WindowKept, QueueKept, NotAsked, TypePartsNext
<1>9. EnabledIsOpened' /\ Grouped'
  BY <1>1, <1>2, <1>3, <1>6 DEF EnabledIsOpened, Grouped, AgentOK
<1>a. InitFirst'
  <2> SUFFICES ASSUME NEW d \in Client, opened'[d], d \notin cut, ~ (served = d /\ initialized)
               PROVE  sent'[d] # <<>> /\ sent'[d][1] = "INIT"
    BY <1>2 DEF InitFirst
  <2>1. CASE d # c
    BY <1>1, <1>4, <1>6, <2>1 DEF InitFirst
  <2>2. CASE d = c /\ opened[c]
    <3>1. sent[c] # <<>> /\ sent[c][1] = "INIT" /\ sent[c] \in Seq({"INIT", "READ"})
      BY <1>1, <1>3, <2>2 DEF InitFirst
    <3>2. 1 \in 1..Len(sent[c])
      BY <3>1, FirstAndRest
    <3> QED
      BY <1>4, <2>2, <3>1, <3>2, WithLast, AndLast
  <2>3. CASE d = c /\ ~opened[c]
    <3>1. sent[c] = <<>>
      BY <1>1, <2>3 DEF Connected
    <3> QED
      BY <1>4, <2>3, <3>1
  <2> QED
    BY <2>1, <2>2, <2>3
<1>b. InSync'
  <2>1. Taken => Taken'
    BY <1>6 DEF Taken
  <2> QED
    BY <1>1, <1>2, <2>1 DEF InSync, queueVars
<1> QED
  BY <1>2, <1>5, <1>8, <1>9, <1>a, <1>b, NotAsked DEF MouseInv

LEMMA BeginReadKeeps ==
  ASSUME MouseInv, NEW c \in Client, Agent, BeginRead(c)
  PROVE  MouseInv'
<1>1. /\ LinkOK /\ WindowOK /\ QueueOK /\ AgentOK /\ Connected /\ EnabledIsOpened /\ InitFirst
      /\ Grouped /\ InSync
  BY TypeParts DEF MouseInv
<1>2. /\ enabled[c] /\ Post(c, <<"READ">>) /\ reader' = c /\ returned' = {}
      /\ UNCHANGED <<alive, opened, backlog, served, cut, answer, enabled, last>>
      /\ UNCHANGED <<windowVars, queueVars, initialized>> /\ asked' = Nothing
  BY DEF Agent, BeginRead
<1>3. opened[c]
  BY <1>1, <1>2 DEF EnabledIsOpened
<1>4. /\ LinkOK' /\ Connected'
      /\ c \in cut => sent' = sent
      /\ c \notin cut => sent'[c] = Append(sent[c], "READ")
      /\ \A d \in Client : d # c => sent'[d] = sent[d]
  BY <1>1, <1>2, <1>3, ConnectedPost DEF LinkOK
<1>5. TypeOK'
  <2>1. AgentOK'
    BY <1>1, <1>2 DEF AgentOK
  <2> QED
    BY <1>1, <1>2, <1>4, <2>1, WindowKept, QueueKept, NotAsked, TypePartsNext
<1>6. EnabledIsOpened' /\ Grouped'
  BY <1>1, <1>2 DEF EnabledIsOpened, Grouped
<1>7. InitFirst'
  <2> SUFFICES ASSUME NEW d \in Client, opened[d], d \notin cut, ~ (served = d /\ initialized)
               PROVE  sent'[d] # <<>> /\ sent'[d][1] = "INIT"
    BY <1>2 DEF InitFirst
  <2>1. sent[d] # <<>> /\ sent[d][1] = "INIT" /\ sent[d] \in Seq({"INIT", "READ"})
    BY <1>1 DEF InitFirst, LinkOK, LinkTypeOK
  <2>2. 1 \in 1..Len(sent[d])
    BY <2>1, FirstAndRest
  <2>3. CASE d = c
    <3>1. /\ Append(sent[d], "READ") # <<>>
          /\ Append(sent[d], "READ")[1] = sent[d][1]
      BY <2>1, <2>2, WithLast, AndLast
    <3> QED
      BY <1>4, <2>1, <2>3, <3>1
  <2> QED
    BY <1>4, <2>1, <2>3
<1>8. InSync'
  BY <1>1, <1>2 DEF InSync, Taken, queueVars
<1> QED
  BY <1>2, <1>4, <1>5, <1>6, <1>7, <1>8, NotAsked DEF MouseInv

\* What a read returns is a group of events that the mouse says it has.
LEMMA DeliverIs ==
  ASSUME AgentOK, reader # None, NEW resp \in Answer, Deliver(resp)
  PROVE  /\ AgentOK' /\ Grouped' /\ reader' = None /\ enabled' = enabled
         /\ last'[reader].buttons = resp.buttons
         /\ \A c \in Client : c # reader => last'[c] = last[c]
<1>1. /\ reader \in Client /\ enabled \in [Client -> BOOLEAN]
      /\ last \in [Client -> [buttons : SUBSET Button, x : X \cup {Start}]]
  BY DEF AgentOK
<1>2. /\ last' = [last EXCEPT ![reader] = [buttons |-> resp.buttons, x |-> resp.x]]
      /\ reader' = None /\ enabled' = enabled
  BY DEF Deliver
<1>3. Grouped'
  <2> DEFINE buttons == (resp.buttons \ last[reader].buttons)
                          \cup (last[reader].buttons \ resp.buttons)
             keys == {<<"EV_KEY", IF b = "left" THEN "BTN_LEFT" ELSE "BTN_RIGHT">> : b \in buttons}
             wheel == IF resp.wheel = 0 THEN {} ELSE {<<"EV_REL", "REL_WHEEL">>}
             moves(axes) == {<<"EV_ABS", a>> : a \in axes}
  <2>1. PICK axes \in SUBSET {"ABS_X", "ABS_Y"} :
          returned' = IF keys \cup moves(axes) \cup wheel = {} THEN {}
                      ELSE (keys \cup moves(axes) \cup wheel) \cup {<<"EV_SYN", "SYN_REPORT">>}
    BY DEF Deliver
  <2>2. keys \subseteq MiceDeclared
    BY MiceDeclaredIs
  <2>3. moves(axes) \subseteq MiceDeclared
    BY MiceDeclaredIs
  <2>4. wheel \subseteq MiceDeclared
    BY MiceDeclaredIs
  <2> HIDE DEF keys, wheel, moves
  <2> QED
    BY <2>1, <2>2, <2>3, <2>4 DEF Grouped
<1>4. AgentOK'
  <2>1. [buttons |-> resp.buttons, x |-> resp.x] \in [buttons : SUBSET Button, x : X \cup {Start}]
    BY DEF Answer
  <2>2. last' \in [Client -> [buttons : SUBSET Button, x : X \cup {Start}]]
    BY <1>1, <1>2, <2>1
  <2>3. returned' \subseteq MiceDeclared \cup {<<"EV_SYN", "SYN_REPORT">>}
    BY <1>3 DEF Grouped
  <2> QED
    BY <1>1, <1>2, <2>2, <2>3 DEF AgentOK
<1> QED
  BY <1>1, <1>2, <1>3, <1>4

LEMMA ReceiveKeeps ==
  ASSUME MouseInv, Agent, Receive
  PROVE  MouseInv'
<1>1. /\ LinkOK /\ WindowOK /\ QueueOK /\ AgentOK /\ Connected /\ EnabledIsOpened /\ InitFirst
      /\ InSync
  BY TypeParts DEF MouseInv
<1>2. /\ reader # None /\ answer[reader] # <<>> /\ Deliver(Head(answer[reader]))
      /\ answer' = [answer EXCEPT ![reader] = Tail(@)]
      /\ UNCHANGED <<alive, opened, backlog, served, cut, reset, sent>>
      /\ UNCHANGED <<windowVars, queueVars, initialized>> /\ asked' = Nothing
  BY DEF Agent, Receive
<1>3. reader \in Client /\ enabled[reader] /\ opened[reader] /\ answer \in [Client -> Seq(Answer)]
  BY <1>1, <1>2 DEF AgentOK, EnabledIsOpened, LinkOK, LinkTypeOK
<1>4. PICK l \in Seq(Answer) : l = answer[reader]
  BY <1>3
<1>5. PICK e \in Answer : e = Head(l)
  BY <1>2, <1>4, ButtonsFirst, Constants
<1>6. Tail(l) \in Seq(Answer) /\ Buttons(l) = Cat(One(e.buttons), Buttons(Tail(l)))
  BY <1>2, <1>4, <1>5, ButtonsFirst, Constants
<1>7. /\ AgentOK' /\ Grouped' /\ reader' = None /\ enabled' = enabled
      /\ last'[reader].buttons = e.buttons /\ \A c \in Client : c # reader => last'[c] = last[c]
  BY <1>1, <1>2, <1>4, <1>5, DeliverIs
<1>8. /\ answer' \in [Client -> Seq(Answer)] /\ answer'[reader] = Tail(l)
      /\ \A c \in Client : c # reader => answer'[c] = answer[c]
  BY <1>2, <1>3, <1>4, <1>6
<1>9. TypeOK'
  <2>1. LinkOK'
    BY <1>1, <1>2, <1>8 DEF LinkOK, LinkTypeOK
  <2> QED
    BY <1>1, <1>2, <1>7, <2>1, WindowKept, QueueKept, NotAsked, TypePartsNext
<1>a. Connected'
  <2>1. cut \subseteq Client /\ \A c \in Client : answer'[c] # answer[c] => opened[c]
    BY <1>1, <1>3, <1>8 DEF LinkOK, LinkTypeOK
  <2> QED
    BY <1>1, <1>2, <2>1, ConnectedKept
<1>b. EnabledIsOpened' /\ InitFirst'
  BY <1>1, <1>2, <1>7 DEF EnabledIsOpened, InitFirst
<1>c. InSync'
  <2> SUFFICES ASSUME ~ Taken
               PROVE  Final(last'[First].buttons, Buttons(answer'[First])) =
                        Final(last[First].buttons, Buttons(answer[First]))
    BY <1>1, <1>2 DEF InSync, Taken, queueVars
  <2>1. reader = First
    BY <1>1, <1>3, TakenIs
  <2>2. e.buttons \in Pressed /\ last[First].buttons \in Pressed
    BY <1>1, Constants DEF AgentOK, Pressed
  <2>3. Buttons(Tail(l)) \in Lines
    BY <1>6, Constants, ButtonsAre
  <2>4. Final(last[First].buttons, Cat(One(e.buttons), Buttons(Tail(l)))) = Final(e.buttons, Buttons(Tail(l)))
    BY <2>2, <2>3, ChangesFirst
  <2> QED
    BY <1>4, <1>6, <1>7, <1>8, <2>1, <2>4
<1> QED
  BY <1>2, <1>7, <1>9, <1>a, <1>b, <1>c, NotAsked DEF MouseInv

LEMMA ReceiveFailsKeeps ==
  ASSUME MouseInv, Agent, ReceiveFails
  PROVE  MouseInv'
<1>1. /\ LinkOK /\ WindowOK /\ QueueOK /\ AgentOK /\ Connected /\ EnabledIsOpened /\ InitFirst
      /\ InSync
  BY TypeParts DEF MouseInv
<1>2. /\ reader \in cut /\ UNCHANGED linkVars /\ UNCHANGED <<windowVars, queueVars, initialized>>
      /\ asked' = Nothing
  BY DEF Agent, ReceiveFails
<1>3. PICK resp \in Garbage : Deliver(resp)
  BY DEF ReceiveFails
<1>4. resp \in Answer /\ reader \in Client /\ reader # None
  BY <1>1, <1>2, Constants, MouseAssumption DEF LinkOK, LinkTypeOK
<1>5. AgentOK' /\ Grouped' /\ reader' = None /\ enabled' = enabled
  BY <1>1, <1>3, <1>4, DeliverIs
<1>6. TypeOK'
  <2>1. LinkOK'
    BY <1>1, <1>2 DEF LinkOK, LinkTypeOK, linkVars
  <2> QED
    BY <1>1, <1>2, <1>5, <2>1, WindowKept, QueueKept, NotAsked, TypePartsNext
<1>7. Connected' /\ EnabledIsOpened' /\ InitFirst'
  BY <1>1, <1>2, <1>5 DEF Connected, EnabledIsOpened, InitFirst, linkVars
<1>8. InSync'
  BY <1>1, <1>2 DEF InSync, Taken, linkVars
<1> QED
  BY <1>2, <1>5, <1>6, <1>7, <1>8, NotAsked DEF MouseInv

LEMMA OtherKeeps ==
  ASSUME MouseInv, UNCHANGED <<opened, backlog, served, cut, reset, sent, answer>>,
         alive' \in BOOLEAN, UNCHANGED <<windowVars, queueVars, initialized, agentVars>>,
         AskedOK'
  PROVE  MouseInv'
<1>1. LinkOK /\ WindowOK /\ QueueOK /\ AgentOK
  BY TypeParts DEF MouseInv
<1>2. TypeOK'
  <2>1. LinkOK'
    BY <1>1 DEF LinkOK, LinkTypeOK
  <2> QED
    BY <1>1, <2>1, WindowKept, QueueKept, AgentKept, TypePartsNext
<1>3. Connected' /\ EnabledIsOpened' /\ InitFirst' /\ Grouped' /\ InSync'
  BY DEF MouseInv, Connected, EnabledIsOpened, InitFirst, Grouped, InSync, Taken, queueVars, agentVars
<1> QED
  BY <1>2, <1>3 DEF MouseInv

LEMMA EnableFailsKeeps ==
  ASSUME MouseInv, NEW c \in Client, Agent, EnableFails(c)
  PROVE  MouseInv'
<1>1. LinkOK /\ WindowOK /\ QueueOK /\ AgentOK /\ EnabledIsOpened
  BY TypeParts DEF MouseInv
<1>2. /\ ~ opened[c] /\ enabled' = [enabled EXCEPT ![c] = FALSE]
      /\ UNCHANGED <<alive, opened, backlog, served, cut, reset, sent, answer>>
      /\ UNCHANGED <<reader, last, returned, windowVars, queueVars, initialized>>
      /\ asked' = Nothing
  BY DEF Agent, EnableFails, OpenFails, linkVars
<1>3. enabled' = enabled
  BY <1>1, <1>2 DEF EnabledIsOpened, AgentOK
<1>4. UNCHANGED agentVars /\ alive' \in BOOLEAN
  BY <1>1, <1>2, <1>3 DEF agentVars, LinkOK, LinkTypeOK
<1> QED
  BY <1>2, <1>4, NotAsked, OtherKeeps

LEMMA StepKeeps ==
  ASSUME MouseInv, [Next]_vars
  PROVE  MouseInv'
<1>1. CASE Agent
  <2>1. CASE Killed
    <3>1. /\ alive' = FALSE /\ UNCHANGED <<opened, backlog, served, cut, reset, sent, answer>>
          /\ UNCHANGED <<windowVars, queueVars, initialized, agentVars>> /\ asked' = Nothing
      BY <1>1, <2>1 DEF Agent, Killed, SigPipe
    <3> QED
      BY <3>1, NotAsked, OtherKeeps
  <2> QED
    BY <1>1, <2>1, EnableKeeps, EnableFailsKeeps, BeginReadKeeps, ReceiveKeeps, ReceiveFailsKeeps DEF Agent, Reading
<1>2. CASE Identify
  <2>1. PICK h \in Handler : \E op \in Ioctl(h) : asked' = <<h, op, Result(h, op)>>
    BY <1>2 DEF Identify
  <2>2. AskedOK'
    <3>1. asked'[1] = h
      BY <2>1
    <3> QED
      BY <2>1, <3>1 DEF AskedOK
  <2>3. alive \in BOOLEAN
    BY TypeParts DEF MouseInv, LinkOK, LinkTypeOK
  <2> QED
    BY <1>2, <2>2, <2>3, OtherKeeps DEF Identify, linkVars
<1>3. CASE UNCHANGED vars
  <2>1. alive \in BOOLEAN /\ AskedOK
    BY TypeParts DEF MouseInv, LinkOK, LinkTypeOK
  <2>2. AskedOK'
    BY <1>3, <2>1 DEF vars, AskedOK
  <2> QED
    BY <1>3, <2>1, <2>2, OtherKeeps DEF vars, linkVars
<1> QED
  BY <1>1, <1>2, <1>3, WindowKeeps, ServerKeeps DEF Next

LEMMA InitHolds == Init => MouseInv
<1> SUFFICES ASSUME Init
             PROVE  MouseInv
  OBVIOUS
<1>1. LinkOK
  BY DEF Init, LinkInit, LinkOK, LinkTypeOK
<1>2. WindowOK
  <2>1. [buttons |-> {}, x |-> 0, wheel |-> 0] \in State
    BY DEF State, X
  <2>2. 0 \in 0..Captures /\ 0 \in 0..Events
    <3>1. Captures \in Nat /\ Events \in Nat
      BY MouseAssumption
    <3> QED
      BY <3>1
  <2>3. /\ held = {} /\ captured = FALSE /\ captures = 0 /\ events = 0
        /\ mice = [buttons |-> {}, x |-> 0, wheel |-> 0]
    BY DEF Init
  <2>4. mice \in State /\ mice.wheel = 0
    BY <2>1, <2>3
  <2> QED
    BY <2>2, <2>3, <2>4 DEF WindowOK
<1>3. QueueOK
  <2>1. QueueBound \in Nat /\ <<>> \in Seq(State) /\ Len(<<>>) = 0
    BY MouseAssumption, EmptySeq
  <2>2. states = <<>> /\ lastRead = None /\ initialized = FALSE
    BY DEF Init
  <2>3. states \in Seq(State) /\ Len(states) <= QueueBound
    BY <2>1, <2>2
  <2> QED
    BY <2>2, <2>3 DEF QueueOK
<1>4. AgentOK /\ AskedOK /\ Grouped
  BY DEF Init, AgentOK, AskedOK, Grouped, Nothing
<1>5. Connected /\ EnabledIsOpened /\ InitFirst
  BY Constants DEF Init, LinkInit, Connected, EnabledIsOpened, InitFirst
<1>6. InSync
  <2>1. /\ cut = {} /\ lastRead = None /\ answer[First] = <<>> /\ last[First].buttons = {}
    BY Constants DEF Init, LinkInit
  <2> QED
    BY <2>1, ButtonsNone DEF InSync, Final
<1> QED
  BY <1>1, <1>2, <1>3, <1>4, <1>5, <1>6, TypeParts DEF MouseInv
-----------------------------------------------------------------------------
(* The invariant holds, and with it what it implies.                       *)

\* The queue, the connections, the handlers and the window of the mouse keep the
\* invariant, however programs, server and user take turns.
THEOREM MouseInvHolds == Spec => []MouseInv
<1>1. MouseInv /\ [Next]_vars => MouseInv'
  BY StepKeeps
<1> QED
  BY InitHolds, <1>1, PTL DEF Spec

\* The queue stays within its bound, and queue, connections, handlers and window are
\* what they are declared to be.
THEOREM TypeCorrect == Spec => []TypeOK
<1>1. MouseInv => TypeOK
  BY DEF MouseInv
<1> QED
  BY MouseInvHolds, <1>1, PTL

\* A read of /dev/input/evmice returns complete groups of events, each of a type and a
\* code that EVIOCGBIT tells programs, and the keyboard has every code it can return.
THEOREM EventsDeclaredHolds == Spec => []EventsDeclared
<1>1. MouseInv => EventsDeclared
  BY GroupedDeclared DEF MouseInv
<1> QED
  BY MouseInvHolds, <1>1, PTL
-----------------------------------------------------------------------------
(* The refinement of Clicks.                                               *)

Seen == last[First].buttons
Told == Buttons(answer[First])
Queue == Buttons(states)

LEMMA OnTheWayIs ==
  ASSUME TypeOK
  PROVE  /\ Seen \in Pressed /\ Told \in Lines /\ Queue \in Lines /\ mice.buttons \in Pressed
         /\ ButtonsOnTheWay = Changes(Seen, Cat(Told, Queue))
<1>1. LinkOK /\ WindowOK /\ QueueOK /\ AgentOK
  BY TypeParts
<1>2. Seen \in Pressed /\ mice.buttons \in Pressed
  BY <1>1, Constants DEF Seen, AgentOK, WindowOK, Pressed
<1>3. answer[First] \in Seq(Answer) /\ states \in Seq(State)
  BY <1>1, Constants DEF LinkOK, LinkTypeOK, QueueOK
<1>4. Told \in Lines /\ Queue \in Lines
  BY <1>3, Constants, ButtonsAre DEF Told, Queue
<1> QED
  BY <1>2, <1>4 DEF ButtonsOnTheWay, Seen, Told, Queue, Cat

\* The same of the state after a step.
LEMMA OnTheWayNext ==
  (TypeOK => /\ Seen \in Pressed /\ Told \in Lines /\ Queue \in Lines /\ mice.buttons \in Pressed
             /\ ButtonsOnTheWay = Changes(Seen, Cat(Told, Queue)))'
<1>1. TypeOK => /\ Seen \in Pressed /\ Told \in Lines /\ Queue \in Lines /\ mice.buttons \in Pressed
                /\ ButtonsOnTheWay = Changes(Seen, Cat(Told, Queue))
  BY OnTheWayIs
<1> QED
  BY <1>1, PTL

\* What a step of the mouse may be for Clicks.
ClicksStep == [ImplementsClicks!Next]_ImplementsClicks!vars

LEMMA StutterMaps ==
  ASSUME UNCHANGED <<Seen, ButtonsOnTheWay, Taken>>, mice'.buttons = mice.buttons
  PROVE  ClicksStep
BY DEF ClicksStep, ImplementsClicks!vars, Seen, Taken

LEMMA TakeOverMaps ==
  ASSUME Taken'
  PROVE  ClicksStep
BY DEF ClicksStep, ImplementsClicks!Next, ImplementsClicks!TakeOver, Taken

\* A button or the mouse moves: one more entry in the queue.
LEMMA EnqueueMaps ==
  ASSUME TypeOK, TypeOK', NEW e \in State, Enqueue(e), e.buttons = mice'.buttons,
         UNCHANGED <<opened, answer, last>>
  PROVE  ClicksStep
<1>1. states \in Seq(State) /\ states' = Append(states, e)
  BY TypeParts DEF QueueOK, Enqueue
<1>2. Queue' = Append(Queue, e.buttons) /\ Told' = Told /\ Seen' = Seen
  BY <1>1, Constants, ButtonsLast DEF Queue, Told, Seen
<1>3. /\ Seen \in Pressed /\ Told \in Lines /\ Queue \in Lines
      /\ ButtonsOnTheWay = Changes(Seen, Cat(Told, Queue))
  BY OnTheWayIs
<1>4. mice'.buttons \in Pressed /\ ButtonsOnTheWay' = Changes(Seen', Cat(Told', Queue'))
  BY OnTheWayNext
<1>5. ButtonsOnTheWay' = Changes(Seen, Cat(Told, Append(Queue, mice'.buttons)))
  BY <1>2, <1>4
<1>6. ButtonsOnTheWay' =
        IF mice'.buttons = (IF ButtonsOnTheWay = <<>> THEN Seen ELSE ButtonsOnTheWay[Len(ButtonsOnTheWay)])
          THEN ButtonsOnTheWay ELSE Append(ButtonsOnTheWay, mice'.buttons)
  <2>1. PICK e1 \in Pressed, seen \in Pressed, told \in Lines, queue \in Lines :
          e1 = mice'.buttons /\ seen = Seen /\ told = Told /\ queue = Queue
    BY <1>3, <1>4
  <2>2. Changes(seen, Cat(told, Append(queue, e1))) =
          IF e1 = (IF Changes(seen, Cat(told, queue)) = <<>> THEN seen
                   ELSE Changes(seen, Cat(told, queue))[Len(Changes(seen, Cat(told, queue)))])
            THEN Changes(seen, Cat(told, queue)) ELSE Append(Changes(seen, Cat(told, queue)), e1)
    BY LineAdds
  <2> QED
    BY <1>3, <1>5, <2>1, <2>2, Zenon
<1>7. ImplementsClicks!Change
  BY <1>2, <1>4, <1>6 DEF ImplementsClicks!Change, ImplementsClicks!Newest, Seen, Pressed
<1> QED
  BY <1>7 DEF ClicksStep, ImplementsClicks!Next

\* The mouse is captured anew: what the program was not told is forgotten.
LEMMA ForgetMaps ==
  ASSUME TypeOK, TypeOK', states' = <<>>, mice'.buttons = {}, UNCHANGED <<opened, answer, last>>
  PROVE  ClicksStep
<1>1. Queue' = <<>> /\ Told' = Told /\ Seen' = Seen
  BY ButtonsNone DEF Queue, Told, Seen
<1>2. /\ Seen \in Pressed /\ Told \in Lines /\ Queue \in Lines
      /\ ButtonsOnTheWay = Changes(Seen, Cat(Told, Queue))
  BY OnTheWayIs
<1>3. ButtonsOnTheWay' = Changes(Seen', Cat(Told', Queue'))
  BY OnTheWayNext
<1>4. ButtonsOnTheWay' = Changes(Seen, Told)
  BY <1>1, <1>2, <1>3, LinesAre
<1>5. \E n \in 0..Len(ButtonsOnTheWay) : ButtonsOnTheWay' = SubSeq(ButtonsOnTheWay, 1, n)
  BY <1>2, <1>4, LineCleared
<1>6. ImplementsClicks!Forget
  BY <1>1, <1>5 DEF ImplementsClicks!Forget, Seen
<1> QED
  BY <1>6 DEF ClicksStep, ImplementsClicks!Next

LEMMA WindowMaps ==
  ASSUME TypeOK, TypeOK', Window
  PROVE  ClicksStep
<1>1. UNCHANGED <<opened, answer, last>>
  BY DEF Window, linkVars, agentVars
<1>2. mice \in State /\ mice' \in State
  BY TypeParts, TypePartsNext DEF WindowOK
<1>3. ASSUME UNCHANGED <<mice, states>>
      PROVE  ClicksStep
  BY <1>1, <1>3, StutterMaps DEF Seen, ButtonsOnTheWay, Taken
<1>4. ASSUME Enqueue(mice')
      PROVE  ClicksStep
  BY <1>1, <1>2, <1>4, EnqueueMaps
<1>5. ASSUME NEW b, ButtonEvent(b)
      PROVE  ClicksStep
  BY <1>3, <1>4, <1>5 DEF ButtonEvent
<1>6. CASE \E b \in Button : ButtonDown(b) \/ ButtonUp(b)
  BY <1>5, <1>6 DEF ButtonDown, ButtonUp
<1>7. CASE ToggleCapture
  <2>1. CASE captured'
    <3>1. mice' = [mice EXCEPT !.buttons = {}] /\ states' = <<>>
      BY <1>7, <2>1 DEF ToggleCapture
    <3>2. mice'.buttons = {}
      BY <1>2, <3>1 DEF State
    <3> QED
      BY <1>1, <3>1, <3>2, ForgetMaps
  <2>2. CASE ~captured'
    BY <1>3, <1>7, <2>2 DEF ToggleCapture
  <2> QED
    BY <2>1, <2>2
<1>8. CASE Move
  BY <1>4, <1>8 DEF Move
<1>9. CASE Wheel
  <2>1. PICK d \in Delta : Enqueue([mice EXCEPT !.wheel = d]) /\ mice' = mice
    BY <1>9 DEF Wheel
  <2>2. [mice EXCEPT !.wheel = d] \in State /\ [mice EXCEPT !.wheel = d].buttons = mice'.buttons
    BY <1>2, <2>1 DEF State
  <2> QED
    BY <1>1, <2>1, <2>2, EnqueueMaps
<1> QED
  BY <1>6, <1>7, <1>8, <1>9 DEF Window
\* A read of the mouse with nothing in the queue.
LEMMA IdleMaps ==
  ASSUME TypeOK, TypeOK', InSync, ~ Taken, states = <<>>, served = First, ReadIdle,
         UNCHANGED <<opened, last, mice>>
  PROVE  ClicksStep
<1>1. LinkOK /\ QueueOK /\ UNCHANGED <<states, lastRead>>
  BY TypeParts DEF ReadIdle, queueVars
<1>2. PICK a \in Answer : Reply(a) /\ a.buttons = IF lastRead = None THEN {} ELSE lastRead.buttons
  BY <1>1, IdleIs DEF ReadIdle
<1>3. answer \in [Client -> Seq(Answer)] /\ served \in Client
  BY <1>1, Constants DEF LinkOK, LinkTypeOK
<1>4. answer[First] \in Seq(Answer) /\ answer'[First] = Append(answer[First], a)
  BY <1>2, <1>3, ReplyIs
<1>5. Told' = Append(Told, a.buttons)
  BY <1>4, Constants, ButtonsLast DEF Told
<1>6. a.buttons = Final(Seen, Told)
  BY <1>2 DEF InSync, Seen, Told
<1>7. Queue = <<>> /\ Queue' = <<>> /\ Seen' = Seen
  BY <1>1, ButtonsNone DEF Queue, Seen
<1>8. /\ Seen \in Pressed /\ Told \in Lines
      /\ ButtonsOnTheWay = Changes(Seen, Cat(Told, Queue))
  BY OnTheWayIs
<1>9. ButtonsOnTheWay' = Changes(Seen', Cat(Told', Queue'))
  BY OnTheWayNext
<1>a. ButtonsOnTheWay' = ButtonsOnTheWay
  <2>1. Changes(Seen, Cat(Append(Told, Final(Seen, Told)), <<>>)) = Changes(Seen, Cat(Told, <<>>))
    BY <1>8, LineRepeated
  <2> QED
    BY <1>5, <1>6, <1>7, <1>8, <1>9, <2>1
<1> QED
  BY <1>7, <1>a, StutterMaps DEF Taken

\* A read that takes states off the queue.
LEMMA QueueMaps ==
  ASSUME TypeOK, TypeOK', ~ Taken, states # <<>>, served = First, ReadQueue,
         UNCHANGED <<opened, last, mice>>
  PROVE  ClicksStep
<1>1. LinkOK /\ states \in Seq(State) /\ Len(states) \in Nat
  BY TypeParts DEF QueueOK
<1>2. PICK n \in 1..Len(states) :
        n = Merged /\ \A i \in 1..n : states[i].buttons = states[1].buttons
  BY <1>1, MergedIs
<1>3. PICK r \in State : r = states[n]
  BY <1>1, <1>2
<1>4. /\ Reply([r EXCEPT !.wheel = Sign(@)])
      /\ states' = SubSeq(states, n + 1, Len(states))
  BY <1>2, <1>3 DEF ReadQueue
<1>5. PICK a \in Answer : Reply(a) /\ a.buttons = r.buttons
  BY <1>4, SignIs
<1>6. answer \in [Client -> Seq(Answer)] /\ served \in Client
  BY <1>1, Constants DEF LinkOK, LinkTypeOK
<1>7. answer[First] \in Seq(Answer) /\ answer'[First] = Append(answer[First], a)
  BY <1>5, <1>6, ReplyIs
<1>8. Told' = Append(Told, a.buttons) /\ Seen' = Seen
  BY <1>7, Constants, ButtonsLast DEF Told, Seen
<1>9. PICK front \in Seq(State) : /\ front = SubSeq(states, 1, n) /\ Len(front) = n
                                   /\ Queue = Cat(Buttons(front), Queue')
  <2>1. n \in 0..Len(states)
    BY <1>1
  <2>2. /\ SubSeq(states, 1, n) \in Seq(State) /\ Len(SubSeq(states, 1, n)) = n
        /\ Buttons(states) = Cat(Buttons(SubSeq(states, 1, n)), Buttons(SubSeq(states, n + 1, Len(states))))
    BY <1>1, <2>1, Constants, ButtonsCut
  <2> QED
    BY <1>4, <2>2 DEF Queue
<1>a. PICK run \in Lines : /\ run = Buttons(front) /\ Len(run) = n
                           /\ \A i \in 1..n : run[i] = front[i].buttons
  BY <1>9, Constants, ButtonsAre
<1>b. run # <<>> /\ \A i \in 1..Len(run) : run[i] = a.buttons
  <2>1. \A i \in 1..n : front[i] = states[i]
    BY <1>1, <1>2, <1>9, SubSeqProperties
  <2>2. \A i \in 1..n : states[i].buttons = r.buttons
    BY <1>2, <1>3
  <2>3. run # <<>>
    BY <1>2, <1>a, EmptySeq
  <2> QED
    BY <1>5, <1>a, <2>1, <2>2, <2>3
<1>c. /\ Seen \in Pressed /\ Told \in Lines /\ a.buttons \in Pressed
      /\ ButtonsOnTheWay = Changes(Seen, Cat(Told, Queue))
  BY OnTheWayIs, Constants
<1>d. Queue' \in Lines /\ ButtonsOnTheWay' = Changes(Seen', Cat(Told', Queue'))
  BY OnTheWayNext
<1>e. ButtonsOnTheWay' = ButtonsOnTheWay
  <2>1. PICK rest \in Lines : rest = Queue'
    BY <1>d
  <2>2. Changes(Seen, Cat(Told, Cat(run, rest))) = Changes(Seen, Cat(Append(Told, a.buttons), rest))
    BY <1>b, <1>c, LineRead
  <2> QED
    BY <1>8, <1>9, <1>a, <1>c, <1>d, <2>1, <2>2
<1> QED
  BY <1>8, <1>e, StutterMaps DEF Taken

LEMMA ServerMaps ==
  ASSUME MouseInv, TypeOK', Server
  PROVE  ClicksStep
<1>1. UNCHANGED <<last, mice>>
  BY DEF Server, windowVars, agentVars
<1>2. ASSUME UNCHANGED <<opened, answer, states>>
      PROVE  ClicksStep
  BY <1>1, <1>2, StutterMaps DEF Seen, ButtonsOnTheWay, Taken
<1>3. CASE AcceptClient \/ PreemptClient \/ ReadInit
  <2>1. UNCHANGED <<opened, answer, states>>
    BY <1>3 DEF AcceptClient, Accept, PreemptClient, Preempt, Hangup, ReadInit, queueVars
  <2> QED
    BY <1>2, <2>1
<1>4. CASE ReadRead /\ ~ initialized
  <2>1. UNCHANGED <<opened, answer, states>>
    BY <1>4 DEF ReadRead, Hangup, queueVars
  <2> QED
    BY <1>2, <2>1
<1>5. CASE ReadRead /\ initialized
  <2>1. opened' = opened /\ (IF states = <<>> THEN ReadIdle ELSE ReadQueue) /\ served # None
    BY <1>5 DEF ReadRead, Incoming
  <2>2. CASE Taken
    BY <2>1, <2>2, TakeOverMaps DEF Taken
  <2>3. CASE ~ Taken
    <3>1. TypeOK /\ LinkOK /\ Connected /\ InSync
      BY TypeParts DEF MouseInv
    <3>2. served = First
      BY <2>1, <2>3, <3>1, TakenIs DEF LinkOK, LinkTypeOK, Connected
    <3> QED
      BY <1>1, <2>1, <2>3, <3>1, <3>2, IdleMaps, QueueMaps
  <2> QED
    BY <2>2, <2>3
<1> QED
  BY <1>3, <1>4, <1>5 DEF Server

\* The program is told of a change, or again what it knows.
LEMMA ReceiveMaps ==
  ASSUME MouseInv, TypeOK', Agent, Receive
  PROVE  ClicksStep
<1>1. LinkOK /\ AgentOK /\ EnabledIsOpened /\ TypeOK
  BY TypeParts DEF MouseInv
<1>2. /\ reader # None /\ answer[reader] # <<>> /\ Deliver(Head(answer[reader]))
      /\ answer' = [answer EXCEPT ![reader] = Tail(@)]
      /\ UNCHANGED <<opened, states, mice>>
  BY DEF Agent, Receive, windowVars, queueVars
<1>3. reader \in Client /\ opened[reader] /\ answer \in [Client -> Seq(Answer)]
  BY <1>1, <1>2 DEF AgentOK, EnabledIsOpened, LinkOK, LinkTypeOK
<1>4. CASE Taken
  BY <1>2, <1>4, TakeOverMaps DEF Taken
<1>5. CASE ~ Taken
  <2>1. reader = First
    BY <1>1, <1>3, <1>5, TakenIs
  <2>2. PICK l \in Seq(Answer) : l = answer[First]
    BY <1>3, <2>1
  <2>3. PICK e \in Answer : e = Head(l)
    BY <1>2, <2>1, <2>2, ButtonsFirst, Constants
  <2>4. Tail(l) \in Seq(Answer) /\ Buttons(l) = Cat(One(e.buttons), Buttons(Tail(l)))
    BY <1>2, <2>1, <2>2, <2>3, ButtonsFirst, Constants
  <2>5. last'[First].buttons = e.buttons
    BY <1>1, <1>2, <2>1, <2>2, <2>3, DeliverIs
  <2>6. answer'[First] = Tail(l)
    BY <1>2, <1>3, <2>1, <2>2, <2>4
  <2>7. PICK b \in Pressed, told \in Lines, queue \in Lines, seen \in Pressed :
          b = e.buttons /\ told = Buttons(Tail(l)) /\ queue = Queue /\ seen = Seen
    BY <1>1, <2>4, Constants, ButtonsAre, OnTheWayIs
  <2>8. Seen' = b /\ Told' = told /\ Queue' = queue /\ Told = Cat(One(b), told)
    BY <1>2, <2>2, <2>4, <2>5, <2>6, <2>7 DEF Seen, Told, Queue
  <2>9. ButtonsOnTheWay = Changes(seen, Cat(Cat(One(b), told), queue))
    BY <1>1, <2>7, <2>8, OnTheWayIs
  <2>a. PICK after \in Lines : after = Changes(b, Cat(told, queue))
    BY LinesAre, Joining
  <2>b. ButtonsOnTheWay' = after
    BY <2>8, <2>a, OnTheWayNext
  <2>c. ButtonsOnTheWay = IF b = seen THEN after ELSE Cat(One(b), after)
    BY <2>9, <2>a, LineTaken
  <2>d. CASE b = seen
    BY <1>2, <2>7, <2>8, <2>b, <2>c, <2>d, StutterMaps DEF Taken
  <2>e. CASE b # seen
    <3>1. /\ Cat(One(b), after) # <<>> /\ Head(Cat(One(b), after)) = b
          /\ Tail(Cat(One(b), after)) = after
      BY DEF Cat, One, Lines
    <3>2. ImplementsClicks!Deliver
      BY <1>2, <2>8, <2>b, <2>c, <2>e, <3>1 DEF ImplementsClicks!Deliver, Seen
    <3> QED
      BY <3>2 DEF ClicksStep, ImplementsClicks!Next
  <2> QED
    BY <2>d, <2>e
<1> QED
  BY <1>4, <1>5

LEMMA AgentMaps ==
  ASSUME MouseInv, TypeOK', Agent
  PROVE  ClicksStep
<1>1. UNCHANGED <<states, mice>>
  BY DEF Agent, windowVars, queueVars
<1>2. ASSUME UNCHANGED <<opened, answer, last>>
      PROVE  ClicksStep
  BY <1>1, <1>2, StutterMaps DEF Seen, ButtonsOnTheWay, Taken
<1>3. ASSUME NEW c \in Client, Enable(c)
      PROVE  ClicksStep
  <2>1. UNCHANGED <<answer, last>> /\ Open(c)
    BY <1>3 DEF Enable
  <2>2. CASE Taken'
    BY <2>2, TakeOverMaps
  <2>3. CASE ~ Taken'
    <3>1. opened \in [Client -> BOOLEAN]
      BY TypeParts DEF MouseInv, LinkOK, LinkTypeOK
    <3>2. \A d \in Client : opened[d] => opened'[d]
      BY <2>1, <3>1 DEF Open
    <3>3. ~ Taken
      BY <2>3, <3>2 DEF Taken
    <3>4. Taken' = Taken
      BY <2>3, <3>3 DEF Taken
    <3> QED
      BY <1>1, <2>1, <3>4, StutterMaps DEF Seen, ButtonsOnTheWay
  <2> QED
    BY <2>2, <2>3
<1>4. ASSUME NEW c \in Client, BeginRead(c)
      PROVE  ClicksStep
  BY <1>2, <1>4 DEF BeginRead
<1>5. CASE ReceiveFails
  <2>1. reader \in cut /\ opened' = opened
    BY <1>5 DEF ReceiveFails, linkVars
  <2>2. Taken
    BY <2>1 DEF MouseInv, InSync
  <2> QED
    BY <2>1, <2>2, TakeOverMaps DEF Taken
<1>6. CASE Killed
  BY <1>2, <1>6 DEF Killed, SigPipe, agentVars
<1>7. ASSUME NEW c \in Client, EnableFails(c)
      PROVE  ClicksStep
  BY <1>2, <1>7 DEF EnableFails, OpenFails, linkVars
<1> QED
  BY <1>3, <1>4, <1>5, <1>6, <1>7, ReceiveMaps DEF Agent, Reading

LEMMA StepMaps ==
  ASSUME MouseInv, TypeOK', [Next]_vars
  PROVE  ClicksStep
<1>1. ASSUME UNCHANGED <<opened, answer, last, states, mice>>
      PROVE  ClicksStep
  BY <1>1, StutterMaps DEF Seen, ButtonsOnTheWay, Taken
<1>2. CASE Identify
  BY <1>1, <1>2 DEF Identify, linkVars, agentVars, queueVars, windowVars
<1>3. CASE UNCHANGED vars
  BY <1>1, <1>3 DEF vars, linkVars, agentVars, queueVars, windowVars
<1>4. CASE Window
  BY <1>4, WindowMaps DEF MouseInv
<1> QED
  BY <1>2, <1>3, <1>4, ServerMaps, AgentMaps DEF Next

LEMMA InitMaps == Init => ImplementsClicks!Init
<1> SUFFICES ASSUME Init
             PROVE  ImplementsClicks!Init
  OBVIOUS
<1>1. /\ mice.buttons = {} /\ last[First].buttons = {} /\ answer[First] = <<>> /\ states = <<>>
      /\ \A c \in Client : ~ opened[c]
  BY Constants DEF Init, LinkInit
<1>2. ButtonsOnTheWay = Changes({}, <<>> \o <<>>)
  BY <1>1, ButtonsNone DEF ButtonsOnTheWay
<1>3. <<>> \o <<>> = <<>>
  OBVIOUS
<1>4. ButtonsOnTheWay = <<>>
  BY <1>2, <1>3, ChangesNone
<1> QED
  BY <1>1, <1>4 DEF ImplementsClicks!Init

\* Every change of the buttons that the window queues reaches a program that has the
\* mouse for itself, once and in order, unless capturing the mouse anew clears the
\* queue: neither the merging of states, the answers told twice nor the differences
\* the agent takes lose, double or reorder one.
THEOREM ClicksReachProgram == Spec => ClicksSpec
<1>1. MouseInv => TypeOK
  BY DEF MouseInv
<1>2. MouseInv /\ TypeOK' /\ [Next]_vars => [ImplementsClicks!Next]_ImplementsClicks!vars
  BY StepMaps DEF ClicksStep
<1> QED
  BY InitMaps, MouseInvHolds, <1>1, <1>2, PTL DEF Spec, ClicksSpec, ImplementsClicks!Spec
=============================================================================
