-------------------------- MODULE ExposerLinkProofs --------------------------
(***************************************************************************)
(* What the proofs about the exposer's servers share: induction over the   *)
(* natural numbers, from the finiteness of intervals, with it what         *)
(* FlattenSeq makes of buffers and messages, and what the steps of         *)
(* ExposerLink leave of the connections.                                   *)
(***************************************************************************)
EXTENDS Integers, SequencesExt, ExposerLinkInv, FiniteSetTheorems, SequenceTheorems, TLAPS

\* A set with 0 and the successors of its members has every natural number: else
\* the successor would map its members up to a missing n into the same without 0.
THEOREM Induction ==
  ASSUME NEW U, 0 \in U, \A n \in Nat : n \in U => n + 1 \in U
  PROVE  Nat \subseteq U
<1> SUFFICES ASSUME NEW n \in Nat, n \notin U
             PROVE  FALSE
  OBVIOUS
<1> DEFINE V == {x \in 0..n : x \in U}
           W == {x \in V : x # 0}
           up == [x \in V |-> x + 1]
<1>1. IsFiniteSet(V) /\ IsFiniteSet(W)
  <2>1. IsFiniteSet(0..n)
    BY FS_Interval
  <2>2. V \subseteq 0..n /\ W \subseteq 0..n
    OBVIOUS
  <2> QED
    BY <2>1, <2>2, FS_Subset
<1>2. Cardinality(W) < Cardinality(V)
  <2>1. W \subseteq V /\ W # V /\ 0 \in V
    OBVIOUS
  <2>2. Cardinality(W) \in Nat /\ Cardinality(V) \in Nat
    BY <1>1, FS_CardinalityType
  <2>3. Cardinality(W) <= Cardinality(V) /\ Cardinality(W) # Cardinality(V)
    BY <1>1, <2>1, FS_Subset
  <2> QED
    BY <2>2, <2>3
<1>3. Cardinality(V) <= Cardinality(W)
  <2>1. up \in Injection(V, W)
    BY DEF Injection, IsInjective
  <2> QED
    BY <1>1, <2>1, FS_Injection
<1> QED
  BY <1>1, <1>2, <1>3, FS_CardinalityType
-----------------------------------------------------------------------------
(* FlattenSeq.                                                             *)

\* f[i] is the concatenation of the first i of n sequences.
Flattens(f, s, n) ==
  f = [i \in 1..n |-> IF i = 1 THEN s[i] ELSE f[i - 1] \o s[i]]

LEMMA FlattensAt ==
  ASSUME NEW s, NEW n \in Nat, NEW f, Flattens(f, s, n), NEW i \in 1..n
  PROVE  f[i] = IF i = 1 THEN s[i] ELSE f[i - 1] \o s[i]
BY Zenon DEF Flattens

LEMMA FlattensIf ==
  ASSUME NEW s, NEW n \in Nat, NEW f, f = [i \in 1..n |-> f[i]],
         \A i \in 1..n : f[i] = IF i = 1 THEN s[i] ELSE f[i - 1] \o s[i]
  PROVE  Flattens(f, s, n)
<1>1. [i \in 1..n |-> f[i]] = [i \in 1..n |-> IF i = 1 THEN s[i] ELSE f[i - 1] \o s[i]]
  BY Zenon
<1> QED
  BY <1>1, Zenon DEF Flattens

\* There is one such f.
LEMMA FlattensOne ==
  ASSUME NEW s, NEW n \in Nat, NEW f, NEW g, Flattens(f, s, n), Flattens(g, s, n)
  PROVE  f = g
<1> DEFINE U == {i \in Nat : i \in 1..n => f[i] = g[i]}
<1>1. 0 \in U
  OBVIOUS
<1>2. \A i \in Nat : i \in U => i + 1 \in U
  <2> SUFFICES ASSUME NEW i \in Nat, i \in U, i + 1 \in 1..n
               PROVE  f[i + 1] = g[i + 1]
    OBVIOUS
  <2>0. PICK j \in 1..n : j = i + 1
    OBVIOUS
  <2>1. f[j] = IF j = 1 THEN s[j] ELSE f[j - 1] \o s[j]
    BY FlattensAt
  <2>a. g[j] = IF j = 1 THEN s[j] ELSE g[j - 1] \o s[j]
    BY FlattensAt
  <2>2. j # 1 => j - 1 = i /\ i \in 1..n
    BY <2>0
  <2> QED
    BY <2>0, <2>1, <2>2, <2>a
<1>3. Nat \subseteq U
  <2> HIDE DEF U
  <2> QED
    BY <1>1, <1>2, Induction
<1>4. \A i \in 1..n : f[i] = g[i]
  BY <1>3
<1>5. f = [i \in 1..n |-> f[i]] /\ g = [i \in 1..n |-> g[i]]
  BY Zenon DEF Flattens
<1> QED
  BY <1>4, <1>5

\* There is such an f.
LEMMA FlattensExists ==
  ASSUME NEW s, NEW n \in Nat
  PROVE  \E f : Flattens(f, s, n)
<1> DEFINE U == {k \in Nat : \E f : Flattens(f, s, k)}
<1>1. 0 \in U
  <2>1. \E f : f = [i \in 1..0 |-> 0]
    OBVIOUS
  <2>2. PICK f : f = [i \in 1..0 |-> 0]
    BY <2>1
  <2>3. f = [i \in 1..0 |-> f[i]] /\ \A i \in 1..0 : FALSE
    BY <2>2
  <2>4. Flattens(f, s, 0)
    BY <2>3, FlattensIf
  <2> QED
    BY <2>4
<1>2. \A k \in Nat : k \in U => k + 1 \in U
  <2> SUFFICES ASSUME NEW k \in Nat, NEW f, Flattens(f, s, k)
               PROVE  \E g : Flattens(g, s, k + 1)
    OBVIOUS
  <2>0. PICK m \in Nat : m = k + 1
    OBVIOUS
  <2>1. PICK g : g = [i \in 1..m |-> IF i = 1 THEN s[i] ELSE f[i - 1] \o s[i]]
    OBVIOUS
  <2>2. \A i \in 1..m : g[i] = IF i = 1 THEN s[i] ELSE f[i - 1] \o s[i]
    BY <2>1
  <2>3. \A i \in 1..k : i \in 1..m /\ f[i] = IF i = 1 THEN s[i] ELSE f[i - 1] \o s[i]
    BY <2>0, FlattensAt
  <2>4. \A i \in 1..k : g[i] = f[i]
    BY <2>2, <2>3
  <2>5. \A i \in 1..m : i # 1 => i - 1 \in 1..k
    BY <2>0
  <2>6. \A i \in 1..m : g[i] = IF i = 1 THEN s[i] ELSE g[i - 1] \o s[i]
    BY <2>2, <2>4, <2>5
  <2>7. g = [i \in 1..m |-> g[i]]
    BY <2>1
  <2>8. Flattens(g, s, m)
    BY <2>6, <2>7, FlattensIf
  <2> QED
    BY <2>0, <2>8
<1>3. Nat \subseteq U
  <2> HIDE DEF U
  <2> QED
    BY <1>1, <1>2, Induction
<1> QED
  BY <1>3

\* FlattenSeq is its last value.
LEMMA FlattenIs ==
  ASSUME NEW s, NEW f, Len(s) \in Nat \ {0}, Flattens(f, s, Len(s))
  PROVE  FlattenSeq(s) = f[Len(s)]
<1> DEFINE g == CHOOSE h : h = [i \in 1..Len(s) |-> IF i = 1 THEN s[i] ELSE h[i - 1] \o s[i]]
<1>1. FlattenSeq(s) = g[Len(s)]
  BY DEF FlattenSeq
<1>2. Flattens(g, s, Len(s))
  BY Zenon DEF Flattens
<1>3. g = f
  <2> HIDE DEF g
  <2> QED
    BY <1>2, FlattensOne
<1> QED
  BY <1>1, <1>3

LEMMA SplitLast ==
  ASSUME NEW S, NEW s \in Seq(S), NEW n \in Nat, Len(s) = n + 1
  PROVE  \E t \in Seq(S), e \in S : s = Append(t, e) /\ Len(t) = n
<1> DEFINE t == [i \in 1..n |-> s[i]]
<1>1. t \in Seq(S) /\ Len(t) = n /\ s[n + 1] \in S
  OBVIOUS
<1>2. s = Append(t, s[n + 1])
  OBVIOUS
<1> QED
  BY <1>1, <1>2

\* No sequences give no elements.
THEOREM FlattenEmpty == FlattenSeq(<<>>) = <<>>
BY DEF FlattenSeq

\* A buffer or message at the end adds its elements at the end.
THEOREM FlattenAppend ==
  ASSUME NEW S, NEW s \in Seq(Seq(S)), NEW b \in Seq(S), FlattenSeq(s) \in Seq(S)
  PROVE  FlattenSeq(Append(s, b)) = FlattenSeq(s) \o b
<1>0. PICK t : t = Append(s, b)
  OBVIOUS
<1>1. PICK n \in Nat : n = Len(s)
  BY LenProperties
<1>2. Len(t) = n + 1 /\ t[n + 1] = b /\ \A i \in 1..n : t[i] = s[i]
  BY <1>0, <1>1, AppendProperties
<1>b. PICK m \in Nat : m = n + 1
  OBVIOUS
<1>c. PICK f : Flattens(f, t, m)
  BY FlattensExists
<1>3. m = n + 1 /\ Flattens(f, t, m)
  BY <1>b, <1>c
<1>4. FlattenSeq(t) = f[n + 1]
  BY <1>2, <1>3, FlattenIs
<1>a. \A i \in 1..m : f[i] = IF i = 1 THEN t[i] ELSE f[i - 1] \o t[i]
  BY <1>3, FlattensAt
<1>5. f[n + 1] = IF n = 0 THEN t[n + 1] ELSE f[n] \o t[n + 1]
  <2>1. m \in 1..m /\ m - 1 = n
    BY <1>3
  <2> QED
    BY <1>3, <1>a, <2>1
<1>6. CASE n = 0
  <2>1. s = <<>> /\ FlattenSeq(t) = b
    BY <1>1, <1>2, <1>4, <1>5, <1>6, EmptySeq
  <2> QED
    BY <1>0, <2>1, FlattenEmpty, ConcatEmptySeq
<1>7. CASE n # 0
  <2>0. PICK g : g = [i \in 1..n |-> f[i]]
    OBVIOUS
  <2>1. \A i \in 1..n : f[i] = IF i = 1 THEN s[i] ELSE f[i - 1] \o s[i]
    <3>1. \A i \in 1..n : i \in 1..m /\ t[i] = s[i]
      BY <1>2, <1>3
    <3> QED
      BY <1>a, <3>1
  <2>2. \A i \in 1..n : i # 1 => i - 1 \in 1..n
    OBVIOUS
  <2>3. \A i \in 1..n : g[i] = IF i = 1 THEN s[i] ELSE g[i - 1] \o s[i]
    BY <2>0, <2>1, <2>2
  <2>a. g = [i \in 1..n |-> g[i]]
    BY <2>0
  <2>b. Flattens(g, s, n)
    BY <2>3, <2>a, FlattensIf
  <2>4. FlattenSeq(s) = g[n]
    BY <1>1, <1>7, <2>b, FlattenIs
  <2>5. f[n + 1] = f[n] \o b /\ g[n] = f[n]
    BY <1>2, <1>5, <1>7, <2>0
  <2> QED
    BY <1>0, <1>4, <2>4, <2>5
<1> QED
  BY <1>6, <1>7

\* Flattening gives a sequence.
THEOREM FlattenType ==
  ASSUME NEW S, NEW s \in Seq(Seq(S))
  PROVE  FlattenSeq(s) \in Seq(S)
<1> DEFINE U == {n \in Nat : \A t \in Seq(Seq(S)) : Len(t) = n => FlattenSeq(t) \in Seq(S)}
<1>1. 0 \in U
  <2>1. \A t \in Seq(Seq(S)) : Len(t) = 0 => t = <<>>
    BY EmptySeq
  <2> QED
    BY <2>1, FlattenEmpty, EmptySeq
<1>2. \A n \in Nat : n \in U => n + 1 \in U
  <2> SUFFICES ASSUME NEW n \in Nat, n \in U, NEW t \in Seq(Seq(S)), Len(t) = n + 1
               PROVE  FlattenSeq(t) \in Seq(S)
    OBVIOUS
  <2>1. PICK u \in Seq(Seq(S)), b \in Seq(S) : t = Append(u, b) /\ Len(u) = n
    BY SplitLast
  <2>2. FlattenSeq(u) \in Seq(S)
    BY <2>1
  <2>3. FlattenSeq(t) = FlattenSeq(u) \o b
    BY <2>1, <2>2, FlattenAppend
  <2> QED
    BY <2>2, <2>3, ConcatProperties
<1>3. Nat \subseteq U
  <2> HIDE DEF U
  <2> QED
    BY <1>1, <1>2, Induction
<1> QED
  BY <1>3, LenProperties

LEMMA ConcatAppend ==
  ASSUME NEW S, NEW s \in Seq(S), NEW v \in Seq(S), NEW b \in S
  PROVE  s \o Append(v, b) = Append(s \o v, b) /\ s \o v \in Seq(S)
OBVIOUS

\* Flattening two lines one after the other is flattening each.
THEOREM FlattenConcat ==
  ASSUME NEW S
  PROVE  \A s, t \in Seq(Seq(S)) : FlattenSeq(s \o t) = FlattenSeq(s) \o FlattenSeq(t)
<1>0. \A x, y, z \in Seq(S) : (x \o y) \o z = x \o (y \o z)
  OBVIOUS
<1> SUFFICES ASSUME NEW s \in Seq(Seq(S)), NEW t \in Seq(Seq(S))
             PROVE  FlattenSeq(s \o t) = FlattenSeq(s) \o FlattenSeq(t)
  OBVIOUS
<1> DEFINE Adds(u) == FlattenSeq(s \o u) = FlattenSeq(s) \o FlattenSeq(u)
           U == {n \in Nat : \A u \in Seq(Seq(S)) : Len(u) = n => Adds(u)}
<1>1. 0 \in U
  <2>1. \A u \in Seq(Seq(S)) : Len(u) = 0 => u = <<>>
    BY EmptySeq
  <2>2. s \o <<>> = s /\ FlattenSeq(s) \o <<>> = FlattenSeq(s)
    BY FlattenType, ConcatEmptySeq
  <2> QED
    BY <2>1, <2>2, FlattenEmpty
<1>2. \A n \in Nat : n \in U => n + 1 \in U
  <2> SUFFICES ASSUME NEW n \in Nat, n \in U
               PROVE  n + 1 \in U
    OBVIOUS
  <2>0. n + 1 \in Nat
    OBVIOUS
  <2> SUFFICES ASSUME NEW u \in Seq(Seq(S)), Len(u) = n + 1
               PROVE  Adds(u)
    BY <2>0, Zenon
  <2>1. PICK v \in Seq(Seq(S)), b \in Seq(S) : u = Append(v, b) /\ Len(v) = n
    BY SplitLast
  <2>2. FlattenSeq(s \o v) = FlattenSeq(s) \o FlattenSeq(v)
    BY <2>1
  <2>3. s \o u = Append(s \o v, b) /\ s \o v \in Seq(Seq(S))
    BY <2>1, ConcatAppend
  <2>4. FlattenSeq(s \o u) = FlattenSeq(s \o v) \o b
    BY <2>3, FlattenType, FlattenAppend
  <2>5. FlattenSeq(u) = FlattenSeq(v) \o b
    BY <2>1, FlattenType, FlattenAppend
  <2>6. FlattenSeq(s) \in Seq(S) /\ FlattenSeq(v) \in Seq(S)
    BY FlattenType
  <2>7. (FlattenSeq(s) \o FlattenSeq(v)) \o b = FlattenSeq(s) \o (FlattenSeq(v) \o b)
    BY <1>0, <2>6, Zenon
  <2> QED
    BY <2>2, <2>4, <2>5, <2>7, Zenon
<1>3. Nat \subseteq U
  <2> HIDE DEF U
  <2> QED
    BY <1>1, <1>2, Induction
<1>4. Len(t) \in Nat
  BY LenProperties
<1> QED
  BY <1>3, <1>4, Zenon

\* A single sequence is its own flattening.
THEOREM FlattenOne ==
  ASSUME NEW S, NEW b \in Seq(S)
  PROVE  FlattenSeq(<<b>>) = b
<1>1. <<b>> = Append(<<>>, b) /\ <<>> \in Seq(Seq(S)) /\ <<>> \in Seq(S)
  OBVIOUS
<1>2. FlattenSeq(<<b>>) = <<>> \o b
  BY <1>1, FlattenEmpty, FlattenAppend
<1> QED
  BY <1>2, ConcatEmptySeq

\* The elements of the first buffer or message come first.
THEOREM FlattenFirst ==
  ASSUME NEW S, NEW s \in Seq(Seq(S)), s # <<>>
  PROVE  FlattenSeq(s) = Head(s) \o FlattenSeq(Tail(s))
<1>1. Head(s) \in Seq(S) /\ Tail(s) \in Seq(Seq(S)) /\ <<Head(s)>> \in Seq(Seq(S))
  BY HeadTailProperties
<1>2. s = <<Head(s)>> \o Tail(s)
  OBVIOUS
<1>3. FlattenSeq(<<Head(s)>> \o Tail(s)) = FlattenSeq(<<Head(s)>>) \o FlattenSeq(Tail(s))
  BY <1>1, FlattenConcat, Zenon
<1>4. FlattenSeq(<<Head(s)>>) = Head(s)
  BY <1>1, FlattenOne, Zenon
<1> QED
  BY <1>2, <1>3, <1>4, Zenon
-----------------------------------------------------------------------------
(* The connections.                                                        *)

\* A sequence is its first element and its tail.
LEMMA FirstAndRest ==
  ASSUME NEW S, NEW s \in Seq(S), s # <<>>
  PROVE  /\ Len(s) \in Nat \ {0} /\ DOMAIN s = 1..Len(s)
         /\ 1 \in DOMAIN s /\ Head(s) = s[1] /\ s[1] \in S
         /\ Tail(s) \in Seq(S) /\ Len(Tail(s)) = Len(s) - 1
         /\ DOMAIN Tail(s) = 1..Len(s) - 1
         /\ \A i \in DOMAIN Tail(s) : i + 1 \in DOMAIN s /\ i + 1 # 1 /\ Tail(s)[i] = s[i + 1]
OBVIOUS

\* A sequence with one more element.
LEMMA AndLast ==
  ASSUME NEW S, NEW s \in Seq(S), NEW e \in S
  PROVE  /\ Append(s, e) \in Seq(S) /\ Append(s, e) # <<>>
         /\ Len(s) \in Nat /\ Len(Append(s, e)) = Len(s) + 1
         /\ DOMAIN s = 1..Len(s) /\ DOMAIN Append(s, e) = 1..Len(s) + 1
         /\ \A i \in DOMAIN s : i \in DOMAIN Append(s, e) /\ Append(s, e)[i] = s[i]
         /\ \A i \in DOMAIN Append(s, e) : i \notin DOMAIN s =>
              i = Len(s) + 1 /\ Append(s, e)[i] = e
OBVIOUS

\* Messages and answers come and go on connections that were not cut.
LEMMA ConnectedKept ==
  ASSUME Connected, UNCHANGED <<opened, backlog, served, cut>>,
         \A c \in Client : sent'[c] # sent[c] => opened[c] /\ c \notin cut,
         \A c \in Client : answer'[c] # answer[c] => opened[c],
         cut \subseteq Client
  PROVE  Connected'
BY DEF Connected

\* A client that connects, which it has not done before, waits to be accepted.
LEMMA ConnectedOpen ==
  ASSUME NEW M, NEW A, LinkTypeOK(M, A), Connected, None \notin Client, NEW c \in Client, Open(c),
         UNCHANGED <<served, cut, answer>>,
         \A d \in Client : sent'[d] # sent[d] => d = c /\ d \notin cut
  PROVE  Connected' /\ opened' \in [Client -> BOOLEAN] /\ backlog' \in Seq(Client)
<1>1. backlog \in Seq(Client) /\ opened \in [Client -> BOOLEAN] /\ cut \subseteq Client
  BY DEF LinkTypeOK
<1>2. opened' \in [Client -> BOOLEAN] /\ \A d \in Client : opened'[d] = (opened[d] \/ d = c)
  BY <1>1 DEF Open
<1>3. CASE opened[c]
  <2>1. backlog' = backlog
    BY <1>3 DEF Open
  <2>2. opened' = opened
    BY <1>1, <1>3 DEF Open
  <2>3. Connected'
    BY <1>1, <1>3, <2>1, <2>2 DEF Connected
  <2> QED
    BY <1>1, <1>2, <2>1, <2>3
<1>4. CASE ~ opened[c]
  <2>1. backlog' = Append(backlog, c) /\ backlog' \in Seq(Client)
    BY <1>1, <1>4 DEF Open
  <2>2. \A i \in DOMAIN backlog' : \/ i \in DOMAIN backlog /\ backlog'[i] = backlog[i]
                                   \/ i = Len(backlog) + 1 /\ backlog'[i] = c
    BY <1>1, <2>1, AndLast
  <2>3. c # served /\ c \notin cut /\ \A i \in DOMAIN backlog : backlog[i] # c
    <3>1. c # served
      BY <1>4 DEF Connected
    <3>2. c \notin cut
      BY <1>4 DEF Connected
    <3>3. \A i \in DOMAIN backlog : backlog[i] # c
      BY <1>4 DEF Connected
    <3> QED
      BY <3>1, <3>2, <3>3
  <2>a. \A i \in DOMAIN backlog' : opened'[backlog'[i]] /\ backlog'[i] # served' /\ backlog'[i] \notin cut'
    <3>1. \A i \in DOMAIN backlog : backlog[i] \in Client
      BY <1>1
    <3> QED
      BY <1>2, <2>2, <2>3, <3>1 DEF Connected
  <2>b. \A i, j \in DOMAIN backlog' : backlog'[i] = backlog'[j] => i = j
    BY <2>2, <2>3 DEF Connected
  <2>c. \A d \in cut : sent'[d] = <<>> /\ opened'[d]
    BY <1>1, <1>2, <2>3 DEF Connected
  <2>d. served' # None => opened'[served'] /\ served' \notin cut'
    <3>1. served \in Client \cup {None}
      BY DEF LinkTypeOK
    <3> QED
      BY <1>2, <3>1 DEF Connected
  <2>4. Connected'
    BY <1>2, <2>a, <2>b, <2>c, <2>d DEF Connected
  <2> QED
    BY <1>2, <2>1, <2>4
<1> QED
  BY <1>3, <1>4

\* The client that waits longest is served.
LEMMA ConnectedAccept ==
  ASSUME NEW M, NEW A, LinkTypeOK(M, A), Connected, Accept
  PROVE  /\ LinkTypeOK(M, A)' /\ Connected'
         /\ served' \in Client /\ 1 \in DOMAIN backlog /\ served' = backlog[1]
         /\ \A i \in DOMAIN backlog' : i + 1 \in DOMAIN backlog /\ backlog'[i] = backlog[i + 1]
<1>1. backlog \in Seq(Client) /\ backlog # <<>>
  BY DEF LinkTypeOK, Accept
<1>2. /\ DOMAIN backlog = 1..Len(backlog) /\ Len(backlog) \in Nat
      /\ 1 \in DOMAIN backlog /\ Head(backlog) = backlog[1] /\ backlog[1] \in Client
      /\ Tail(backlog) \in Seq(Client) /\ DOMAIN Tail(backlog) = 1..Len(backlog) - 1
      /\ \A i \in DOMAIN Tail(backlog) :
           i + 1 \in DOMAIN backlog /\ i + 1 # 1 /\ Tail(backlog)[i] = backlog[i + 1]
  BY <1>1, FirstAndRest
<1>3. served' = backlog[1] /\ backlog' = Tail(backlog) /\ UNCHANGED <<alive, opened, cut, reset, sent, answer>>
  BY <1>2 DEF Accept
<1>4. LinkTypeOK(M, A)'
  BY <1>2, <1>3 DEF LinkTypeOK
<1>5. Connected'
  <2>1. \A i, j \in DOMAIN backlog' : backlog'[i] = backlog'[j] => i = j
    BY <1>2, <1>3 DEF Connected
  <2>2. \A i \in DOMAIN backlog' :
          opened'[backlog'[i]] /\ backlog'[i] # served' /\ backlog'[i] \notin cut'
    BY <1>2, <1>3 DEF Connected
  <2> QED
    BY <1>2, <1>3, <2>1, <2>2 DEF Connected
<1> QED
  BY <1>2, <1>3, <1>4, <1>5

\* The connection served is cut, and what was sent on it is lost.
LEMMA ConnectedHangup ==
  ASSUME NEW M, NEW A, LinkTypeOK(M, A), Connected, served # None, Hangup, None \notin Client
  PROVE  /\ LinkTypeOK(M, A)' /\ Connected'
         /\ sent'[served] = <<>> /\ \A c \in Client : c # served => sent'[c] = sent[c]
<1>1. served \in Client /\ <<>> \in Seq(M) /\ sent \in [Client -> Seq(M)] /\ cut \subseteq Client
  BY DEF LinkTypeOK
<1>2. /\ served' = None /\ cut' = cut \cup {served}
      /\ reset' = reset \cup {c \in {served} : sent[c] # <<>>}
      /\ sent' = [sent EXCEPT ![served] = <<>>]
      /\ UNCHANGED <<alive, opened, backlog, answer>>
  BY DEF Hangup
<1>3. sent'[served] = <<>> /\ \A c \in Client : c # served => sent'[c] = sent[c]
  BY <1>1, <1>2
<1>4. LinkTypeOK(M, A)'
  BY <1>1, <1>2 DEF LinkTypeOK
<1>5. Connected'
  <2>1. \A i \in DOMAIN backlog : backlog[i] \in Client
    BY DEF LinkTypeOK
  <2>2. \A i \in DOMAIN backlog' :
          opened'[backlog'[i]] /\ backlog'[i] # served' /\ backlog'[i] \notin cut'
    BY <1>1, <1>2, <2>1 DEF Connected
  <2>3. \A c \in cut' : opened'[c] /\ sent'[c] = <<>>
    BY <1>1, <1>2, <1>3 DEF Connected
  <2>4. \A c \in Client : ~opened'[c] => sent'[c] = <<>> /\ answer'[c] = <<>>
    BY <1>1, <1>2, <1>3 DEF Connected
  <2>5. \A i, j \in DOMAIN backlog' : backlog'[i] = backlog'[j] => i = j
    BY <1>2 DEF Connected
  <2> QED
    BY <1>2, <2>2, <2>3, <2>4, <2>5 DEF Connected
<1> QED
  BY <1>3, <1>4, <1>5

\* A message that is sent is the last one, or lost on a connection that was cut.
LEMMA ConnectedPost ==
  ASSUME NEW M, NEW A, LinkTypeOK(M, A), Connected, NEW c \in Client, NEW m \in M, opened[c],
         Post(c, <<m>>), UNCHANGED <<alive, opened, backlog, served, cut, answer>>
  PROVE  /\ LinkTypeOK(M, A)' /\ Connected'
         /\ c \in cut => sent' = sent
         /\ c \notin cut => sent'[c] = Append(sent[c], m)
         /\ \A d \in Client : d # c => sent'[d] = sent[d]
<1>1. sent \in [Client -> Seq(M)] /\ cut \subseteq Client /\ reset \subseteq cut
  BY DEF LinkTypeOK
<1>2. sent[c] \o <<m>> = Append(sent[c], m) /\ Append(sent[c], m) \in Seq(M)
  BY <1>1
<1>3. c \in cut => sent' = sent /\ reset' = reset \cup {c}
  BY DEF Post
<1>4. c \notin cut => sent' = [sent EXCEPT ![c] = Append(sent[c], m)] /\ reset' = reset
  BY <1>2 DEF Post
<1>5. /\ c \in cut => sent' = sent
      /\ c \notin cut => sent'[c] = Append(sent[c], m)
      /\ \A d \in Client : d # c => sent'[d] = sent[d]
  BY <1>1, <1>3, <1>4
<1>6. sent' \in [Client -> Seq(M)] /\ reset' \subseteq cut
  BY <1>1, <1>2, <1>3, <1>4
<1>7. LinkTypeOK(M, A)'
  BY <1>6 DEF LinkTypeOK
<1>8. Connected'
  BY <1>1, <1>5, ConnectedKept
<1> QED
  BY <1>5, <1>7, <1>8

\* The server takes the first message of the client it serves.
LEMMA ConnectedTake ==
  ASSUME NEW M, NEW A, LinkTypeOK(M, A), Connected, served # None, sent[served] # <<>>, Take,
         UNCHANGED <<alive, opened, backlog, served, cut, reset>>,
         answer' \in [Client -> Seq(A)],
         \A c \in Client : c # served => answer'[c] = answer[c]
  PROVE  /\ LinkTypeOK(M, A)' /\ Connected'
         /\ served \in Client /\ sent[served] \in Seq(M) /\ Head(sent[served]) \in M
         /\ sent'[served] = Tail(sent[served])
         /\ \A c \in Client : c # served => sent'[c] = sent[c]
<1>1. served \in Client /\ sent \in [Client -> Seq(M)] /\ cut \subseteq Client
  BY DEF LinkTypeOK
<1>2. sent[served] \in Seq(M)
  BY <1>1
<1>3. Head(sent[served]) \in M /\ Tail(sent[served]) \in Seq(M)
  BY <1>2, FirstAndRest
<1>4. sent' = [sent EXCEPT ![served] = Tail(sent[served])]
  BY DEF Take
<1>5. sent' \in [Client -> Seq(M)] /\ sent'[served] = Tail(sent[served])
  BY <1>1, <1>3, <1>4
<1>6. \A c \in Client : c # served => sent'[c] = sent[c]
  BY <1>1, <1>4
<1>7. LinkTypeOK(M, A)'
  BY <1>5 DEF LinkTypeOK
<1>8. opened[served] /\ served \notin cut
  BY DEF Connected
<1>9. Connected'
  BY <1>1, <1>6, <1>8, ConnectedKept
<1> QED
  BY <1>1, <1>2, <1>3, <1>5, <1>6, <1>7, <1>9
=============================================================================
