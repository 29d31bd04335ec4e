-------------------------- MODULE PcmStreamProofs ---------------------------
(***************************************************************************)
(* Proofs about PcmStream: what AlsaPlayer does to the frames it buffers,  *)
(* and that the delay programs are told is right, whatever programs do;    *)
(* that frames are heard in order if programs do not drain; and that a     *)
(* program that keeps the plainest protocol and has the device for itself  *)
(* loses no frame.                                                         *)
(***************************************************************************)
EXTENDS PcmStreamInv, ExposerLinkProofs
-----------------------------------------------------------------------------
(* Sequences of frames.                                                    *)

\* u is s and then t.
Joins(s, t, u) ==
  /\ DOMAIN s = 1..Len(s) /\ DOMAIN t = 1..Len(t) /\ Len(s) \in Nat /\ Len(t) \in Nat
  /\ DOMAIN u = 1..Len(s) + Len(t)
  /\ \A i \in DOMAIN s : i \in DOMAIN u /\ u[i] = s[i]
  /\ \A j \in DOMAIN t : Len(s) + j \in DOMAIN u /\ u[Len(s) + j] = t[j]
  /\ \A k \in DOMAIN u :
       \/ k \in DOMAIN s /\ u[k] = s[k]
       \/ \E j \in DOMAIN t : k = Len(s) + j /\ u[k] = t[j]

LEMMA Joined ==
  ASSUME NEW S, NEW s \in Seq(S), NEW t \in Seq(S)
  PROVE  Joins(s, t, s \o t)
<1>1. /\ DOMAIN s = 1..Len(s) /\ DOMAIN t = 1..Len(t) /\ Len(s) \in Nat /\ Len(t) \in Nat
      /\ DOMAIN (s \o t) = 1..Len(s) + Len(t)
      /\ \A i \in DOMAIN s : i \in DOMAIN (s \o t) /\ (s \o t)[i] = s[i]
      /\ \A j \in DOMAIN t : Len(s) + j \in DOMAIN (s \o t) /\ (s \o t)[Len(s) + j] = t[j]
  OBVIOUS
<1>2. \A k \in DOMAIN (s \o t) : k \in DOMAIN s \/ \E j \in DOMAIN t : k = Len(s) + j
  <2> SUFFICES ASSUME NEW k \in 1..Len(s) + Len(t), k \notin 1..Len(s)
               PROVE  \E j \in 1..Len(t) : k = Len(s) + j
    BY <1>1
  <2> WITNESS k - Len(s) \in 1..Len(t)
  <2> QED
    BY <1>1
<1> QED
  BY <1>1, <1>2 DEF Joins

LEMMA UptoJoined ==
  ASSUME NEW s \in Seq(Frames), NEW t \in Seq(Frames), NEW n
  PROVE  Upto(s \o t, n) <=> Upto(s, n) /\ Upto(t, n)
<1>1. PICK u : u = s \o t
  OBVIOUS
<1>2. Joins(s, t, u)
  BY <1>1, Joined
<1>3. Upto(u, n) => Upto(s, n) /\ Upto(t, n)
  BY <1>2 DEF Upto, Joins
<1>4. Upto(s, n) /\ Upto(t, n) => Upto(u, n)
  BY <1>2 DEF Upto, Joins
<1> QED
  BY <1>1, <1>3, <1>4

LEMMA BeforeJoined ==
  ASSUME NEW s \in Seq(Frames), NEW t \in Seq(Frames), NEW v
  PROVE  /\ Before(s \o t, v) <=> Before(s, v) /\ Before(t, v)
         /\ Before(v, s \o t) <=> Before(v, s) /\ Before(v, t)
<1>1. PICK u : u = s \o t
  OBVIOUS
<1>2. Joins(s, t, u)
  BY <1>1, Joined
<1>3. Before(u, v) => Before(s, v) /\ Before(t, v)
  BY <1>2 DEF Before, Joins
<1>4. Before(s, v) /\ Before(t, v) => Before(u, v)
  BY <1>2 DEF Before, Joins
<1>5. Before(v, u) => Before(v, s) /\ Before(v, t)
  BY <1>2 DEF Before, Joins
<1>6. Before(v, s) /\ Before(v, t) => Before(v, u)
  BY <1>2 DEF Before, Joins
<1> QED
  BY <1>1, <1>3, <1>4, <1>5, <1>6

LEMMA RisingJoined ==
  ASSUME NEW s \in Seq(Frames), NEW t \in Seq(Frames)
  PROVE  Rising(s \o t) <=> Rising(s) /\ Rising(t) /\ Before(s, t)
<1>1. PICK u : u = s \o t
  OBVIOUS
<1>2. Joins(s, t, u)
  BY <1>1, Joined
<1>3. Rising(u) => Rising(s)
  BY <1>2 DEF Rising, Joins
<1>4. ASSUME Rising(u)
      PROVE  Rising(t)
  <2> SUFFICES ASSUME NEW i \in DOMAIN t, NEW j \in DOMAIN t, i < j
               PROVE  t[i] < t[j]
    BY DEF Rising
  <2>1. Len(s) + i < Len(s) + j
    BY <1>2 DEF Joins
  <2> QED
    BY <1>2, <1>4, <2>1 DEF Rising, Joins
<1>5. ASSUME Rising(u)
      PROVE  Before(s, t)
  <2> SUFFICES ASSUME NEW i \in DOMAIN s, NEW j \in DOMAIN t
               PROVE  s[i] < t[j]
    BY DEF Before
  <2>1. i < Len(s) + j
    BY <1>2 DEF Joins
  <2> QED
    BY <1>2, <1>5, <2>1 DEF Rising, Joins
<1>6. ASSUME Rising(s), Rising(t), Before(s, t)
      PROVE  Rising(u)
  <2> SUFFICES ASSUME NEW k \in DOMAIN u, NEW l \in DOMAIN u, k < l
               PROVE  u[k] < u[l]
    BY DEF Rising
  <2>1. CASE k \in DOMAIN s /\ u[k] = s[k] /\ l \in DOMAIN s /\ u[l] = s[l]
    BY <1>6, <2>1 DEF Rising
  <2>2. ASSUME k \in DOMAIN s, u[k] = s[k], NEW j \in DOMAIN t, u[l] = t[j]
        PROVE  u[k] < u[l]
    BY <1>6, <2>2 DEF Before
  <2>3. ASSUME NEW i \in DOMAIN t, k = Len(s) + i, u[k] = t[i],
               NEW j \in DOMAIN t, l = Len(s) + j, u[l] = t[j]
        PROVE  u[k] < u[l]
    <3>1. i < j
      BY <1>2, <2>3 DEF Joins
    <3> QED
      BY <1>6, <2>3, <3>1 DEF Rising
  <2>4. ASSUME NEW i \in DOMAIN t, k = Len(s) + i, l \in DOMAIN s
        PROVE  FALSE
    BY <1>2, <2>4 DEF Joins
  <2> QED
    BY <1>2, <2>1, <2>2, <2>3, <2>4 DEF Joins
<1> QED
  BY <1>1, <1>3, <1>4, <1>5, <1>6

LEMMA FramesOf ==
  ASSUME NEW s \in Seq(Frames)
  PROVE  \A i \in DOMAIN s : s[i] \in Nat
<1>1. \A i \in DOMAIN s : s[i] \in Frames
  OBVIOUS
<1> QED
  BY <1>1 DEF Frames

LEMMA NoFrames ==
  /\ <<>> \in Seq(Frames)
  /\ Rising(<<>>) /\ \A n : Upto(<<>>, n)
  /\ \A s : Before(s, <<>>) /\ Before(<<>>, s)
<1>1. DOMAIN <<>> = {} /\ <<>> \in Seq(Frames)
  OBVIOUS
<1> QED
  BY <1>1 DEF Rising, Upto, Before

LEMMA UptoMore ==
  ASSUME NEW s \in Seq(Frames), NEW m \in Nat, NEW n \in Nat, m <= n, Upto(s, m)
  PROVE  Upto(s, n)
<1>1. \A i \in DOMAIN s : s[i] \in Nat
  BY FramesOf
<1> QED
  BY <1>1 DEF Upto

\* Every frame up to m precedes the frames above m.
LEMMA UptoBefore ==
  ASSUME NEW s \in Seq(Frames), NEW t \in Seq(Frames), NEW m \in Nat, Upto(s, m),
         \A j \in DOMAIN t : m < t[j]
  PROVE  Before(s, t)
<1>1. \A i \in DOMAIN s : s[i] \in Nat
  BY FramesOf
<1>2. \A j \in DOMAIN t : t[j] \in Nat
  BY FramesOf
<1> QED
  BY <1>1, <1>2 DEF Upto, Before
-----------------------------------------------------------------------------
(* AlsaPlayer.                                                             *)

LEMMA PlayerIs ==
  ASSUME NEW p \in Player
  PROVE  /\ p.buffers \in Seq(Seq(Frames)) /\ p.length \in Nat /\ p.position \in Nat
         /\ Buffered(p) \in Seq(Frames) /\ Len(Buffered(p)) \in Nat
<1>1. p.buffers \in Seq(Seq(Frames)) /\ p.length \in Nat /\ p.position \in Nat
  BY DEF Player
<1>2. Buffered(p) \in Seq(Frames)
  BY <1>1, FlattenType, Zenon DEF Buffered
<1> QED
  BY <1>1, <1>2, LenProperties

LEMMA NewPlayerIs ==
  /\ NewPlayer \in Player /\ Buffered(NewPlayer) = <<>> /\ GetDelay(NewPlayer) = 0
<1>1. NewPlayer \in Player
  BY DEF NewPlayer, Player
<1>2. NewPlayer.buffers = <<>> /\ GetDelay(NewPlayer) = 0
  BY DEF NewPlayer, GetDelay
<1> QED
  BY <1>1, <1>2, FlattenEmpty, Zenon DEF Buffered

LEMMA DropFramesIs ==
  ASSUME NEW p \in Player
  PROVE  /\ DropFrames(p) \in Player /\ Buffered(DropFrames(p)) = <<>>
         /\ GetDelay(DropFrames(p)) = 0
<1>1. DropFrames(p) \in Player
  <2>1. <<>> \in Seq(Seq(Frames))
    OBVIOUS
  <2> QED
    BY <2>1, Zenon DEF DropFrames, Player
<1>2. DropFrames(p).buffers = <<>> /\ GetDelay(DropFrames(p)) = 0
  BY DEF DropFrames, Player, GetDelay
<1> QED
  BY <1>1, <1>2, FlattenEmpty, Zenon DEF Buffered

\* Write puts the frames behind those that are buffered, and counts them.
LEMMA WriteIs ==
  ASSUME NEW p \in Player, NEW b \in Seq(Frames)
  PROVE  /\ Write(p, b) \in Player /\ Buffered(Write(p, b)) = Buffered(p) \o b
         /\ GetDelay(Write(p, b)) = GetDelay(p) + Len(b)
<1>1. PICK n \in Nat : n = Len(b)
  BY LenProperties
<1>2. PICK bs \in Seq(Seq(Frames)) : bs = Append(p.buffers, b)
  BY PlayerIs, AppendProperties
<1>3. Write(p, b) = [p EXCEPT !.buffers = bs, !.length = p.length + n]
  BY <1>1, <1>2 DEF Write
<1>4. Write(p, b) \in Player /\ Write(p, b).buffers = bs
      /\ GetDelay(Write(p, b)) = GetDelay(p) + n
  <2>1. PICK m \in Nat : m = p.length + n
    BY PlayerIs
  <2>2. Write(p, b) \in Player
    BY <1>3, <2>1, Zenon DEF Player
  <2>3. /\ Write(p, b).buffers = bs /\ Write(p, b).length = m
        /\ Write(p, b).position = p.position
    BY <1>3, <2>1 DEF Player
  <2> QED
    BY <2>1, <2>2, <2>3, PlayerIs DEF GetDelay
<1>5. Buffered(Write(p, b)) = Buffered(p) \o b
  BY <1>2, <1>4, PlayerIs, FlattenAppend, FlattenType, Zenon DEF Buffered
<1> QED
  BY <1>1, <1>4, <1>5

\* The start and the rest of a sequence.
Cuts(S, s, k, x, y) ==
  x \in Seq(S) /\ y \in Seq(S) /\ s = x \o y /\ Len(x) = k /\ Len(y) = Len(s) - k

LEMMA CutAt ==
  ASSUME NEW S, NEW s \in Seq(S), NEW k \in 0..Len(s)
  PROVE  Cuts(S, s, k, SubSeq(s, 1, k), SubSeq(s, k + 1, Len(s)))
<1>0. Len(s) \in Nat /\ k \in Nat
  BY LenProperties
<1>1. SubSeq(s, 1, k) \in Seq(S) /\ Len(SubSeq(s, 1, k)) = k
  BY <1>0
<1>2. SubSeq(s, k + 1, Len(s)) \in Seq(S) /\ Len(SubSeq(s, k + 1, Len(s))) = Len(s) - k
  BY <1>0
<1>3. s = SubSeq(s, 1, k) \o SubSeq(s, k + 1, Len(s))
  <2>1. 1 \in 1..Len(s) + 1 /\ k \in 1 - 1..Len(s) /\ Len(s) \in k..Len(s)
    BY <1>0
  <2>2. SubSeq(s, 1, k) \o SubSeq(s, k + 1, Len(s)) = SubSeq(s, 1, Len(s))
    BY <2>1, ConcatAdjacentSubSeq, Zenon
  <2>3. SubSeq(s, 1, Len(s)) = s
    BY SubSeqFull
  <2> QED
    BY <2>2, <2>3
<1> QED
  BY <1>1, <1>2, <1>3 DEF Cuts

LEMMA CutBefore ==
  ASSUME NEW S, NEW s \in Seq(S), NEW k \in 0..Len(s), k < Len(s)
  PROVE  /\ s[k + 1] \in S
         /\ SubSeq(s, 1, k + 1) = Append(SubSeq(s, 1, k), s[k + 1])
         /\ SubSeq(s, k + 1, Len(s)) # <<>> /\ Head(SubSeq(s, k + 1, Len(s))) = s[k + 1]
<1>0. Len(s) \in Nat /\ k \in Nat
  BY LenProperties
<1>1. s[k + 1] \in S
  BY <1>0
<1>2. SubSeq(s, 1, k + 1) = Append(SubSeq(s, 1, k), s[k + 1])
  BY <1>0
<1>3. SubSeq(s, k + 1, Len(s)) # <<>> /\ Head(SubSeq(s, k + 1, Len(s))) = s[k + 1]
  BY <1>0
<1> QED
  BY <1>1, <1>2, <1>3

LEMMA JoinedCut ==
  ASSUME NEW S, NEW s \in Seq(S), NEW t \in Seq(S)
  PROVE  SubSeq(s \o t, 1, Len(s)) = s
OBVIOUS

\* Some number of whole buffers is what the first n frames fill.
LEMMA WholeExists ==
  ASSUME NEW bs \in Seq(Seq(Frames)), NEW n \in Nat
  PROVE  /\ Whole(bs, n) \in 0..Len(bs)
         /\ Len(FlattenSeq(SubSeq(bs, 1, Whole(bs, n)))) <= n
         /\ Whole(bs, n) < Len(bs) =>
              n < Len(FlattenSeq(SubSeq(bs, 1, Whole(bs, n) + 1)))
<1> DEFINE F(k)    == Len(FlattenSeq(SubSeq(bs, 1, k)))
           Good(k) == F(k) <= n /\ (k < Len(bs) => n < F(k + 1))
           U       == {k \in Nat : k \in 0..Len(bs) => F(k) <= n}
<1>1. Len(bs) \in Nat
  BY LenProperties
<1>2. \A k \in 0..Len(bs) : F(k) \in Nat
  <2> TAKE k \in 0..Len(bs)
  <2>1. SubSeq(bs, 1, k) \in Seq(Seq(Frames))
    BY CutAt DEF Cuts
  <2> QED
    BY <2>1, FlattenType, LenProperties
<1>3. \E k \in 0..Len(bs) : Good(k)
  <2> SUFFICES ASSUME \A k \in 0..Len(bs) : ~ Good(k)
               PROVE  FALSE
    OBVIOUS
  <2>1. 0 \in U
    <3>1. SubSeq(bs, 1, 0) = <<>>
      OBVIOUS
    <3>2. F(0) = 0
      BY <3>1, FlattenEmpty, EmptySeq
    <3> QED
      BY <3>2
  <2> HIDE DEF F
  <2>2. \A k \in Nat : k \in U => k + 1 \in U
    <3> SUFFICES ASSUME NEW k \in Nat, k \in U, k + 1 \in 0..Len(bs)
                 PROVE  F(k + 1) <= n
      OBVIOUS
    <3>1. k \in 0..Len(bs) /\ F(k) <= n /\ k < Len(bs)
      BY <1>1
    <3>2. F(k + 1) \in Nat
      BY <1>2
    <3> QED
      BY <3>1, <3>2
  <2>3. Nat \subseteq U
    <3> HIDE DEF U
    <3> QED
      BY <2>1, <2>2, Induction
  <2>4. F(Len(bs)) <= n
    BY <1>1, <2>3
  <2>5. Good(Len(bs))
    BY <1>1, <2>4
  <2> QED
    BY <1>1, <2>5
<1>4. Whole(bs, n) = CHOOSE k \in 0..Len(bs) : Good(k)
  BY DEF Whole
<1>5. Whole(bs, n) \in 0..Len(bs) /\ Good(Whole(bs, n))
  <2> HIDE DEF Good
  <2> QED
    BY <1>3, <1>4
<1> QED
  BY <1>5
LEMMA ConcatIs ==
  \A s, t \in Seq(Frames) : s \o t \in Seq(Frames) /\ Len(s \o t) = Len(s) + Len(t)
OBVIOUS

Groups(s, t, u) == (s \o t) \o u = s \o (t \o u)

LEMMA Grouped ==
  ASSUME NEW S, NEW s \in Seq(S), NEW t \in Seq(S), NEW u \in Seq(S)
  PROVE  Groups(s, t, u)
BY DEF Groups

LEMMA ChangeFirst ==
  ASSUME NEW S, NEW s \in Seq(S), s # <<>>, NEW e \in S
  PROVE  [s EXCEPT ![1] = e] = <<e>> \o Tail(s)
OBVIOUS

\* Read hands out the first of the frames that are buffered and leaves the others.
LEMMA ReadIs ==
  ASSUME NEW p \in Player, NEW count \in Nat
  PROVE  LET n == ReadLen(p, count)
             r == SubSeq(Buffered(p), 1, n)
         IN  /\ n \in Nat /\ n <= Len(Buffered(p)) /\ (n = 0 <=> count = 0 \/ Len(Buffered(p)) = 0)
             /\ Read(p, count) \in Player /\ r \in Seq(Frames) /\ Len(r) = n
             /\ Buffered(p) = r \o Buffered(Read(p, count))
             /\ GetDelay(Read(p, count)) = GetDelay(p) - n
<1>1. PICK bs : bs = p.buffers
  OBVIOUS
<1>2. PICK n : n = ReadLen(p, count)
  OBVIOUS
<1>3. PICK k : k = Whole(bs, n)
  OBVIOUS
<1>4. /\ bs \in Seq(Seq(Frames)) /\ Buffered(p) = FlattenSeq(bs) /\ Buffered(p) \in Seq(Frames)
      /\ Len(Buffered(p)) \in Nat
  BY <1>1, PlayerIs DEF Buffered
<1>5. /\ n \in Nat /\ n <= Len(Buffered(p))
      /\ n = 0 <=> count = 0 \/ Len(Buffered(p)) = 0
  BY <1>2, <1>4 DEF ReadLen
<1>6. /\ k \in 0..Len(bs) /\ Len(bs) \in Nat
      /\ Len(FlattenSeq(SubSeq(bs, 1, k))) <= n
      /\ k < Len(bs) => n < Len(FlattenSeq(SubSeq(bs, 1, k + 1)))
  BY <1>3, <1>4, <1>5, WholeExists, LenProperties
<1>7. PICK first : first = SubSeq(bs, 1, k)
  OBVIOUS
<1>8. PICK rest : rest = SubSeq(bs, k + 1, Len(bs))
  OBVIOUS
<1>9. PICK whole : whole = FlattenSeq(first)
  OBVIOUS
<1>a. PICK part : part = n - Len(whole)
  OBVIOUS
<1>b. /\ first \in Seq(Seq(Frames)) /\ rest \in Seq(Seq(Frames)) /\ bs = first \o rest
      /\ Len(first) = k /\ Len(rest) = Len(bs) - k
      /\ k < Len(bs) =>
           /\ bs[k + 1] \in Seq(Frames) /\ SubSeq(bs, 1, k + 1) = Append(first, bs[k + 1])
           /\ rest # <<>> /\ Head(rest) = bs[k + 1]
  <2>1. Cuts(Seq(Frames), bs, k, first, rest)
    BY <1>4, <1>6, <1>7, <1>8, CutAt
  <2>2. k < Len(bs) =>
          /\ bs[k + 1] \in Seq(Frames)
          /\ SubSeq(bs, 1, k + 1) = Append(SubSeq(bs, 1, k), bs[k + 1])
          /\ SubSeq(bs, k + 1, Len(bs)) # <<>> /\ Head(SubSeq(bs, k + 1, Len(bs))) = bs[k + 1]
    BY <1>4, <1>6, CutBefore
  <2> QED
    BY <1>7, <1>8, <2>1, <2>2, Zenon DEF Cuts
<1>c. /\ whole \in Seq(Frames) /\ Len(whole) \in Nat /\ FlattenSeq(rest) \in Seq(Frames)
      /\ Buffered(p) = whole \o FlattenSeq(rest)
      /\ Len(FlattenSeq(rest)) \in Nat
      /\ Len(Buffered(p)) = Len(whole) + Len(FlattenSeq(rest))
  <2>1. whole \in Seq(Frames) /\ FlattenSeq(rest) \in Seq(Frames)
    BY <1>9, <1>b, FlattenType, Zenon
  <2>2. Buffered(p) = whole \o FlattenSeq(rest)
    BY <1>4, <1>9, <1>b, FlattenConcat, Zenon
  <2> QED
    BY <2>1, <2>2, ConcatIs, LenProperties
<1>d. part \in Nat
  BY <1>5, <1>6, <1>7, <1>9, <1>a, <1>c
<1>e. PICK left : left = IF part = 0 THEN rest
                         ELSE [rest EXCEPT ![1] = SubSeq(rest[1], part + 1, Len(rest[1]))]
  OBVIOUS
<1>f. Read(p, count) = [p EXCEPT !.position = p.position + n, !.buffers = left]
  <2>1. Read(p, count) =
          [p EXCEPT !.position = @ + n,
                    !.buffers = IF part = 0 THEN rest
                                ELSE [rest EXCEPT ![1] = SubSeq(@, part + 1, Len(@))]]
    BY <1>1, <1>2, <1>3, <1>7, <1>8, <1>9, <1>a, Zenon DEF Read
  <2> QED
    BY <1>e, <2>1
<1>g. \E r \in Seq(Frames) :
        /\ left \in Seq(Seq(Frames)) /\ Len(r) = n
        /\ Buffered(p) = r \o FlattenSeq(left)
  <2>1. CASE part = 0
    <3>1. left = rest /\ Len(whole) = n
      BY <1>5, <1>a, <1>c, <1>e, <2>1
    <3> QED
      BY <1>b, <1>c, <3>1
  <2>2. CASE part # 0
    <3>1. k < Len(bs)
      <4> SUFFICES ASSUME k = Len(bs)
                   PROVE  FALSE
        BY <1>6
      <4>1. Len(rest) = 0
        BY <1>6, <1>b
      <4>2. rest = <<>>
        BY <1>b, <4>1, EmptySeq
      <4>3. Len(FlattenSeq(rest)) = 0
        BY <4>2, FlattenEmpty, EmptySeq
      <4> QED
        <5>1. n <= Len(whole)
          BY <1>5, <1>c, <4>3
        <5> QED
          BY <1>5, <1>a, <1>c, <1>d, <2>2, <5>1
    <3>2. PICK b \in Seq(Frames) : b = bs[k + 1]
      BY <1>b, <3>1
    <3>3. /\ b \in Seq(Frames) /\ rest # <<>> /\ Head(rest) = b /\ rest[1] = b
          /\ Tail(rest) \in Seq(Seq(Frames))
      BY <1>b, <3>1, <3>2, FirstAndRest
    <3>4. part < Len(b) /\ Len(b) \in Nat
      <4>1. FlattenSeq(SubSeq(bs, 1, k + 1)) = whole \o b
        <5>1. FlattenSeq(Append(first, b)) = FlattenSeq(first) \o b
          BY <1>9, <1>b, <1>c, <3>3, FlattenAppend
        <5> QED
          BY <1>9, <1>b, <3>1, <3>2, <5>1
      <4>2. n < Len(whole) + Len(b)
        BY <1>6, <1>c, <3>1, <3>3, <4>1, ConcatIs
      <4>3. Len(b) \in Nat
        BY <3>3, LenProperties
      <4> QED
        BY <1>5, <1>a, <1>c, <4>2, <4>3
    <3>5. part \in 0..Len(b)
      BY <1>d, <3>4
    <3>6. PICK x : x = SubSeq(b, 1, part)
      OBVIOUS
    <3>f. PICK y : y = SubSeq(b, part + 1, Len(b))
      OBVIOUS
    <3>g. Cuts(Frames, b, part, x, y)
      BY <3>5, <3>6, <3>f, CutAt
    <3>7. x \in Seq(Frames) /\ y \in Seq(Frames) /\ b = x \o y /\ Len(x) = part
      BY <3>g DEF Cuts
    <3>8. left = <<y>> \o Tail(rest)
      <4>1. left = [rest EXCEPT ![1] = y]
        BY <1>e, <2>2, <3>3, <3>f
      <4> QED
        BY <1>b, <3>3, <3>7, <4>1, ChangeFirst
    <3>9. FlattenSeq(rest) = b \o FlattenSeq(Tail(rest))
      BY <1>b, <3>3, FlattenFirst, Zenon
    <3>a. <<y>> \in Seq(Seq(Frames)) /\ FlattenSeq(<<y>>) = y
      BY <3>7, FlattenOne
    <3>b. FlattenSeq(left) = y \o FlattenSeq(Tail(rest)) /\ left \in Seq(Seq(Frames))
      <4>1. FlattenSeq(<<y>> \o Tail(rest)) = FlattenSeq(<<y>>) \o FlattenSeq(Tail(rest))
        BY <3>3, <3>a, FlattenConcat, Zenon
      <4>2. <<y>> \o Tail(rest) \in Seq(Seq(Frames))
        BY <3>3, <3>a, ConcatProperties
      <4> QED
        BY <3>8, <3>a, <4>1, <4>2, Zenon
    <3>c. FlattenSeq(Tail(rest)) \in Seq(Frames) /\ FlattenSeq(left) \in Seq(Frames)
      BY <3>3, <3>b, FlattenType, Zenon
    <3>d. whole \o x \in Seq(Frames) /\ Len(whole \o x) = n
      <4>1. whole \o x \in Seq(Frames) /\ Len(whole \o x) = Len(whole) + Len(x)
        BY <1>c, <3>7, ConcatIs, Zenon
      <4> QED
        BY <1>5, <1>a, <1>c, <3>7, <4>1
    <3>e. Buffered(p) = (whole \o x) \o FlattenSeq(left)
      <4>1. PICK z \in Seq(Frames) : z = FlattenSeq(Tail(rest))
        BY <3>c
      <4>2. FlattenSeq(rest) = (x \o y) \o z /\ FlattenSeq(left) = y \o z
        BY <3>7, <3>9, <3>b, <4>1, Zenon
      <4>3. Groups(x, y, z) /\ y \o z \in Seq(Frames)
        BY <3>7, Grouped, ConcatIs
      <4>4. Groups(whole, x, y \o z)
        BY <1>c, <3>7, <4>3, Grouped
      <4> QED
        BY <1>c, <4>2, <4>3, <4>4, Zenon DEF Groups
    <3> QED
      BY <3>b, <3>d, <3>e
  <2> QED
    BY <2>1, <2>2
<1>h. Read(p, count) \in Player /\ Read(p, count).buffers = left
      /\ GetDelay(Read(p, count)) = GetDelay(p) - n
  <2>1. PICK m \in Nat : m = p.position + n
    BY <1>5, PlayerIs
  <2>2. Read(p, count) = [p EXCEPT !.position = m, !.buffers = left]
    BY <1>f, <2>1
  <2>3. Read(p, count) \in Player
    BY <1>g, <2>1, <2>2, Zenon DEF Player
  <2>4. /\ Read(p, count).buffers = left /\ Read(p, count).length = p.length
        /\ Read(p, count).position = m
    BY <2>2 DEF Player
  <2> QED
    BY <1>5, <2>1, <2>3, <2>4, PlayerIs DEF GetDelay
<1>i. /\ SubSeq(Buffered(p), 1, n) \in Seq(Frames) /\ Len(SubSeq(Buffered(p), 1, n)) = n
      /\ Buffered(p) = SubSeq(Buffered(p), 1, n) \o Buffered(Read(p, count))
  <2>1. PICK r \in Seq(Frames) :
          /\ left \in Seq(Seq(Frames)) /\ Len(r) = n /\ Buffered(p) = r \o FlattenSeq(left)
    BY <1>g
  <2>2. FlattenSeq(left) \in Seq(Frames)
    BY <2>1, FlattenType, Zenon
  <2>3. SubSeq(Buffered(p), 1, n) = r
    BY <2>1, <2>2, JoinedCut
  <2> QED
    BY <1>h, <2>1, <2>3 DEF Buffered
<1> QED
  BY <1>2, <1>5, <1>h, <1>i
-----------------------------------------------------------------------------
(* Messages.                                                               *)

LEMMA PayloadIs ==
  ASSUME NEW m \in Message
  PROVE  /\ Payload(m) \in Seq(Frames)
         /\ m.op # "PLAY" => Payload(m) = <<>>
         /\ m.op = "PLAY" => m.buffer \in Seq(Frames) /\ Payload(m) = m.buffer
<1>1. m.op = "PLAY" => m.buffer \in Seq(Frames)
  BY DEF Message
<1> QED
  BY <1>1 DEF Payload

LEMMA CarriedIs ==
  ASSUME NEW ms \in Seq(Message)
  PROVE  /\ Carried(ms) = FlattenSeq([i \in DOMAIN ms |-> Payload(ms[i])])
         /\ [i \in DOMAIN ms |-> Payload(ms[i])] \in Seq(Seq(Frames))
         /\ Carried(ms) \in Seq(Frames)
<1> DEFINE parts == [i \in DOMAIN ms |-> Payload(ms[i])]
<1>1. \A i \in 1..Len(ms) : Payload(ms[i]) \in Seq(Frames)
  <2>1. \A i \in 1..Len(ms) : ms[i] \in Message
    BY ElementOfSeq
  <2> QED
    BY <2>1, PayloadIs
<1>2. parts = [i \in 1..Len(ms) |-> Payload(ms[i])] /\ Len(ms) \in Nat
  BY LenProperties
<1>3. parts \in Seq(Seq(Frames))
  BY <1>1, <1>2, IsASeq
<1>4. Carried(ms) = FlattenSeq(parts)
  BY Zenon DEF Carried
<1> QED
  BY <1>3, <1>4, FlattenType

LEMMA CarriedNone == Carried(<<>>) = <<>>
<1>1. [i \in DOMAIN <<>> |-> Payload(<<>>[i])] = <<>>
  OBVIOUS
<1> QED
  BY <1>1, FlattenEmpty, Zenon DEF Carried

\* What messages carry is what the first carries and then the others.
LEMMA CarriedFirst ==
  ASSUME NEW ms \in Seq(Message), ms # <<>>
  PROVE  /\ Head(ms) \in Message /\ Tail(ms) \in Seq(Message)
         /\ Payload(Head(ms)) \in Seq(Frames) /\ Carried(Tail(ms)) \in Seq(Frames)
         /\ Carried(ms) = Payload(Head(ms)) \o Carried(Tail(ms))
<1>1. /\ Head(ms) \in Message /\ Tail(ms) \in Seq(Message) /\ Head(ms) = ms[1] /\ 1 \in DOMAIN ms
      /\ DOMAIN ms = 1..Len(ms) /\ Len(ms) \in Nat /\ Len(ms) # 0
      /\ DOMAIN Tail(ms) = 1..Len(ms) - 1
      /\ \A i \in DOMAIN Tail(ms) : i + 1 \in DOMAIN ms /\ Tail(ms)[i] = ms[i + 1]
  BY FirstAndRest
<1>2. PICK p : p = [i \in DOMAIN ms |-> Payload(ms[i])]
  OBVIOUS
<1>3. PICK q : q = [i \in DOMAIN Tail(ms) |-> Payload(Tail(ms)[i])]
  OBVIOUS
<1>4. p \in Seq(Seq(Frames)) /\ q \in Seq(Seq(Frames))
  BY <1>1, <1>2, <1>3, CarriedIs
<1>5. /\ DOMAIN p = 1..Len(ms) /\ p[1] = Payload(Head(ms))
      /\ DOMAIN q = 1..Len(ms) - 1
      /\ \A i \in 1..Len(ms) - 1 : q[i] = p[i + 1]
  BY <1>1, <1>2, <1>3
<1>6. p # <<>> /\ Head(p) = p[1] /\ Tail(p) \in Seq(Seq(Frames)) /\ Len(p) = Len(ms)
  BY <1>1, <1>4, <1>5
<1>7. Len(Tail(p)) = Len(p) - 1 /\ \A i \in 1..Len(p) - 1 : Tail(p)[i] = p[i + 1]
  BY <1>4, <1>6, HeadTailProperties
<1>8. q = Tail(p)
  <2>1. Len(q) = Len(ms) - 1
    <3>1. PICK n \in Nat : n = Len(ms) - 1
      <4>1. Len(ms) \in Nat /\ Len(ms) # 0
        BY <1>1, Zenon
      <4>2. Len(ms) - 1 \in Nat
        BY <4>1
      <4> QED
        BY <4>2, Zenon
    <3>2. DOMAIN q = 1..n /\ q \in Seq(Seq(Frames))
      BY <1>4, <1>5, <3>1
    <3> QED
      BY <3>1, <3>2
  <2> QED
    BY <1>4, <1>5, <1>6, <1>7, <2>1, SeqEqual
<1>9. FlattenSeq(p) = Head(p) \o FlattenSeq(Tail(p))
  BY <1>4, <1>6, FlattenFirst
<1>a. Carried(ms) = Payload(Head(ms)) \o Carried(Tail(ms))
  BY <1>1, <1>2, <1>3, <1>5, <1>6, <1>8, <1>9, CarriedIs
<1> QED
  BY <1>1, <1>a, CarriedIs, PayloadIs

LEMMA CarriedLast ==
  ASSUME NEW ms \in Seq(Message), NEW m \in Message
  PROVE  /\ Append(ms, m) \in Seq(Message)
         /\ Payload(m) \in Seq(Frames) /\ Carried(ms) \in Seq(Frames)
         /\ Carried(Append(ms, m)) = Carried(ms) \o Payload(m)
<1>1. PICK ns \in Seq(Message) : ns = Append(ms, m)
  BY AndLast
<1>2. /\ DOMAIN ms = 1..Len(ms) /\ Len(ms) \in Nat /\ DOMAIN ns = 1..Len(ms) + 1
      /\ \A i \in DOMAIN ms : i \in DOMAIN ns /\ ns[i] = ms[i]
      /\ ns[Len(ms) + 1] = m
  BY <1>1, AndLast, AppendProperties
<1>3. PICK p : p = [i \in DOMAIN ms |-> Payload(ms[i])]
  OBVIOUS
<1>4. PICK q : q = [i \in DOMAIN ns |-> Payload(ns[i])]
  OBVIOUS
<1>5. p \in Seq(Seq(Frames)) /\ q \in Seq(Seq(Frames)) /\ Payload(m) \in Seq(Frames)
  BY <1>3, <1>4, CarriedIs, PayloadIs
<1>6. /\ DOMAIN p = 1..Len(ms) /\ DOMAIN q = 1..Len(ms) + 1
      /\ q[Len(ms) + 1] = Payload(m)
      /\ \A i \in 1..Len(ms) : q[i] = p[i]
  <2>1. DOMAIN p = 1..Len(ms) /\ DOMAIN q = 1..Len(ms) + 1
    BY <1>2, <1>3, <1>4, Zenon
  <2>2. Len(ms) + 1 \in DOMAIN ns /\ \A i \in 1..Len(ms) : i \in DOMAIN ms /\ i \in DOMAIN ns
    BY <1>2
  <2>3. q[Len(ms) + 1] = Payload(m)
    BY <1>2, <1>4, <2>2, Zenon
  <2>4. \A i \in 1..Len(ms) : q[i] = p[i]
    BY <1>2, <1>3, <1>4, <2>2, Zenon
  <2> QED
    BY <2>1, <2>3, <2>4
<1>7. Len(p) = Len(ms) /\ Len(q) = Len(ms) + 1
  BY <1>2, <1>5, <1>6
<1>8. PICK r \in Seq(Seq(Frames)) : r = Append(p, Payload(m))
  BY <1>5, AndLast
<1>9. Len(r) = Len(ms) + 1 /\ r[Len(ms) + 1] = Payload(m) /\ \A i \in 1..Len(ms) : r[i] = p[i]
  BY <1>5, <1>7, <1>8, AppendProperties
<1>a. q = r
  <2>1. \A i \in 1..Len(ms) + 1 : i \in 1..Len(ms) \/ i = Len(ms) + 1
    BY <1>2
  <2>2. \A i \in 1..Len(ms) + 1 : q[i] = r[i]
    BY <1>6, <1>9, <2>1
  <2> QED
    BY <1>5, <1>7, <1>9, <2>2, SeqEqual
<1>b. FlattenSeq(r) = FlattenSeq(p) \o Payload(m)
  BY <1>5, <1>8, FlattenType, FlattenAppend
<1>c. Carried(ns) = FlattenSeq(q) /\ Carried(ms) = FlattenSeq(p) /\ Carried(ms) \in Seq(Frames)
  BY <1>3, <1>4, CarriedIs
<1> QED
  BY <1>1, <1>5, <1>a, <1>b, <1>c
-----------------------------------------------------------------------------
(* What the steps that only take frames away leave of the invariant.       *)

LEMMA Constants ==
  /\ None \notin Client /\ None \notin Player /\ None \notin WaveOut
  /\ Period \in Nat \ {0} /\ MaxFrames \in Nat /\ MaxSent \in Nat
BY PcmAssumption

LEMMA KeptIs ==
  ASSUME player \in Player \cup {None}
  PROVE  /\ Kept \in Seq(Frames)
         /\ player = None => Kept = <<>>
         /\ player # None => player \in Player /\ Kept = Buffered(player)
BY PlayerIs, NoFrames DEF Kept

\* The client's frames will come after those of the player.
InLine(c) == served = c \/ \E i \in DOMAIN backlog : backlog[i] = c

LEMMA OrderedLess ==
  ASSUME TypeOK, accepted' \in Nat, accepted <= accepted', Ordered,
         played' = played, Kept' = Kept \/ Kept' = <<>>,
         \A c \in Client : Carried(sent'[c]) = Carried(sent[c]) \/ Carried(sent'[c]) = <<>>,
         \A c \in Client : InLine(c)' => InLine(c) \/ Carried(sent'[c]) = <<>>
  PROVE  Ordered'
<1>1. /\ played \in Seq(Frames) /\ Kept \in Seq(Frames) /\ accepted \in Nat
      /\ \A c \in Client : Carried(sent[c]) \in Seq(Frames)
  <2>1. \A c \in Client : sent[c] \in Seq(Message)
    BY DEF TypeOK, LinkTypeOK
  <2>2. played \in Seq(Frames) /\ accepted \in Nat
    BY DEF TypeOK
  <2>3. Kept \in Seq(Frames)
    BY KeptIs DEF TypeOK
  <2> QED
    BY <2>1, <2>2, <2>3, CarriedIs
<1>2. /\ Upto(played, accepted) /\ Upto(Kept, accepted)
      /\ Rising(played) /\ Rising(Kept) /\ Before(played, Kept)
      /\ \A c \in Client : Upto(Carried(sent[c]), accepted) /\ Rising(Carried(sent[c]))
      /\ \A c \in Client :
           InLine(c) => Before(played, Carried(sent[c])) /\ Before(Kept, Carried(sent[c]))
  BY DEF Ordered, InFlight, InLine
<1>3. Upto(played', accepted') /\ Upto(Kept', accepted')
  BY <1>1, <1>2, UptoMore, NoFrames
<1>4. Rising(played') /\ Rising(Kept') /\ Before(played', Kept')
  BY <1>2, NoFrames
<1>5. ASSUME NEW c \in Client
      PROVE  Upto(Carried(sent'[c]), accepted') /\ Rising(Carried(sent'[c]))
  <2>1. Upto(Carried(sent[c]), accepted') /\ Rising(Carried(sent[c]))
    BY <1>1, <1>2, UptoMore
  <2> QED
    BY <2>1, NoFrames
<1>6. ASSUME NEW c \in Client, InLine(c)'
      PROVE  Before(played', Carried(sent'[c])) /\ Before(Kept', Carried(sent'[c]))
  BY <1>2, <1>6, NoFrames
<1> QED
  BY <1>3, <1>4, <1>5, <1>6 DEF Ordered, InFlight, InLine

\* A player that was kept as it is, emptied or lost is no matter for the delay.
LEMMA DelayLess ==
  ASSUME DelayCovers, player' = player \/ player' = None,
         \A c \in Client : answer'[c] = answer[c] \/ answer'[c] = <<>>,
         player' # None => served' = served
  PROVE  DelayCovers'
BY DEF DelayCovers

LEMMA OneQueryLess ==
  ASSUME OneQuery, waiting' = waiting, answer' = answer,
         \A c \in Client : sent'[c] = sent[c] \/ sent'[c] = <<>>
  PROVE  OneQuery'
BY DEF OneQuery
\* The parts of TypeOK.
ClientOK ==
  /\ phase \in [Client -> {"closed", "open", "setup", "running", "paused", "drained", "freed"}]
  /\ state \in [Client -> {"OPEN", "PREPARED", "RUNNING", "SUSPENDED"}]
  /\ waiting \in Client \cup {None}
  /\ accepted \in 0..MaxFrames /\ excused \in 0..accepted

PlayerOK ==
  /\ player \in Player \cup {None}
  /\ waveOut \in WaveOut \cup {None}
  /\ player # None => waveOut # None
  /\ played \in Seq(Frames) /\ beside \subseteq Frames

LEMMA TypeParts == TypeOK <=> LinkTypeOK(Message, Nat) /\ ClientOK /\ PlayerOK
BY DEF TypeOK, ClientOK, PlayerOK

LEMMA TypeJoined ==
  ASSUME LinkTypeOK(Message, Nat)', ClientOK', PlayerOK'
  PROVE  TypeOK'
BY DEF TypeOK, ClientOK, PlayerOK

LEMMA ClientKept ==
  ASSUME ClientOK, UNCHANGED clientVars
  PROVE  ClientOK' /\ accepted' \in Nat /\ accepted <= accepted'
BY Constants DEF ClientOK, clientVars
-----------------------------------------------------------------------------
(* The server's steps.                                                     *)

LEMMA HangupKeeps ==
  ASSUME PcmInv, served # None, HangupClient, UNCHANGED clientVars
  PROVE  PcmInv'
<1>1. /\ LinkTypeOK(Message, Nat) /\ ClientOK /\ PlayerOK /\ Connected /\ Ordered /\ OneQuery
      /\ DelayCovers /\ Standby /\ TypeOK
  BY TypeParts DEF PcmInv
<1>2. /\ Hangup /\ player' = None /\ played' = played /\ beside' = beside
      /\ waveOut' = IF waveOut = None THEN None ELSE "stopped"
      /\ served' = None /\ UNCHANGED <<opened, backlog, answer>>
  BY DEF HangupClient, Hangup
<1>3. /\ LinkTypeOK(Message, Nat)' /\ Connected'
      /\ sent'[served] = <<>> /\ \A c \in Client : c # served => sent'[c] = sent[c]
  BY <1>1, <1>2, Constants, ConnectedHangup
<1>4. ClientOK' /\ accepted' \in Nat /\ accepted <= accepted'
  BY <1>1, ClientKept
<1>5. PlayerOK'
  BY <1>1, <1>2 DEF PlayerOK, WaveOut
<1>6. TypeOK'
  BY <1>3, <1>4, <1>5, TypeJoined
<1>7. Standby'
  BY <1>1, <1>2 DEF Standby, clientVars
<1>8. Kept' = <<>> /\ Accounting'
  BY <1>2 DEF Kept, Accounting
<1>9. \A c \in Client : sent'[c] = sent[c] \/ sent'[c] = <<>>
  BY <1>3
<1>a. Ordered'
  <2>1. \A c \in Client : InLine(c)' => InLine(c)
    BY <1>2, Constants DEF InLine
  <2>2. \A c \in Client : Carried(sent'[c]) = Carried(sent[c]) \/ Carried(sent'[c]) = <<>>
    BY <1>9, CarriedNone
  <2> QED
    BY <1>1, <1>2, <1>4, <1>8, <2>1, <2>2, OrderedLess
<1>b. OneQuery'
  BY <1>1, <1>2, <1>9, OneQueryLess DEF clientVars
<1>c. DelayCovers'
  BY <1>1, <1>2, DelayLess
<1> QED
  BY <1>3, <1>6, <1>7, <1>8, <1>a, <1>b, <1>c DEF PcmInv

LEMMA AcceptKeeps ==
  ASSUME PcmInv, Accept, UNCHANGED <<playerVars, clientVars>>
  PROVE  PcmInv'
<1>1. /\ LinkTypeOK(Message, Nat) /\ ClientOK /\ PlayerOK /\ Connected /\ Ordered /\ OneQuery
      /\ DelayCovers /\ Standby /\ TypeOK
  BY TypeParts DEF PcmInv
<1>2. /\ served = None /\ UNCHANGED <<alive, opened, cut, reset, sent, answer>>
      /\ UNCHANGED <<player, waveOut, played, beside>>
      /\ player = None
  BY <1>1 DEF Accept, playerVars, Standby
<1>3. /\ LinkTypeOK(Message, Nat)' /\ Connected'
      /\ served' \in Client /\ 1 \in DOMAIN backlog /\ served' = backlog[1]
      /\ \A i \in DOMAIN backlog' : i + 1 \in DOMAIN backlog /\ backlog'[i] = backlog[i + 1]
  BY <1>1, ConnectedAccept
<1>4. ClientOK' /\ accepted' \in Nat /\ accepted <= accepted'
  BY <1>1, ClientKept
<1>5. TypeOK'
  <2>1. PlayerOK'
    BY <1>1, <1>2 DEF PlayerOK
  <2> QED
    BY <1>3, <1>4, <2>1, TypeJoined
<1>6. Standby'
  BY <1>1, <1>2, <1>3 DEF Standby, clientVars
<1>7. Kept' = <<>> /\ Accounting'
  BY <1>2 DEF Kept, Accounting
<1>8. Ordered'
  <2>1. \A c \in Client : InLine(c)' => InLine(c)
    BY <1>3 DEF InLine
  <2> QED
    BY <1>1, <1>2, <1>4, <1>7, <2>1, OrderedLess
<1>9. OneQuery'
  BY <1>1, <1>2, OneQueryLess DEF clientVars
<1>a. DelayCovers'
  BY <1>1, <1>2, DelayLess
<1> QED
  BY <1>3, <1>5, <1>6, <1>7, <1>8, <1>9, <1>a DEF PcmInv

\* What every message that is handled has in common.
LEMMA HandledIs ==
  ASSUME PcmInv, served # None, sent[served] # <<>>, Handled, UNCHANGED clientVars,
         answer' \in [Client -> Seq(Nat)],
         \A c \in Client : c # served => answer'[c] = answer[c]
  PROVE  /\ LinkTypeOK(Message, Nat)' /\ Connected' /\ Standby' /\ ClientOK'
         /\ served' = served /\ served \in Client /\ backlog' = backlog
         /\ sent[served] \in Seq(Message) /\ Head(sent[served]) \in Message
         /\ answer[served] = <<>>
         /\ sent'[served] = Tail(sent[served])
         /\ \A c \in Client : c # served => sent'[c] = sent[c]
         /\ Payload(Head(sent[served])) \in Seq(Frames) /\ Carried(sent'[served]) \in Seq(Frames)
         /\ Carried(sent[served]) = Payload(Head(sent[served])) \o Carried(sent'[served])
<1>1. /\ LinkTypeOK(Message, Nat) /\ ClientOK /\ Connected /\ OneQuery /\ Standby
  BY TypeParts DEF PcmInv
<1>2. Take /\ UNCHANGED <<alive, opened, backlog, served, cut, reset>>
  BY DEF Handled
<1>3. /\ LinkTypeOK(Message, Nat)' /\ Connected'
      /\ served \in Client /\ sent[served] \in Seq(Message) /\ Head(sent[served]) \in Message
      /\ sent'[served] = Tail(sent[served])
      /\ \A c \in Client : c # served => sent'[c] = sent[c]
  BY <1>1, <1>2, ConnectedTake
<1>4. Standby' /\ ClientOK'
  BY <1>1, <1>2, ClientKept DEF Standby, clientVars
<1>5. answer[served] = <<>>
  BY <1>1, <1>3 DEF OneQuery
<1> QED
  BY <1>2, <1>3, <1>4, <1>5, CarriedFirst

\* A message that is not answered leaves fewer queries, and no answer is on its way.
LEMMA UnansweredKeeps ==
  ASSUME PcmInv, served # None, sent[served] # <<>>, Handled, UNCHANGED <<answer, clientVars>>
  PROVE  OneQuery' /\ DelayCovers'
<1>1. LinkTypeOK(Message, Nat) /\ OneQuery /\ answer \in [Client -> Seq(Nat)]
  BY TypeParts DEF PcmInv, LinkTypeOK
<1>2. /\ served' = served /\ served \in Client /\ answer[served] = <<>>
      /\ sent[served] \in Seq(Message) /\ sent'[served] = Tail(sent[served])
      /\ \A c \in Client : c # served => sent'[c] = sent[c]
  BY <1>1, HandledIs
<1>3. /\ Len(Tail(sent[served])) = Len(sent[served]) - 1 /\ Len(sent[served]) \in Nat
      /\ DOMAIN Tail(sent[served]) = 1..Len(sent[served]) - 1
      /\ \A i \in DOMAIN Tail(sent[served]) :
           i + 1 \in DOMAIN sent[served] /\ Tail(sent[served])[i] = sent[served][i + 1]
  BY <1>2, FirstAndRest
<1>4. ASSUME NEW c \in Client
      PROVE  /\ \A i \in DOMAIN sent'[c] : sent'[c][i].op = "DELA" =>
                  waiting' = c /\ i = Len(sent'[c]) /\ answer'[c] = <<>>
             /\ answer'[c] # <<>> => waiting' = c /\ sent'[c] = <<>> /\ Len(answer'[c]) = 1
  <2>1. CASE c = served
    <3>1. PICK ms : ms = sent[c]
      OBVIOUS
    <3>2. PICK ts : ts = sent'[c]
      OBVIOUS
    <3>3. /\ Len(ts) = Len(ms) - 1 /\ Len(ms) \in Nat /\ DOMAIN ts = 1..Len(ms) - 1
          /\ \A i \in DOMAIN ts : i + 1 \in DOMAIN ms /\ ts[i] = ms[i + 1]
      BY <1>2, <1>3, <2>1, <3>1, <3>2
    <3>4. ASSUME NEW i \in DOMAIN ts, ts[i].op = "DELA"
          PROVE  waiting = c /\ i = Len(ts)
      <4>1. waiting = c /\ i + 1 = Len(ms)
        BY <1>1, <3>1, <3>3, <3>4 DEF OneQuery
      <4> QED
        BY <3>3, <4>1
    <3> QED
      BY <1>2, <2>1, <3>2, <3>4 DEF clientVars
  <2>2. CASE c # served
    BY <1>1, <1>2, <2>2 DEF OneQuery, clientVars
  <2> QED
    BY <2>1, <2>2
<1>5. OneQuery'
  BY <1>4 DEF OneQuery
<1>6. DelayCovers'
  BY <1>2 DEF DelayCovers
<1> QED
  BY <1>5, <1>6
\* The messages without frames that are not answered: INIT, DROP, PAUS and RESU.
LEMMA QuietKeeps ==
  ASSUME PcmInv, served # None, sent[served] # <<>>, Handled, UNCHANGED <<answer, played, clientVars>>,
         Head(sent[served]).op # "PLAY",
         player' \in Player \cup {None}, waveOut' \in WaveOut \cup {None},
         player' # None => waveOut' # None, beside' \subseteq Frames,
         \/ player' = player
         \/ player' \in Player /\ Buffered(player') = <<>> /\ GetDelay(player') = 0
  PROVE  PcmInv'
<1>1. /\ LinkTypeOK(Message, Nat) /\ ClientOK /\ PlayerOK /\ Ordered /\ TypeOK /\ Accounting
  BY TypeParts DEF PcmInv
<1>2. answer \in [Client -> Seq(Nat)]
  BY <1>1 DEF LinkTypeOK
<1>3. /\ LinkTypeOK(Message, Nat)' /\ Connected' /\ Standby' /\ ClientOK'
      /\ served' = served /\ served \in Client /\ backlog' = backlog
      /\ Head(sent[served]) \in Message
      /\ \A c \in Client : c # served => sent'[c] = sent[c]
      /\ Carried(sent'[served]) \in Seq(Frames)
      /\ Carried(sent[served]) = Payload(Head(sent[served])) \o Carried(sent'[served])
  BY <1>2, HandledIs
<1>4. OneQuery' /\ DelayCovers'
  BY UnansweredKeeps
<1>5. PlayerOK'
  BY <1>1 DEF PlayerOK
<1>6. TypeOK'
  BY <1>3, <1>5, TypeJoined
<1>7. Carried(sent'[served]) = Carried(sent[served])
  <2>1. Payload(Head(sent[served])) = <<>>
    BY <1>3, PayloadIs
  <2> QED
    BY <1>3, <2>1, ConcatEmptySeq
<1>8. /\ Kept' = Kept \/ Kept' = <<>>
      /\ Accounting'
  <2>1. CASE player' = player
    BY <1>1, <2>1 DEF Kept, Accounting
  <2>2. CASE player' \in Player /\ Buffered(player') = <<>> /\ GetDelay(player') = 0
    <3>1. player' # None
      BY <2>2, Constants
    <3>2. Kept' = <<>>
      BY <2>2, <3>1 DEF Kept
    <3>3. Accounting'
      BY <2>2, EmptySeq DEF Accounting
    <3> QED
      BY <3>2, <3>3
  <2> QED
    BY <2>1, <2>2
<1>9. Ordered'
  <2>1. \A c \in Client : Carried(sent'[c]) = Carried(sent[c]) \/ Carried(sent'[c]) = <<>>
    BY <1>3, <1>7
  <2>2. \A c \in Client : InLine(c)' => InLine(c)
    BY <1>3 DEF InLine
  <2>3. accepted' \in Nat /\ accepted <= accepted'
    BY <1>1, ClientKept
  <2> QED
    BY <1>1, <1>8, <2>1, <2>2, <2>3, OrderedLess
<1> QED
  BY <1>3, <1>4, <1>6, <1>8, <1>9 DEF PcmInv

\* The frames of a PLAY move from the connection to the player.
LEMMA HandlePlayKeeps ==
  ASSUME PcmInv, KeepServing, sent[served] # <<>>, HandlePlay, UNCHANGED clientVars
  PROVE  PcmInv'
<1>1. /\ LinkTypeOK(Message, Nat) /\ ClientOK /\ PlayerOK /\ Ordered /\ TypeOK /\ Accounting
  BY TypeParts DEF PcmInv
<1>2. answer \in [Client -> Seq(Nat)]
  BY <1>1 DEF LinkTypeOK
<1>3. /\ player # None /\ Head(sent[served]).op = "PLAY" /\ served # None /\ backlog = <<>>
      /\ player' = Write(player, Head(sent[served]).buffer) /\ waveOut' = "playing"
      /\ Handled /\ UNCHANGED <<answer, played, beside>>
  BY DEF HandlePlay, KeepServing
<1>4. /\ LinkTypeOK(Message, Nat)' /\ Connected' /\ Standby' /\ ClientOK'
      /\ served' = served /\ served \in Client /\ backlog' = backlog
      /\ Head(sent[served]) \in Message
      /\ \A c \in Client : c # served => sent'[c] = sent[c]
      /\ Carried(sent'[served]) \in Seq(Frames)
      /\ Carried(sent[served]) = Payload(Head(sent[served])) \o Carried(sent'[served])
  BY <1>2, <1>3, HandledIs
<1>5. OneQuery' /\ DelayCovers'
  BY <1>3, UnansweredKeeps
<1>6. PICK b \in Seq(Frames) : b = Head(sent[served]).buffer /\ b = Payload(Head(sent[served]))
  BY <1>3, <1>4, PayloadIs
<1>7. player \in Player /\ Kept = Buffered(player) /\ Kept \in Seq(Frames)
  BY <1>1, <1>3, KeptIs DEF PlayerOK
<1>8. /\ player' \in Player /\ Buffered(player') = Kept \o b
      /\ GetDelay(player') = GetDelay(player) + Len(b)
  BY <1>3, <1>6, <1>7, WriteIs
<1>9. player' # None /\ Kept' = Kept \o b
  BY <1>8, Constants DEF Kept
<1>a. TypeOK'
  <2>1. PlayerOK'
    BY <1>1, <1>3, <1>8, Constants DEF PlayerOK, WaveOut
  <2> QED
    BY <1>4, <2>1, TypeJoined
<1>b. Accounting'
  <2>1. Len(Kept \o b) = Len(Kept) + Len(b)
    BY <1>7, ConcatIs
  <2> QED
    BY <1>1, <1>3, <1>7, <1>8, <2>1 DEF Accounting
<1>c. Ordered'
  <2>1. PICK f \in Seq(Frames) : f = Carried(sent'[served])
    BY <1>4
  <2>2. Carried(sent[served]) = b \o f
    BY <1>4, <1>6, <2>1
  <2>3. played \in Seq(Frames) /\ accepted' = accepted
    BY <1>1 DEF PlayerOK, clientVars
  <2>4. /\ Upto(b, accepted) /\ Upto(f, accepted) /\ Rising(b) /\ Rising(f) /\ Before(b, f)
        /\ Before(played, b) /\ Before(played, f) /\ Before(Kept, b) /\ Before(Kept, f)
    <3>1. /\ Upto(b \o f, accepted) /\ Rising(b \o f)
          /\ Before(played, b \o f) /\ Before(Kept, b \o f)
      BY <1>1, <1>4, <2>2 DEF Ordered, InFlight
    <3> QED
      BY <3>1, UptoJoined, RisingJoined, BeforeJoined
  <2>5. /\ Upto(played, accepted) /\ Upto(Kept, accepted)
        /\ Rising(played) /\ Rising(Kept) /\ Before(played, Kept)
        /\ \A c \in Client : Upto(Carried(sent[c]), accepted) /\ Rising(Carried(sent[c]))
    BY <1>1 DEF Ordered, InFlight
  <2>6. /\ Upto(Kept', accepted') /\ Rising(Kept') /\ Before(played', Kept')
        /\ Before(played', f) /\ Before(Kept', f)
    <3>1. Upto(Kept \o b, accepted) /\ Rising(Kept \o b)
      BY <1>7, <2>4, <2>5, UptoJoined, RisingJoined
    <3>2. Before(played, Kept \o b) /\ Before(Kept \o b, f)
      BY <1>7, <2>4, <2>5, BeforeJoined
    <3> QED
      BY <1>3, <1>9, <2>3, <2>4, <3>1, <3>2
  <2>7. \A c \in Client : Upto(Carried(sent'[c]), accepted') /\ Rising(Carried(sent'[c]))
    BY <1>4, <2>1, <2>3, <2>4, <2>5
  <2>8. \A c \in Client : served' = c \/ (\E i \in DOMAIN backlog' : backlog'[i] = c) => c = served
    BY <1>3, <1>4
  <2> QED
    BY <1>3, <2>1, <2>3, <2>5, <2>6, <2>7, <2>8 DEF Ordered, InFlight
<1> QED
  BY <1>4, <1>5, <1>a, <1>b, <1>c DEF PcmInv

\* The answer to a query is right when it is given, and the query was the last message.
LEMMA HandleDelayKeeps ==
  ASSUME PcmInv, KeepServing, sent[served] # <<>>, HandleDelay, UNCHANGED clientVars
  PROVE  PcmInv'
<1>1. /\ LinkTypeOK(Message, Nat) /\ ClientOK /\ PlayerOK /\ Ordered /\ TypeOK /\ Accounting
      /\ OneQuery
  BY TypeParts DEF PcmInv
<1>2. /\ player # None /\ Head(sent[served]) = [op |-> "DELA"] /\ served # None
      /\ answer' = [answer EXCEPT ![served] = Append(@, GetDelay(player))]
      /\ Handled /\ UNCHANGED <<player, waveOut, played, beside>>
  BY DEF HandleDelay, KeepServing, Incoming, Reply, playerVars
<1>3. answer \in [Client -> Seq(Nat)] /\ served \in Client /\ answer[served] \in Seq(Nat)
  BY <1>1, <1>2 DEF LinkTypeOK
<1>4. player \in Player /\ Kept = Buffered(player) /\ Kept \in Seq(Frames)
  BY <1>1, <1>2, KeptIs DEF PlayerOK
<1>5. GetDelay(player) = Len(Buffered(player)) /\ GetDelay(player) \in Nat
  BY <1>1, <1>2, <1>4, LenProperties DEF Accounting
<1>6. /\ answer' \in [Client -> Seq(Nat)]
      /\ answer'[served] = Append(answer[served], GetDelay(player))
      /\ \A c \in Client : c # served => answer'[c] = answer[c]
  <2>1. Append(answer[served], GetDelay(player)) \in Seq(Nat)
    BY <1>3, <1>5, AndLast
  <2> QED
    BY <1>2, <1>3, <2>1
<1>7. /\ LinkTypeOK(Message, Nat)' /\ Connected' /\ Standby' /\ ClientOK'
      /\ served' = served /\ served \in Client /\ backlog' = backlog
      /\ sent[served] \in Seq(Message) /\ Head(sent[served]) \in Message
      /\ answer[served] = <<>>
      /\ sent'[served] = Tail(sent[served])
      /\ \A c \in Client : c # served => sent'[c] = sent[c]
      /\ Carried(sent'[served]) \in Seq(Frames)
      /\ Carried(sent[served]) = Payload(Head(sent[served])) \o Carried(sent'[served])
  BY <1>2, <1>6, HandledIs
<1>8. TypeOK' /\ Accounting' /\ Kept' = Kept
  <2>1. PlayerOK'
    BY <1>1, <1>2 DEF PlayerOK
  <2> QED
    BY <1>1, <1>2, <1>7, <2>1, TypeJoined DEF Accounting, Kept
<1>9. Ordered'
  <2>1. Carried(sent'[served]) = Carried(sent[served])
    <3>1. Payload(Head(sent[served])) = <<>>
      BY <1>2 DEF Payload
    <3> QED
      BY <1>7, <3>1, ConcatEmptySeq
  <2>2. \A c \in Client : Carried(sent'[c]) = Carried(sent[c]) \/ Carried(sent'[c]) = <<>>
    BY <1>7, <2>1
  <2>3. \A c \in Client : InLine(c)' => InLine(c)
    BY <1>7 DEF InLine
  <2>4. accepted' \in Nat /\ accepted <= accepted'
    BY <1>1, ClientKept
  <2> QED
    BY <1>1, <1>2, <1>8, <2>2, <2>3, <2>4, OrderedLess
<1>a. answer'[served] = <<GetDelay(player)>>
  BY <1>6, <1>7
<1>b. OneQuery'
  <2>1. sent'[served] = <<>> /\ waiting = served
    <3>1. /\ 1 \in DOMAIN sent[served] /\ sent[served][1] = Head(sent[served])
          /\ Len(Tail(sent[served])) = Len(sent[served]) - 1 /\ Tail(sent[served]) \in Seq(Message)
      BY <1>7, FirstAndRest
    <3>2. waiting = served /\ 1 = Len(sent[served])
      <4>1. sent[served][1].op = "DELA"
        BY <1>2, <3>1
      <4> QED
        BY <1>1, <1>3, <3>1, <4>1 DEF OneQuery
    <3>3. Len(Tail(sent[served])) = 0
      BY <3>1, <3>2
    <3> QED
      BY <1>7, <3>1, <3>2, <3>3, EmptySeq
  <2>2. Len(answer'[served]) = 1
    BY <1>a
  <2>3. waiting' = waiting
    BY DEF clientVars
  <2>4. ASSUME NEW c \in Client
        PROVE  /\ \A i \in DOMAIN sent'[c] : sent'[c][i].op = "DELA" =>
                    waiting' = c /\ i = Len(sent'[c]) /\ answer'[c] = <<>>
               /\ answer'[c] # <<>> => waiting' = c /\ sent'[c] = <<>> /\ Len(answer'[c]) = 1
    <3>1. CASE c = served
      BY <2>1, <2>2, <2>3, <3>1
    <3>2. CASE c # served
      <4>1. sent'[c] = sent[c] /\ answer'[c] = answer[c]
        BY <1>6, <1>7, <3>2
      <4> QED
        BY <1>1, <2>3, <4>1 DEF OneQuery
    <3> QED
      BY <3>1, <3>2
  <2> QED
    BY <2>4 DEF OneQuery
<1>c. DelayCovers'
  <2>1. Head(answer'[served]) = GetDelay(player)
    BY <1>a
  <2>2. Head(answer'[served]) >= Len(Buffered(player))
    BY <1>5, <2>1
  <2> QED
    BY <1>2, <1>7, <2>2 DEF DelayCovers
<1> QED
  BY <1>7, <1>8, <1>9, <1>b, <1>c DEF PcmInv
LEMMA PauseKeeps ==
  ASSUME PcmInv, served # None, sent[served] # <<>>, HandlePause \/ HandleResume,
         UNCHANGED clientVars
  PROVE  PcmInv'
<1>1. Head(sent[served]).op # "PLAY"
  BY DEF HandlePause, HandleResume, Incoming
<1>2. PlayerOK
  BY TypeParts DEF PcmInv
<1>3. CASE waveOut = None
  <2>1. HangupClient
    BY <1>3 DEF HandlePause, HandleResume
  <2> QED
    BY <2>1, HangupKeeps
<1>4. CASE waveOut # None
  <2>1. /\ Handled /\ UNCHANGED <<answer, player, played, beside>>
        /\ waveOut' \in {"playing", "paused", waveOut}
    BY <1>4 DEF HandlePause, HandleResume
  <2>2. waveOut' \in WaveOut \cup {None} /\ waveOut' # None
    BY <1>2, <1>4, <2>1, Constants DEF PlayerOK, WaveOut
  <2>3. /\ Handled /\ player' = player /\ player' \in Player \cup {None}
        /\ UNCHANGED <<answer, played>> /\ beside' \subseteq Frames
    BY <1>2, <2>1 DEF PlayerOK
  <2> QED
    BY <1>1, <2>2, <2>3, QuietKeeps
<1> QED
  BY <1>3, <1>4

LEMMA HandleKeeps ==
  ASSUME PcmInv, Handle, UNCHANGED clientVars
  PROVE  PcmInv'
<1>1. KeepServing /\ served # None /\ sent[served] # <<>>
  BY DEF Handle, KeepServing
<1>2. PlayerOK
  BY TypeParts DEF PcmInv
<1>3. CASE HandleInit
  <2>1. /\ player' = NewPlayer /\ waveOut' = "stopped" /\ Handled /\ UNCHANGED <<answer, played>>
        /\ Head(sent[served]).op # "PLAY"
    BY <1>3 DEF HandleInit, Incoming
  <2>2. waveOut' \in WaveOut /\ waveOut' # None
    BY <2>1, Constants DEF WaveOut
  <2>3. beside' \subseteq Frames
    <3>1. beside' \in {beside, beside \cup ToSet(Buffered(player))} /\ (beside' # beside => player # None)
      BY <1>3 DEF HandleInit
    <3>2. player # None => ToSet(Buffered(player)) \subseteq Frames
      BY <1>2, PlayerIs DEF PlayerOK, ToSet
    <3> QED
      BY <1>2, <3>1, <3>2 DEF PlayerOK
  <2> QED
    BY <1>1, <2>1, <2>2, <2>3, NewPlayerIs, QuietKeeps
<1>4. CASE WithoutPlayer
  BY <1>1, <1>4, HangupKeeps DEF WithoutPlayer
<1>5. CASE HandlePlay
  BY <1>1, <1>5, HandlePlayKeeps
<1>6. CASE HandleDelay
  BY <1>1, <1>6, HandleDelayKeeps
<1>7. CASE HandleDrop
  <2>1. /\ player # None /\ player' = DropFrames(player) /\ Handled
        /\ UNCHANGED <<answer, waveOut, played, beside>> /\ Head(sent[served]).op # "PLAY"
    BY <1>7 DEF HandleDrop, Incoming
  <2>2. /\ player \in Player /\ waveOut \in WaveOut \cup {None} /\ waveOut # None
        /\ beside' \subseteq Frames
    BY <1>2, <2>1 DEF PlayerOK
  <2>3. player' \in Player /\ Buffered(player') = <<>> /\ GetDelay(player') = 0
    BY <2>1, <2>2, DropFramesIs
  <2> QED
    BY <1>1, <2>1, <2>2, <2>3, QuietKeeps
<1>8. CASE HandlePause \/ HandleResume
  BY <1>1, <1>8, PauseKeeps
<1>9. CASE HandleClose
  BY <1>1, <1>9, HangupKeeps DEF HandleClose
<1> QED
  BY <1>3, <1>4, <1>5, <1>6, <1>7, <1>8, <1>9 DEF Handle

LEMMA ServerKeeps ==
  ASSUME PcmInv, Server
  PROVE  PcmInv'
<1>1. CASE Accept /\ UNCHANGED playerVars /\ UNCHANGED clientVars
  BY <1>1, AcceptKeeps
<1>2. CASE PreemptClient /\ UNCHANGED clientVars
  BY <1>2, HangupKeeps DEF PreemptClient
<1>3. CASE Handle /\ UNCHANGED clientVars
  BY <1>3, HandleKeeps
<1> QED
  BY <1>1, <1>2, <1>3 DEF Server
-----------------------------------------------------------------------------
(* The step of Windows: frames move from the player to what was played.    *)

LEMMA WindowsKeeps ==
  ASSUME PcmInv, Windows
  PROVE  PcmInv'
<1>1. /\ LinkTypeOK(Message, Nat) /\ ClientOK /\ PlayerOK /\ Ordered /\ TypeOK /\ Accounting
      /\ OneQuery /\ DelayCovers /\ Connected /\ Standby
  BY TypeParts DEF PcmInv
<1>2. PICK n : n = ReadLen(player, Period)
  OBVIOUS
<1>3. PICK r : r = SubSeq(Buffered(player), 1, n)
  OBVIOUS
<1>4. /\ waveOut = "playing" /\ player # None
      /\ played' = played \o r /\ player' = Read(player, Period)
      /\ waveOut' \in {"stopped", "playing"}
      /\ beside' = beside /\ UNCHANGED <<linkVars, clientVars>>
  BY <1>2, <1>3 DEF Windows, WaveOutReads
<1>5. player \in Player /\ Kept = Buffered(player) /\ Kept \in Seq(Frames)
  BY <1>1, <1>4, KeptIs DEF PlayerOK
<1>6. /\ n \in Nat /\ n <= Len(Buffered(player))
      /\ Read(player, Period) \in Player /\ r \in Seq(Frames) /\ Len(r) = n
      /\ Buffered(player) = r \o Buffered(Read(player, Period))
      /\ GetDelay(Read(player, Period)) = GetDelay(player) - n
  BY <1>2, <1>3, <1>5, Constants, ReadIs
<1>7. PICK k \in Seq(Frames) : k = Buffered(player')
  BY <1>4, <1>6, PlayerIs
<1>8. player' \in Player /\ player' # None /\ Kept' = k /\ Kept = r \o k
  BY <1>4, <1>5, <1>6, <1>7, Constants DEF Kept
<1>9. Len(Kept) = n + Len(k) /\ Len(k) \in Nat
  BY <1>6, <1>7, <1>8, ConcatIs, LenProperties
<1>a. played \in Seq(Frames) /\ played \o r \in Seq(Frames)
  BY <1>1, <1>6, ConcatIs DEF PlayerOK
<1>b. TypeOK'
  <2>1. PlayerOK'
    BY <1>1, <1>4, <1>8, <1>a, Constants DEF PlayerOK, WaveOut
  <2>2. LinkTypeOK(Message, Nat)'
    BY <1>1, <1>4 DEF LinkTypeOK, linkVars
  <2>3. ClientOK'
    BY <1>1, <1>4, ClientKept
  <2> QED
    BY <2>1, <2>2, <2>3, TypeJoined
<1>c. Connected' /\ Standby'
  BY <1>1, <1>4, <1>8 DEF Connected, Standby, linkVars, clientVars
<1>d. Accounting'
  BY <1>1, <1>4, <1>5, <1>6, <1>7, <1>8, <1>9, PlayerIs DEF Accounting
<1>e. Ordered'
  <2>1. /\ Upto(r, accepted) /\ Upto(k, accepted) /\ Rising(r) /\ Rising(k) /\ Before(r, k)
        /\ Before(played, r) /\ Before(played, k)
    <3>1. Upto(r \o k, accepted) /\ Rising(r \o k) /\ Before(played, r \o k)
      BY <1>1, <1>8 DEF Ordered
    <3> QED
      BY <1>6, <3>1, UptoJoined, RisingJoined, BeforeJoined
  <2>2. Upto(played \o r, accepted) /\ Rising(played \o r) /\ Before(played \o r, k)
    BY <1>1, <1>6, <1>a, <2>1, UptoJoined, RisingJoined, BeforeJoined DEF Ordered
  <2>3. ASSUME NEW c \in Client, InLine(c)
        PROVE  Before(played \o r, Carried(sent[c])) /\ Before(k, Carried(sent[c]))
    <3>1. Before(played, Carried(sent[c])) /\ Before(r \o k, Carried(sent[c]))
      BY <1>1, <1>8, <2>3 DEF Ordered, InFlight, InLine
    <3> QED
      BY <1>6, <1>a, <3>1, BeforeJoined
  <2>4. \A c \in Client : Upto(Carried(sent[c]), accepted) /\ Rising(Carried(sent[c]))
    BY <1>1 DEF Ordered, InFlight
  <2>5. sent' = sent /\ served' = served /\ backlog' = backlog /\ accepted' = accepted
    BY <1>4 DEF linkVars, clientVars
  <2> QED
    BY <1>4, <1>8, <2>1, <2>2, <2>3, <2>4, <2>5 DEF Ordered, InFlight, InLine
<1>f. OneQuery'
  BY <1>1, <1>4, OneQueryLess DEF linkVars, clientVars
<1>g. DelayCovers'
  <2> SUFFICES ASSUME NEW c \in Client, answer[c] # <<>>, served = c
               PROVE  Head(answer[c]) >= Len(k)
    BY <1>4, <1>7 DEF DelayCovers, linkVars
  <2>1. Head(answer[c]) >= Len(Kept)
    BY <1>1, <1>4, <1>5 DEF DelayCovers
  <2>2. answer[c] \in Seq(Nat)
    BY <1>1 DEF LinkTypeOK
  <2>3. Head(answer[c]) \in Nat
    BY <2>2, FirstAndRest
  <2> QED
    BY <1>6, <1>9, <2>1, <2>3
<1> QED
  BY <1>b, <1>c, <1>d, <1>e, <1>f, <1>g DEF PcmInv
-----------------------------------------------------------------------------
(* The steps of the programs and the agent.                                *)

\* When the agent does not wait, no query and no answer is under way.
LEMMA NoQueries ==
  ASSUME PcmInv, waiting = None
  PROVE  \A c \in Client : /\ answer[c] = <<>>
                           /\ \A i \in DOMAIN sent[c] : sent[c][i].op # "DELA"
BY Constants DEF PcmInv, OneQuery

LEMMA IoctlIs ==
  ASSUME ClientOK, NEW c \in Client, NEW phases, NEW next, Ioctl(c, phases, next),
         next \in {"closed", "open", "setup", "running", "paused", "drained", "freed"}
  PROVE  /\ alive /\ waiting = None /\ phase[c] \in phases
         /\ phase' \in [Client -> {"closed", "open", "setup", "running", "paused", "drained", "freed"}]
         /\ phase'[c] = next /\ \A d \in Client : d # c => phase'[d] = phase[d]
BY DEF ClientOK, Ioctl

\* A message is sent: what that changes of the connections.
LEMMA PostedIs ==
  ASSUME PcmInv, waiting = None, NEW c \in Client, phase[c] # "closed", NEW m \in Message,
         Post(c, <<m>>), UNCHANGED <<alive, opened, backlog, served, cut, answer>>
  PROVE  /\ LinkTypeOK(Message, Nat)' /\ Connected'
         /\ sent[c] \in Seq(Message)
         /\ \/ sent'[c] = sent[c] /\ c \in cut
            \/ sent'[c] = Append(sent[c], m) /\ c \notin cut
         /\ \A d \in Client : d # c => sent'[d] = sent[d]
         /\ Payload(m) \in Seq(Frames) /\ Carried(sent[c]) \in Seq(Frames)
         /\ \/ Carried(sent'[c]) = Carried(sent[c])
            \/ Carried(sent'[c]) = Carried(sent[c]) \o Payload(m)
<1>1. LinkTypeOK(Message, Nat) /\ Connected /\ Standby
  BY TypeParts DEF PcmInv
<1>2. opened[c]
  BY <1>1 DEF Standby
<1>3. /\ LinkTypeOK(Message, Nat)' /\ Connected'
      /\ c \in cut => sent' = sent
      /\ c \notin cut => sent'[c] = Append(sent[c], m)
      /\ \A d \in Client : d # c => sent'[d] = sent[d]
  BY <1>1, <1>2, ConnectedPost
<1>4. sent[c] \in Seq(Message)
  BY <1>1 DEF LinkTypeOK
<1>5. /\ Payload(m) \in Seq(Frames) /\ Carried(sent[c]) \in Seq(Frames)
      /\ Carried(Append(sent[c], m)) = Carried(sent[c]) \o Payload(m)
  BY <1>4, CarriedLast
<1> QED
  BY <1>3, <1>4, <1>5

LEMMA OneQueryPosted ==
  ASSUME PcmInv, waiting = None, NEW c \in Client, phase[c] # "closed", NEW m \in Message,
         Post(c, <<m>>), UNCHANGED <<alive, opened, backlog, served, cut, answer>>,
         m.op = "DELA" => waiting' = c
  PROVE  OneQuery' /\ DelayCovers'
<1>1. \A d \in Client : /\ answer[d] = <<>>
                        /\ \A i \in DOMAIN sent[d] : sent[d][i].op # "DELA"
  BY NoQueries
<1>2. /\ sent[c] \in Seq(Message)
      /\ sent'[c] = sent[c] \/ sent'[c] = Append(sent[c], m)
      /\ \A d \in Client : d # c => sent'[d] = sent[d]
  BY PostedIs
<1>3. /\ Len(sent[c]) \in Nat /\ Len(Append(sent[c], m)) = Len(sent[c]) + 1
      /\ \A i \in DOMAIN Append(sent[c], m) :
           \/ i \in DOMAIN sent[c] /\ Append(sent[c], m)[i] = sent[c][i]
           \/ i = Len(sent[c]) + 1 /\ Append(sent[c], m)[i] = m
  BY <1>2, AndLast
<1>4. \A i \in DOMAIN sent'[c] : sent'[c][i].op = "DELA" => waiting' = c /\ i = Len(sent'[c])
  <2>1. CASE sent'[c] = sent[c]
    BY <1>1, <2>1
  <2>2. CASE sent'[c] = Append(sent[c], m)
    <3>1. PICK s : s = Append(sent[c], m)
      OBVIOUS
    <3>2. \A i \in DOMAIN s : s[i].op = "DELA" => waiting' = c /\ i = Len(s)
      BY <1>1, <1>3, <3>1
    <3> QED
      BY <2>2, <3>1, <3>2
  <2> QED
    BY <1>2, <2>1, <2>2
<1>5. OneQuery'
  BY <1>1, <1>2, <1>4 DEF OneQuery
<1>6. DelayCovers'
  BY <1>1 DEF DelayCovers
<1> QED
  BY <1>5, <1>6

\* The requests that carry no frames.
LEMMA PlainPostKeeps ==
  ASSUME PcmInv, waiting = None, NEW c \in Client, phase[c] # "closed", NEW m \in Message,
         Post(c, <<m>>), UNCHANGED <<alive, opened, backlog, served, cut, answer, accepted, playerVars>>,
         m.op # "PLAY", m.op = "DELA" => waiting' = c,
         ClientOK', phase'[c] # "closed", \A d \in Client : d # c => phase'[d] = phase[d]
  PROVE  PcmInv'
<1>1. TypeOK /\ ClientOK /\ PlayerOK /\ Ordered /\ Standby /\ Accounting
  BY TypeParts DEF PcmInv
<1>2. UNCHANGED <<player, waveOut, played, beside>>
  BY DEF playerVars
<1>3. /\ LinkTypeOK(Message, Nat)' /\ Connected'
      /\ \A d \in Client : d # c => sent'[d] = sent[d]
      /\ Carried(sent[c]) \in Seq(Frames)
      /\ \/ Carried(sent'[c]) = Carried(sent[c])
         \/ Carried(sent'[c]) = Carried(sent[c]) \o Payload(m)
  BY PostedIs
<1>4. Payload(m) = <<>>
  BY PayloadIs
<1>5. TypeOK'
  <2>1. PlayerOK'
    BY <1>1, <1>2 DEF PlayerOK
  <2> QED
    BY <1>3, <2>1, TypeJoined
<1>6. Standby'
  BY <1>1, <1>2 DEF Standby
<1>7. Accounting' /\ Kept' = Kept
  BY <1>1, <1>2 DEF Accounting, Kept
<1>8. Ordered'
  <2>1. \A d \in Client : Carried(sent'[d]) = Carried(sent[d])
    BY <1>3, <1>4, ConcatEmptySeq
  <2>2. \A d \in Client : InLine(d)' => InLine(d)
    BY DEF InLine
  <2>3. accepted' \in Nat /\ accepted <= accepted'
    BY <1>1, Constants DEF ClientOK
  <2> QED
    BY <1>1, <1>2, <1>7, <2>1, <2>2, <2>3, OrderedLess
<1>9. OneQuery' /\ DelayCovers'
  BY OneQueryPosted
<1> QED
  BY <1>3, <1>5, <1>6, <1>7, <1>8, <1>9 DEF PcmInv

LEMMA PlainRequests ==
  \A op \in {"INIT", "DELA", "DROP", "PAUS", "RESU", "CLOS"} : [op |-> op] \in Message
BY DEF Message

LEMMA RequestsKeep ==
  ASSUME PcmInv, NEW c \in Client, UNCHANGED playerVars,
         HwParams(c) \/ Drop(c) \/ HwFree(c) \/ Pause(c) \/ Unpause(c) \/ Resume(c)
  PROVE  PcmInv'
<1>1. ClientOK
  BY TypeParts DEF PcmInv
<1>2. PICK op \in {"INIT", "DROP", "CLOS", "PAUS", "RESU"}, next \in {"setup", "freed", "paused", "running"} :
        /\ \E phases : Ioctl(c, phases, next) /\ "closed" \notin phases
        /\ Request(c, [op |-> op])
        /\ accepted' = accepted /\ excused' \in {excused, accepted}
        /\ \/ state' = state
           \/ \E s \in {"SUSPENDED", "RUNNING"} : state' = [state EXCEPT ![c] = s]
  <2>1. CASE HwParams(c)
    BY <2>1 DEF HwParams
  <2>2. CASE Drop(c)
    BY <2>2 DEF Drop
  <2>3. CASE HwFree(c)
    BY <2>3 DEF HwFree
  <2>4. CASE Pause(c)
    BY <2>4 DEF Pause, PauseRequest
  <2>5. CASE Unpause(c)
    BY <2>5 DEF Unpause, PauseRequest
  <2>6. CASE Resume(c)
    BY <2>6 DEF Resume
  <2> QED
    BY <2>1, <2>2, <2>3, <2>4, <2>5, <2>6
<1>3. /\ waiting = None /\ phase[c] # "closed" /\ phase'[c] # "closed"
      /\ phase' \in [Client -> {"closed", "open", "setup", "running", "paused", "drained", "freed"}]
      /\ \A d \in Client : d # c => phase'[d] = phase[d]
  BY <1>1, <1>2, IoctlIs
<1>4. /\ Post(c, <<[op |-> op]>>)
      /\ UNCHANGED <<alive, opened, backlog, served, cut, answer, waiting>>
  BY <1>2 DEF Request
<1>5. ClientOK'
  BY <1>1, <1>2, <1>3, <1>4, Constants DEF ClientOK
<1>6. [op |-> op] \in Message /\ [op |-> op].op # "PLAY" /\ [op |-> op].op # "DELA"
  BY PlainRequests
<1> QED
  BY <1>2, <1>3, <1>4, <1>5, <1>6, PlainPostKeeps
LEMMA BeginQueryKeeps ==
  ASSUME PcmInv, NEW c \in Client, UNCHANGED playerVars, BeginQuery(c)
  PROVE  PcmInv'
<1>1. ClientOK
  BY TypeParts DEF PcmInv
<1>2. /\ waiting = None /\ phase[c] \in {"open", "setup", "running"} /\ phase' = [phase EXCEPT ![c] = phase[c]]
      /\ Post(c, <<[op |-> "DELA"]>>) /\ waiting' = c
      /\ UNCHANGED <<alive, opened, backlog, served, cut, answer, state, accepted, excused>>
  BY DEF BeginQuery, Ioctl
<1>3. phase' = phase /\ phase[c] # "closed"
  BY <1>1, <1>2 DEF ClientOK
<1>4. ClientOK'
  BY <1>1, <1>2, <1>3 DEF ClientOK
<1>5. [op |-> "DELA"] \in Message /\ [op |-> "DELA"].op # "PLAY"
  BY PlainRequests
<1> QED
  BY <1>2, <1>3, <1>4, <1>5, PlainPostKeeps

\* The frames that are written come after all that were accepted before.
LEMMA WriteFramesKeeps ==
  ASSUME PcmInv, NEW c \in Client, UNCHANGED playerVars, WriteFrames(c)
  PROVE  PcmInv'
<1>1. TypeOK /\ ClientOK /\ PlayerOK /\ Ordered /\ Standby /\ Accounting
  BY TypeParts DEF PcmInv
<1>2. PICK n \in 1..(MaxFrames - accepted) :
        /\ Request(c, [op |-> "PLAY", buffer |-> [i \in 1..n |-> accepted + i]])
        /\ accepted' = accepted + n
  BY DEF WriteFrames
<1>3. PICK b : b = [i \in 1..n |-> accepted + i]
  OBVIOUS
<1>4. PICK m : m = [op |-> "PLAY", buffer |-> b]
  OBVIOUS
<1>5. accepted \in Nat /\ MaxFrames \in Nat /\ n \in Nat /\ accepted + n <= MaxFrames
      /\ excused \in 0..accepted
  BY <1>1, Constants DEF ClientOK
<1>6. b \in Seq(Frames) /\ DOMAIN b = 1..n /\ \A i \in DOMAIN b : b[i] = accepted + i
  <2>1. \A i \in 1..n : accepted + i \in Frames
    BY <1>5 DEF Frames
  <2>2. [i \in 1..n |-> accepted + i] \in Seq(Frames)
    BY <1>5, <2>1, IsASeq
  <2> QED
    BY <1>3, <2>2
<1>7. m \in Message /\ m.op = "PLAY" /\ Payload(m) = b
  <2>1. m \in Message /\ m.op = "PLAY" /\ m.buffer = b
    BY <1>4, <1>6 DEF Message
  <2> QED
    BY <2>1, PayloadIs
<1>8. /\ waiting = None /\ phase[c] # "closed" /\ phase'[c] = "running"
      /\ phase' \in [Client -> {"closed", "open", "setup", "running", "paused", "drained", "freed"}]
      /\ \A d \in Client : d # c => phase'[d] = phase[d]
  <2>1. Ioctl(c, {"setup", "running", "drained"}, "running")
    BY DEF WriteFrames
  <2> QED
    BY <1>1, <2>1, IoctlIs
<1>9. /\ Post(c, <<m>>) /\ UNCHANGED <<alive, opened, backlog, served, cut, answer, waiting>>
      /\ state' = [state EXCEPT ![c] = "RUNNING"] /\ excused' = excused
      /\ UNCHANGED <<player, waveOut, played, beside>>
  BY <1>2, <1>3, <1>4 DEF Request, WriteFrames, playerVars
<1>a. ClientOK'
  <2>1. accepted' \in 0..MaxFrames /\ excused' \in 0..accepted'
    BY <1>2, <1>5, <1>9
  <2>2. state' \in [Client -> {"OPEN", "PREPARED", "RUNNING", "SUSPENDED"}]
    BY <1>1, <1>9 DEF ClientOK
  <2> QED
    BY <1>1, <1>8, <1>9, <2>1, <2>2 DEF ClientOK
<1>b. /\ LinkTypeOK(Message, Nat)' /\ Connected'
      /\ \A d \in Client : d # c => sent'[d] = sent[d]
      /\ Carried(sent[c]) \in Seq(Frames)
      /\ \/ Carried(sent'[c]) = Carried(sent[c])
         \/ Carried(sent'[c]) = Carried(sent[c]) \o b
  BY <1>7, <1>8, <1>9, PostedIs
<1>c. OneQuery' /\ DelayCovers'
  BY <1>7, <1>8, <1>9, OneQueryPosted
<1>d. TypeOK'
  <2>1. PlayerOK'
    BY <1>1, <1>9 DEF PlayerOK
  <2> QED
    BY <1>a, <1>b, <2>1, TypeJoined
<1>e. Standby'
  BY <1>1, <1>8, <1>9 DEF Standby
<1>f. Accounting' /\ Kept' = Kept
  BY <1>1, <1>9 DEF Accounting, Kept
<1>g. Ordered'
  <2>1. /\ played \in Seq(Frames) /\ Kept \in Seq(Frames)
        /\ \A d \in Client : Carried(sent[d]) \in Seq(Frames)
    <3>1. \A d \in Client : sent[d] \in Seq(Message)
      BY <1>1 DEF TypeOK, LinkTypeOK
    <3> QED
      BY <1>1, <3>1, KeptIs, CarriedIs DEF PlayerOK
  <2>2. /\ Upto(played, accepted) /\ Upto(Kept, accepted)
        /\ Rising(played) /\ Rising(Kept) /\ Before(played, Kept)
        /\ \A d \in Client : Upto(Carried(sent[d]), accepted) /\ Rising(Carried(sent[d]))
        /\ \A d \in Client :
             InLine(d) => Before(played, Carried(sent[d])) /\ Before(Kept, Carried(sent[d]))
    BY <1>1 DEF Ordered, InFlight, InLine
  <2>3. accepted' \in Nat /\ accepted <= accepted'
    BY <1>2, <1>5
  <2>4. Upto(b, accepted') /\ Rising(b) /\ \A j \in DOMAIN b : accepted < b[j]
    BY <1>2, <1>5, <1>6 DEF Upto, Rising
  <2>5. Upto(played, accepted') /\ Upto(Kept, accepted')
        /\ \A d \in Client : Upto(Carried(sent[d]), accepted')
    BY <1>5, <2>1, <2>2, <2>3, UptoMore
  <2>6. Before(played, b) /\ Before(Kept, b) /\ Before(Carried(sent[c]), b)
    BY <1>5, <1>6, <2>1, <2>2, <2>4, UptoBefore
  <2>7. PICK f \in Seq(Frames) : f = Carried(sent[c])
    BY <2>1
  <2>8. /\ Upto(f \o b, accepted') /\ Rising(f \o b)
        /\ InLine(c) => Before(played, f \o b) /\ Before(Kept, f \o b)
    <3>1. /\ Upto(f, accepted') /\ Rising(f) /\ Before(f, b)
          /\ InLine(c) => Before(played, f) /\ Before(Kept, f)
      BY <2>2, <2>5, <2>6, <2>7
    <3> QED
      BY <1>6, <2>4, <2>6, <3>1, UptoJoined, RisingJoined, BeforeJoined
  <2>9. ASSUME NEW d \in Client
        PROVE  /\ Upto(Carried(sent'[d]), accepted') /\ Rising(Carried(sent'[d]))
               /\ InLine(d) => Before(played, Carried(sent'[d])) /\ Before(Kept, Carried(sent'[d]))
    <3>1. CASE d # c \/ Carried(sent'[c]) = Carried(sent[c])
      <4>1. Carried(sent'[d]) = Carried(sent[d])
        BY <1>b, <3>1
      <4> QED
        BY <2>2, <2>5, <4>1
    <3>2. CASE d = c /\ Carried(sent'[c]) = Carried(sent[c]) \o b
      <4>1. Carried(sent'[d]) = f \o b
        BY <2>7, <3>2
      <4> QED
        BY <2>8, <3>2, <4>1
    <3> QED
      BY <1>b, <3>1, <3>2
  <2> QED
    BY <1>9, <1>f, <2>2, <2>5, <2>9 DEF Ordered, InFlight, InLine
<1> QED
  BY <1>b, <1>c, <1>d, <1>e, <1>f, <1>g DEF PcmInv

LEMMA InfoKeeps ==
  ASSUME PcmInv, NEW c \in Client, UNCHANGED playerVars, Info(c)
  PROVE  PcmInv'
<1>1. /\ LinkTypeOK(Message, Nat) /\ TypeOK /\ ClientOK /\ PlayerOK /\ Ordered /\ Standby
      /\ Accounting /\ Connected /\ OneQuery /\ DelayCovers
  BY TypeParts DEF PcmInv
<1>2. /\ Open(c) /\ UNCHANGED <<player, waveOut, played, beside>>
      /\ UNCHANGED <<alive, served, cut, reset, sent, answer, state, waiting, accepted, excused>>
  BY DEF Info, playerVars
<1>3. /\ phase[c] = "closed" /\ phase'[c] = "open"
      /\ phase' \in [Client -> {"closed", "open", "setup", "running", "paused", "drained", "freed"}]
      /\ \A d \in Client : d # c => phase'[d] = phase[d]
  BY <1>1, IoctlIs DEF Info
<1>4. ~ opened[c] /\ sent[c] = <<>>
  BY <1>1, <1>3 DEF Standby, Connected
<1>5. Connected' /\ opened' \in [Client -> BOOLEAN] /\ backlog' \in Seq(Client)
  BY <1>1, <1>2, Constants, ConnectedOpen
<1>6. opened'[c] /\ \A d \in Client : d # c => opened'[d] = opened[d]
  BY <1>1, <1>2 DEF Open, LinkTypeOK
<1>7. TypeOK'
  <2>1. LinkTypeOK(Message, Nat)'
    BY <1>1, <1>2, <1>5 DEF LinkTypeOK
  <2>2. ClientOK' /\ PlayerOK'
    BY <1>1, <1>2, <1>3 DEF ClientOK, PlayerOK
  <2> QED
    BY <2>1, <2>2, TypeJoined
<1>8. Standby'
  BY <1>1, <1>2, <1>3, <1>6 DEF Standby
<1>9. Accounting' /\ Kept' = Kept
  BY <1>1, <1>2 DEF Accounting, Kept
<1>a. Ordered'
  <2>1. ASSUME NEW d \in Client, InLine(d)'
        PROVE  InLine(d) \/ Carried(sent'[d]) = <<>>
    <3>1. CASE d = c
      BY <1>2, <1>4, <3>1, CarriedNone
    <3>2. CASE d # c
      <4>1. backlog' = Append(backlog, c) /\ backlog \in Seq(Client)
        BY <1>1, <1>2, <1>4 DEF Open, LinkTypeOK
      <4>2. \A i \in DOMAIN backlog' : backlog'[i] # c =>
              i \in DOMAIN backlog /\ backlog'[i] = backlog[i]
        BY <4>1, AndLast
      <4> QED
        BY <1>2, <2>1, <3>2, <4>2 DEF InLine
    <3> QED
      BY <3>1, <3>2
  <2>2. accepted' \in Nat /\ accepted <= accepted'
    BY <1>1, <1>2, Constants DEF ClientOK
  <2> QED
    BY <1>1, <1>2, <1>9, <2>1, <2>2, OrderedLess
<1>b. OneQuery' /\ DelayCovers'
  BY <1>1, <1>2, OneQueryLess, DelayLess
<1> QED
  BY <1>5, <1>7, <1>8, <1>9, <1>a, <1>b DEF PcmInv

\* Steps that only the program, or the end of the agent, is about.
LEMMA AsideKeeps ==
  ASSUME PcmInv, UNCHANGED <<playerVars, opened, backlog, served, cut, reset, sent, waiting, accepted, answer>>,
         ClientOK', alive' \in BOOLEAN,
         \A c \in Client : phase'[c] = "closed" <=> phase[c] = "closed"
  PROVE  PcmInv'
<1>1. /\ LinkTypeOK(Message, Nat) /\ TypeOK /\ ClientOK /\ PlayerOK /\ Ordered /\ Standby
      /\ Accounting /\ Connected /\ OneQuery /\ DelayCovers
  BY TypeParts DEF PcmInv
<1>2. UNCHANGED <<player, waveOut, played, beside>>
  BY DEF playerVars
<1>3. TypeOK'
  <2>1. LinkTypeOK(Message, Nat)' /\ PlayerOK'
    BY <1>1, <1>2 DEF LinkTypeOK, PlayerOK
  <2> QED
    BY <2>1, TypeJoined
<1>4. Connected' /\ Standby'
  BY <1>1, <1>2 DEF Connected, Standby
<1>5. Accounting' /\ Kept' = Kept
  BY <1>1, <1>2 DEF Accounting, Kept
<1>6. Ordered'
  <2>1. \A d \in Client : InLine(d)' => InLine(d)
    BY DEF InLine
  <2>2. accepted' \in Nat /\ accepted <= accepted'
    BY <1>1, Constants DEF ClientOK
  <2> QED
    BY <1>1, <1>2, <1>5, <2>1, <2>2, OrderedLess
<1>7. OneQuery' /\ DelayCovers'
  BY <1>1, <1>2, OneQueryLess, DelayLess
<1> QED
  BY <1>3, <1>4, <1>5, <1>6, <1>7 DEF PcmInv
LEMMA EndQueryKeeps ==
  ASSUME PcmInv, UNCHANGED playerVars, EndQuery
  PROVE  PcmInv'
<1>1. /\ LinkTypeOK(Message, Nat) /\ TypeOK /\ ClientOK /\ PlayerOK /\ Ordered /\ Standby
      /\ Accounting /\ Connected /\ OneQuery /\ DelayCovers
  BY TypeParts DEF PcmInv
<1>2. /\ waiting # None /\ waiting' = None /\ UNCHANGED <<player, waveOut, played, beside>>
      /\ UNCHANGED <<alive, opened, backlog, served, cut, reset, sent, phase, state, accepted, excused>>
      /\ \/ /\ answer[waiting] # <<>>
            /\ answer' = [answer EXCEPT ![waiting] = Tail(@)]
         \/ answer[waiting] = <<>> /\ waiting \in cut /\ UNCHANGED answer
  BY DEF EndQuery, playerVars
<1>3. waiting \in Client /\ answer \in [Client -> Seq(Nat)] /\ answer[waiting] \in Seq(Nat)
  BY <1>1, <1>2 DEF ClientOK, LinkTypeOK
<1>4. /\ answer' \in [Client -> Seq(Nat)] /\ answer'[waiting] = <<>>
      /\ \A c \in Client : c # waiting => answer'[c] = answer[c]
      /\ sent[waiting] = <<>>
  <2>1. CASE answer[waiting] # <<>>
    <3>1. Tail(answer[waiting]) \in Seq(Nat) /\ Len(Tail(answer[waiting])) = Len(answer[waiting]) - 1
      BY <1>3, <2>1, FirstAndRest
    <3>2. Len(answer[waiting]) = 1 /\ sent[waiting] = <<>>
      BY <1>1, <1>3, <2>1 DEF OneQuery
    <3>3. Tail(answer[waiting]) = <<>>
      <4>1. Len(Tail(answer[waiting])) = 0
        BY <3>1, <3>2
      <4> QED
        BY <3>1, <4>1, EmptySeq
    <3>4. PICK t \in Seq(Nat) : t = <<>> /\ answer' = [answer EXCEPT ![waiting] = t]
      <4>1. answer' = [answer EXCEPT ![waiting] = Tail(answer[waiting])]
        BY <1>2, <2>1
      <4> QED
        BY <3>1, <3>3, <4>1
    <3>5. answer' \in [Client -> Seq(Nat)]
      BY <1>3, <3>4, Zenon
    <3>6. answer'[waiting] = t /\ \A c \in Client : c # waiting => answer'[c] = answer[c]
      BY <1>3, <3>4, Zenon
    <3> QED
      BY <3>2, <3>4, <3>5, <3>6, Zenon
  <2>2. CASE answer[waiting] = <<>>
    BY <1>1, <1>2, <1>3, <2>2 DEF Connected
  <2> QED
    BY <2>1, <2>2
<1>5. \A c \in Client : answer'[c] = answer[c] \/ answer'[c] = <<>>
  BY <1>4
<1>6. TypeOK'
  <2>1. LinkTypeOK(Message, Nat)' /\ PlayerOK' /\ ClientOK'
    BY <1>1, <1>2, <1>4 DEF LinkTypeOK, PlayerOK, ClientOK
  <2> QED
    BY <2>1, TypeJoined
<1>7. Connected' /\ Standby'
  BY <1>1, <1>2, <1>5 DEF Connected, Standby
<1>8. Accounting' /\ Kept' = Kept
  BY <1>1, <1>2 DEF Accounting, Kept
<1>9. Ordered'
  <2>1. \A d \in Client : InLine(d)' => InLine(d)
    BY <1>2 DEF InLine
  <2>2. accepted' \in Nat /\ accepted <= accepted'
    BY <1>1, <1>2, Constants DEF ClientOK
  <2> QED
    BY <1>1, <1>2, <1>8, <2>1, <2>2, OrderedLess
<1>a. OneQuery'
  <2> SUFFICES ASSUME NEW c \in Client
               PROVE  /\ \A i \in DOMAIN sent[c] : sent[c][i].op # "DELA"
                      /\ answer'[c] = <<>>
    BY <1>2 DEF OneQuery
  <2>1. CASE c = waiting
    BY <1>4, <2>1
  <2>2. CASE c # waiting
    BY <1>1, <1>4, <2>2 DEF OneQuery
  <2> QED
    BY <2>1, <2>2
<1>b. DelayCovers'
  BY <1>1, <1>2, <1>5, DelayLess
<1> QED
  BY <1>6, <1>7, <1>8, <1>9, <1>a, <1>b DEF PcmInv

LEMMA AgentKeeps ==
  ASSUME PcmInv, Agent
  PROVE  PcmInv'
<1>1. ClientOK /\ TypeOK
  BY TypeParts DEF PcmInv
<1>2. UNCHANGED playerVars
  BY DEF Agent
<1>3. ASSUME NEW c \in Client, HwParams(c) \/ Drop(c) \/ HwFree(c) \/ Pause(c) \/ Unpause(c) \/ Resume(c)
      PROVE  PcmInv'
  BY <1>2, <1>3, RequestsKeep
<1>4. ASSUME NEW c \in Client, Prepare(c)
      PROVE  PcmInv'
  <2>1. /\ Ioctl(c, {"setup"}, "setup") /\ state' = [state EXCEPT ![c] = "PREPARED"]
        /\ UNCHANGED <<linkVars, waiting, accepted, excused>>
    BY <1>4 DEF Prepare
  <2>2. /\ phase[c] = "setup" /\ phase'[c] = "setup" /\ \A d \in Client : d # c => phase'[d] = phase[d]
        /\ phase' \in [Client -> {"closed", "open", "setup", "running", "paused", "drained", "freed"}]
    BY <1>1, <2>1, IoctlIs
  <2>3. ClientOK'
    BY <1>1, <2>1, <2>2 DEF ClientOK
  <2>4. /\ UNCHANGED <<playerVars, opened, backlog, served, cut, reset, sent, waiting, accepted, answer>>
        /\ alive' \in BOOLEAN
    BY <1>1, <1>2, <2>1 DEF linkVars, TypeOK, LinkTypeOK
  <2> QED
    BY <2>2, <2>3, <2>4, AsideKeeps
<1>5. ASSUME NEW c \in Client, Drain(c)
      PROVE  PcmInv'
  <2>1. /\ Ioctl(c, {"running"}, "drained")
        /\ UNCHANGED <<linkVars, state, waiting, accepted, excused>>
    BY <1>5 DEF Drain
  <2>2. /\ phase[c] = "running" /\ phase'[c] = "drained" /\ \A d \in Client : d # c => phase'[d] = phase[d]
        /\ phase' \in [Client -> {"closed", "open", "setup", "running", "paused", "drained", "freed"}]
    BY <1>1, <2>1, IoctlIs
  <2>3. ClientOK'
    BY <1>1, <2>1, <2>2 DEF ClientOK
  <2>4. /\ UNCHANGED <<playerVars, opened, backlog, served, cut, reset, sent, waiting, accepted, answer>>
        /\ alive' \in BOOLEAN
    BY <1>1, <1>2, <2>1 DEF linkVars, TypeOK, LinkTypeOK
  <2> QED
    BY <2>2, <2>3, <2>4, AsideKeeps
<1>9. ASSUME NEW c \in Client, InfoFails(c)
      PROVE  PcmInv'
  <2>1. /\ phase[c] = "closed" /\ phase'[c] = "closed" /\ \A d \in Client : d # c => phase'[d] = phase[d]
        /\ phase' \in [Client -> {"closed", "open", "setup", "running", "paused", "drained", "freed"}]
    BY <1>1, <1>9, IoctlIs DEF InfoFails
  <2>2. UNCHANGED <<linkVars, state, waiting, accepted, excused>>
    BY <1>9 DEF InfoFails, OpenFails
  <2>3. ClientOK'
    BY <1>1, <2>1, <2>2 DEF ClientOK
  <2>4. /\ UNCHANGED <<playerVars, opened, backlog, served, cut, reset, sent, waiting, accepted, answer>>
        /\ alive' \in BOOLEAN
    BY <1>1, <1>2, <2>2 DEF linkVars, TypeOK, LinkTypeOK
  <2> QED
    BY <2>1, <2>3, <2>4, AsideKeeps
<1>6. CASE Killed
  <2>1. /\ alive' = FALSE /\ UNCHANGED <<opened, backlog, served, cut, reset, sent, answer>>
        /\ UNCHANGED clientVars
    BY <1>6 DEF Killed, SigPipe
  <2>2. ClientOK' /\ UNCHANGED <<phase, waiting, accepted>>
    BY <1>1, <2>1, ClientKept DEF clientVars
  <2> QED
    BY <1>2, <2>1, <2>2, AsideKeeps
<1>7. ASSUME NEW c \in Client, Info(c) \/ WriteFrames(c) \/ BeginQuery(c)
      PROVE  PcmInv'
  BY <1>2, <1>7, InfoKeeps, WriteFramesKeeps, BeginQueryKeeps
<1>8. CASE EndQuery
  BY <1>2, <1>8, EndQueryKeeps
<1> QED
  BY <1>3, <1>4, <1>5, <1>6, <1>7, <1>8, <1>9 DEF Agent
-----------------------------------------------------------------------------
(* The theorems.                                                           *)

LEMMA InitPcm == Init => PcmInv
<1> SUFFICES ASSUME Init
             PROVE  PcmInv
  OBVIOUS
<1>1. /\ alive = TRUE /\ opened = [c \in Client |-> FALSE] /\ backlog = <<>> /\ served = None
      /\ cut = {} /\ reset = {} /\ sent = [c \in Client |-> <<>>] /\ answer = [c \in Client |-> <<>>]
      /\ phase = [c \in Client |-> "closed"] /\ state = [c \in Client |-> "OPEN"]
      /\ waiting = None /\ accepted = 0 /\ excused = 0
      /\ player = None /\ waveOut = None /\ played = <<>> /\ beside = {}
  BY DEF Init, LinkInit
<1>2. /\ <<>> \in Seq(Message) /\ <<>> \in Seq(Nat) /\ <<>> \in Seq(Client) /\ <<>> \in Seq(Frames)
      /\ DOMAIN <<>> = {}
  OBVIOUS
<1>3. TypeOK
  BY <1>1, <1>2, Constants DEF TypeOK, LinkTypeOK
<1>4. Connected /\ Standby /\ Accounting /\ DelayCovers
  BY <1>1, <1>2 DEF Connected, Standby, Accounting, DelayCovers
<1>5. OneQuery
  BY <1>1, <1>2 DEF OneQuery
<1>6. Ordered
  BY <1>1, <1>2, NoFrames, CarriedNone DEF Ordered, InFlight, Kept
<1> QED
  BY <1>3, <1>4, <1>5, <1>6 DEF PcmInv

LEMMA NextPcm == PcmInv /\ [Next]_vars => PcmInv'
<1>1. ASSUME PcmInv, UNCHANGED vars
      PROVE  PcmInv'
  <2>1. /\ UNCHANGED <<playerVars, opened, backlog, served, cut, reset, sent, waiting, accepted, answer>>
        /\ UNCHANGED <<alive, phase, state, excused>> /\ UNCHANGED clientVars
    BY <1>1 DEF vars, linkVars, clientVars
  <2>2. ClientOK /\ TypeOK
    BY <1>1, TypeParts DEF PcmInv
  <2>3. ClientOK' /\ alive' \in BOOLEAN
    BY <2>1, <2>2, ClientKept DEF TypeOK, LinkTypeOK
  <2> QED
    BY <1>1, <2>1, <2>3, AsideKeeps
<1> QED
  BY <1>1, ServerKeeps, WindowsKeeps, AgentKeeps DEF Next

\* The invariant holds whatever the programs do besides, of any number of programs.
THEOREM InvariantHolds == Spec => []PcmInv
<1>1. Init => PcmInv
  BY InitPcm
<1>2. PcmInv /\ [Next]_vars => PcmInv'
  BY NextPcm
<1> QED
  BY <1>1, <1>2, PTL DEF Spec

\* TypeOK always holds: the state has the types it is documented to have.
THEOREM TypeCorrect == Spec => []TypeOK
<1>1. PcmInv => TypeOK
  BY DEF PcmInv
<1> QED
  BY <1>1, InvariantHolds, PTL

\* Accounting always holds: the delay that the counters of AlsaPlayer give is the number of
\* frames in its buffers, through Write, Read, DropFrames and a new player.
THEOREM AccountingHolds == Spec => []Accounting
<1>1. PcmInv => Accounting
  BY DEF PcmInv
<1> QED
  BY <1>1, InvariantHolds, PTL

\* DelayCovers always holds: the delay of an answer that is on its way is at least what the
\* player has left when it arrives.
THEOREM DelayCoversHolds == Spec => []DelayCovers
<1>1. PcmInv => DelayCovers
  BY DEF PcmInv
<1> QED
  BY <1>1, InvariantHolds, PTL
-----------------------------------------------------------------------------
(* Programs that do not drain: no WaveOut plays beside the one in use.     *)

LEMMA ToSetIs ==
  ASSUME NEW s \in Seq(Frames), NEW t \in Seq(Frames)
  PROVE  ToSet(s \o t) = ToSet(s) \cup ToSet(t)
<1>1. PICK u : u = s \o t
  OBVIOUS
<1>2. Joins(s, t, u)
  BY <1>1, Joined
<1>3. ToSet(u) = ToSet(s) \cup ToSet(t)
  BY <1>2 DEF ToSet, Joins
<1> QED
  BY <1>1, <1>3

LEMMA ToSetNone == ToSet(<<>>) = {}
<1>1. DOMAIN <<>> = {}
  OBVIOUS
<1> QED
  BY <1>1 DEF ToSet

NotRunning(p) == p \notin {"running", "paused"}

\* Fewer frames at the player, the same messages.
LEMMA SilentLess ==
  ASSUME NEW kept, NEW left, NEW ms, NEW n, Silent(kept, ms, n), left # <<>> => kept # <<>>
  PROVE  Silent(left, ms, n)
BY DEF Silent

\* The messages before place n are the same.
LEMMA SilentSame ==
  ASSUME NEW kept, NEW ms, NEW ns, NEW n \in Nat, Silent(kept, ms, n),
         \A i \in 1..n - 1 : ns[i] = ms[i]
  PROVE  Silent(kept, ns, n)
<1> SUFFICES ASSUME NEW i \in 0..n - 1, IF i = 0 THEN kept # <<>> ELSE ns[i].op = "PLAY"
             PROVE  \E j \in i + 1..n - 1 : ns[j].op \in {"DROP", "CLOS"}
  BY DEF Silent
<1>1. IF i = 0 THEN kept # <<>> ELSE ms[i].op = "PLAY"
  OBVIOUS
<1>2. PICK j \in i + 1..n - 1 : ms[j].op \in {"DROP", "CLOS"}
  BY <1>1 DEF Silent
<1>3. j \in 1..n - 1
  OBVIOUS
<1> QED
  BY <1>2, <1>3

LEMMA SilentNone == Silent(<<>>, <<>>, Len(<<>>) + 1)
<1>1. \A i \in 0..(Len(<<>>) + 1) - 1 : i = 0
  OBVIOUS
<1>2. ~ (IF 0 = 0 THEN <<>> # <<>> ELSE <<>>[0].op = "PLAY")
  OBVIOUS
<1> QED
  BY <1>1, <1>2, Zenon DEF Silent

\* What is silent before a message is so behind it, unless that is a PLAY; and behind a
\* DROP or a CLOS all is silent.
LEMMA SilentNext ==
  ASSUME NEW kept, NEW ms, NEW n \in Nat, n # 0,
         \/ Silent(kept, ms, n) /\ ms[n].op # "PLAY"
         \/ ms[n].op \in {"DROP", "CLOS"}
  PROVE  Silent(kept, ms, n + 1)
<1>a. (n + 1) - 1 = n
  OBVIOUS
<1>b. Silent(kept, ms, n + 1) =
        \A i \in 0..n : (IF i = 0 THEN kept # <<>> ELSE ms[i].op = "PLAY") =>
          \E j \in i + 1..n : ms[j].op \in {"DROP", "CLOS"}
  BY <1>a, Zenon DEF Silent
<1> SUFFICES ASSUME NEW i \in 0..n, IF i = 0 THEN kept # <<>> ELSE ms[i].op = "PLAY"
             PROVE  \E j \in i + 1..n : ms[j].op \in {"DROP", "CLOS"}
  BY <1>b, Zenon
<1>1. i # n
  OBVIOUS
<1>2. n \in i + 1..n /\ i \in 0..n - 1
  BY <1>1
<1>3. ASSUME Silent(kept, ms, n)
      PROVE  \E j \in i + 1..n : ms[j].op \in {"DROP", "CLOS"}
  <2>1. PICK j \in i + 1..n - 1 : ms[j].op \in {"DROP", "CLOS"}
    BY <1>2, <1>3 DEF Silent
  <2> QED
    BY <2>1
<1> QED
  BY <1>2, <1>3

\* The first message is read.
LEMMA SilentTail ==
  ASSUME NEW kept, NEW left, NEW ms \in Seq(Message), ms # <<>>, NEW n \in 1..Len(ms),
         Silent(kept, ms, n + 1),
         left # <<>> => Head(ms).op = "PLAY" \/ (kept # <<>> /\ Head(ms).op \notin {"DROP", "CLOS"})
  PROVE  Silent(left, Tail(ms), n)
<1>1. /\ Head(ms) = ms[1] /\ Len(ms) \in Nat
      /\ \A i \in 1..Len(ms) - 1 : Tail(ms)[i] = ms[i + 1]
  BY FirstAndRest
<1> SUFFICES ASSUME NEW i \in 0..n - 1, IF i = 0 THEN left # <<>> ELSE Tail(ms)[i].op = "PLAY"
             PROVE  \E j \in i + 1..n - 1 : Tail(ms)[j].op \in {"DROP", "CLOS"}
  BY DEF Silent
<1>2. ASSUME NEW k \in 0..n, IF k = 0 THEN kept # <<>> ELSE ms[k].op = "PLAY",
             NEW j \in k + 1..n, ms[j].op \in {"DROP", "CLOS"}, j > i + 1
      PROVE  \E l \in i + 1..n - 1 : Tail(ms)[l].op \in {"DROP", "CLOS"}
  <2>1. j - 1 \in i + 1..n - 1 /\ j - 1 \in 1..Len(ms) - 1 /\ (j - 1) + 1 = j
    BY <1>1, <1>2
  <2>2. Tail(ms)[j - 1] = ms[j]
    BY <1>1, <2>1
  <2> QED
    BY <1>2, <2>1, <2>2
<1>3. ASSUME i # 0 \/ Head(ms).op = "PLAY"
      PROVE  \E l \in i + 1..n - 1 : Tail(ms)[l].op \in {"DROP", "CLOS"}
  <2>1. i + 1 \in 0..n /\ i + 1 # 0 /\ (i # 0 => i \in 1..Len(ms) - 1)
    BY <1>1
  <2>2. ms[i + 1].op = "PLAY"
    BY <1>1, <1>3, <2>1
  <2>3. PICK j \in (i + 1) + 1..n : ms[j].op \in {"DROP", "CLOS"}
    BY <2>1, <2>2 DEF Silent
  <2>4. j > i + 1
    BY <2>3
  <2> QED
    BY <1>2, <2>1, <2>2, <2>3, <2>4
<1>4. ASSUME i = 0, kept # <<>>, Head(ms).op \notin {"DROP", "CLOS"}
      PROVE  \E l \in i + 1..n - 1 : Tail(ms)[l].op \in {"DROP", "CLOS"}
  <2>1. 0 \in 0..n
    OBVIOUS
  <2>2. PICK j \in 0 + 1..n : ms[j].op \in {"DROP", "CLOS"}
    BY <1>4, <2>1 DEF Silent
  <2>3. j # 1
    BY <1>1, <1>4, <2>2
  <2>4. j > i + 1
    BY <1>4, <2>3
  <2> QED
    BY <1>2, <1>4, <2>1, <2>2, <2>4
<1> QED
  BY <1>3, <1>4

\* Nothing is sent and read, or what is sent is thrown away.
LEMMA SilentStays ==
  ASSUME InitSilent, beside' = beside,
         \A c \in Client : \/ sent'[c] = sent[c] /\ (KeptOf(c)' # <<>> => KeptOf(c) # <<>>)
                           \/ sent'[c] = <<>> /\ KeptOf(c)' = <<>>,
         \A c \in Client : phase'[c] # "drained" /\ (NotRunning(phase'[c]) => NotRunning(phase[c]))
  PROVE  InitSilent'
<1> SUFFICES ASSUME NEW c \in Client
             PROVE  /\ NotRunning(phase'[c]) => Silent(KeptOf(c)', sent'[c], Len(sent'[c]) + 1)
                    /\ \A n \in DOMAIN sent'[c] : sent'[c][n].op = "INIT" => Silent(KeptOf(c)', sent'[c], n)
  BY DEF InitSilent, NotRunning
<1>1. CASE sent'[c] = sent[c] /\ (KeptOf(c)' # <<>> => KeptOf(c) # <<>>)
  BY <1>1, SilentLess DEF InitSilent, NotRunning
<1>2. CASE sent'[c] = <<>> /\ KeptOf(c)' = <<>>
  <2>1. DOMAIN <<>> = {}
    OBVIOUS
  <2> QED
    BY <1>2, <2>1, SilentNone
<1> QED
  BY <1>1, <1>2

LEMMA SilentParts ==
  ASSUME SilentInv
  PROVE  /\ PcmInv /\ InitSilent /\ ClientOK /\ PlayerOK /\ Connected /\ Standby
         /\ LinkTypeOK(Message, Nat) /\ \A c \in Client : sent[c] \in Seq(Message)
BY TypeParts DEF SilentInv, PcmInv, LinkTypeOK

\* A message is read: after an INIT or a DROP the player is empty, and only a PLAY fills it.
LEMMA HandledSilent ==
  ASSUME SilentInv, KeepServing, sent[served] # <<>>, Handled, UNCHANGED phase, beside' = {},
         \/ Kept' = Kept /\ Head(sent[served]).op \notin {"DROP", "CLOS"}
         \/ Kept' = <<>>
         \/ Head(sent[served]).op = "PLAY"
  PROVE  InitSilent'
<1>1. PICK ms \in Seq(Message) : ms = sent[served] /\ ms # <<>>
  BY SilentParts DEF KeepServing, LinkTypeOK
<1>2. /\ sent'[served] = Tail(ms) /\ \A c \in Client : c # served => sent'[c] = sent[c]
      /\ served' = served /\ served \in Client
  BY <1>1, SilentParts DEF Handled, Take, KeepServing, LinkTypeOK
<1>3. /\ Tail(ms) \in Seq(Message) /\ Len(Tail(ms)) = Len(ms) - 1 /\ Len(ms) \in Nat \ {0}
      /\ \A i \in DOMAIN Tail(ms) : i \in Nat /\ i + 1 \in 1..Len(ms) /\ Tail(ms)[i] = ms[i + 1]
      /\ DOMAIN ms = 1..Len(ms) /\ DOMAIN Tail(ms) = 1..Len(ms) - 1
  BY <1>1, FirstAndRest
<1>4. /\ KeptOf(served) = Kept /\ KeptOf(served)' = Kept'
      /\ \A c \in Client : c # served => KeptOf(c)' = <<>>
  BY <1>2 DEF KeptOf
<1>5. Kept' # <<>> => Head(ms).op = "PLAY" \/ (Kept # <<>> /\ Head(ms).op \notin {"DROP", "CLOS"})
  BY <1>1
<1>6. ASSUME NEW n \in 1..Len(ms), Silent(Kept, ms, n + 1)
      PROVE  Silent(Kept', Tail(ms), n)
  BY <1>1, <1>5, <1>6, SilentTail
<1>7. /\ NotRunning(phase[served]) => Silent(Kept, ms, Len(ms) + 1)
      /\ \A n \in DOMAIN ms : ms[n].op = "INIT" => Silent(Kept, ms, n)
  BY <1>1, <1>2, <1>4, SilentParts DEF InitSilent, NotRunning
<1>8. NotRunning(phase[served]) => Silent(Kept', Tail(ms), Len(Tail(ms)) + 1)
  <2>1. Len(ms) \in 1..Len(ms) /\ Len(Tail(ms)) + 1 = Len(ms)
    BY <1>3
  <2> QED
    BY <1>6, <1>7, <2>1
<1>9. ASSUME NEW n \in DOMAIN Tail(ms), Tail(ms)[n].op = "INIT"
      PROVE  Silent(Kept', Tail(ms), n)
  <2>1. n \in 1..Len(ms) /\ n + 1 \in DOMAIN ms /\ ms[n + 1].op = "INIT"
    BY <1>3, <1>9
  <2> QED
    BY <1>6, <1>7, <2>1
<1>a. ASSUME NEW c \in Client
      PROVE  /\ phase[c] # "drained"
             /\ NotRunning(phase[c]) => Silent(KeptOf(c)', sent'[c], Len(sent'[c]) + 1)
             /\ \A n \in DOMAIN sent'[c] : sent'[c][n].op = "INIT" => Silent(KeptOf(c)', sent'[c], n)
  <2>1. CASE c = served
    BY <1>2, <1>4, <1>8, <1>9, <2>1, SilentParts DEF InitSilent
  <2>2. CASE c # served
    BY <1>2, <1>4, <2>2, SilentParts, SilentLess DEF InitSilent, NotRunning
  <2> QED
    BY <2>1, <2>2
<1> QED
  BY <1>a DEF InitSilent, NotRunning

LEMMA HangupSilent ==
  ASSUME SilentInv, served # None, HangupClient, UNCHANGED clientVars
  PROVE  InitSilent'
<1>1. /\ beside' = beside /\ player' = None /\ phase' = phase
      /\ \A c \in Client : sent'[c] = sent[c] \/ sent'[c] = <<>>
  BY SilentParts DEF HangupClient, Hangup, LinkTypeOK, clientVars
<1>2. \A c \in Client : KeptOf(c)' = <<>>
  BY <1>1 DEF KeptOf, Kept
<1> QED
  BY <1>1, <1>2, SilentStays, SilentParts DEF InitSilent

LEMMA HandleSilent ==
  ASSUME SilentInv, Handle, UNCHANGED clientVars
  PROVE  InitSilent'
<1>1. /\ KeepServing /\ served # None /\ sent[served] # <<>> /\ phase' = phase
      /\ served \in Client /\ sent[served] \in Seq(Message) /\ beside = {}
  BY SilentParts DEF Handle, KeepServing, LinkTypeOK, clientVars, InitSilent
<1>2. CASE HandleInit
  <2>1. Handled /\ player' = NewPlayer /\ Head(sent[served]).op = "INIT"
        /\ beside' \in {beside, beside \cup ToSet(Buffered(player))}
        /\ (beside' # beside => player # None)
    BY <1>2 DEF HandleInit, Incoming
  <2>2. Kept' = <<>>
    BY <2>1, NewPlayerIs, Constants DEF Kept
  <2>3. Kept = <<>>
    <3>1. 1 \in DOMAIN sent[served] /\ sent[served][1].op = "INIT"
      BY <1>1, <2>1, FirstAndRest
    <3>2. Silent(Kept, sent[served], 1)
      BY <1>1, <3>1, SilentParts DEF InitSilent, KeptOf
    <3>3. 0 \in 0..1 - 1 /\ 0 + 1..1 - 1 = {}
      OBVIOUS
    <3> QED
      BY <3>2, <3>3 DEF Silent
  <2>4. player # None => ToSet(Buffered(player)) = {}
    BY <2>3, ToSetNone DEF Kept
  <2>5. beside' = {}
    BY <1>1, <2>1, <2>4
  <2> QED
    BY <1>1, <2>1, <2>2, <2>5, HandledSilent
<1>3. CASE WithoutPlayer \/ HandleClose
  BY <1>1, <1>3, HangupSilent DEF WithoutPlayer, HandleClose
<1>4. CASE HandlePlay
  <2>1. Handled /\ beside' = beside /\ Head(sent[served]).op = "PLAY"
    BY <1>4 DEF HandlePlay
  <2> QED
    BY <1>1, <2>1, HandledSilent
<1>5. CASE HandleDelay
  <2>1. Handled /\ UNCHANGED playerVars /\ Head(sent[served]).op = "DELA"
    BY <1>5 DEF HandleDelay, Incoming
  <2>2. beside' = beside /\ Kept' = Kept
    BY <2>1 DEF playerVars, Kept
  <2> QED
    BY <1>1, <2>1, <2>2, HandledSilent
<1>6. CASE HandleDrop
  <2>1. player # None /\ Handled /\ beside' = beside /\ player' = DropFrames(player)
    BY <1>6 DEF HandleDrop
  <2>2. player \in Player
    BY <2>1, SilentParts DEF PlayerOK
  <2>3. Kept' = <<>>
    BY <2>1, <2>2, DropFramesIs, Constants DEF Kept
  <2> QED
    BY <1>1, <2>1, <2>3, HandledSilent
<1>7. CASE (HandlePause \/ HandleResume) /\ waveOut = None
  BY <1>1, <1>7, HangupSilent DEF HandlePause, HandleResume
<1>8. CASE (HandlePause \/ HandleResume) /\ waveOut # None
  <2>1. Handled /\ UNCHANGED <<player, beside>> /\ Head(sent[served]).op \in {"PAUS", "RESU"}
    BY <1>8 DEF HandlePause, HandleResume, Incoming
  <2>2. Kept' = Kept
    BY <2>1 DEF Kept
  <2> QED
    BY <1>1, <2>1, <2>2, HandledSilent
<1> QED
  BY <1>2, <1>3, <1>4, <1>5, <1>6, <1>7, <1>8 DEF Handle

LEMMA ServerSilent ==
  ASSUME SilentInv, Server
  PROVE  InitSilent'
<1>1. CASE Accept /\ UNCHANGED playerVars /\ UNCHANGED clientVars
  <2>1. beside' = beside /\ sent' = sent /\ phase' = phase /\ player = None /\ player' = None
    BY <1>1, SilentParts DEF Accept, playerVars, clientVars, Standby
  <2>2. \A c \in Client : KeptOf(c)' = <<>>
    BY <2>1 DEF KeptOf, Kept
  <2> QED
    BY <2>1, <2>2, SilentStays, SilentParts DEF InitSilent
<1>2. CASE PreemptClient /\ UNCHANGED clientVars
  BY <1>2, HangupSilent DEF PreemptClient
<1>3. CASE Handle /\ UNCHANGED clientVars
  BY <1>3, HandleSilent
<1> QED
  BY <1>1, <1>2, <1>3 DEF Server

LEMMA WindowsSilent ==
  ASSUME SilentInv, Windows
  PROVE  InitSilent'
<1>1. /\ player # None /\ player' = Read(player, Period)
      /\ beside' = beside /\ sent' = sent /\ served' = served /\ phase' = phase
  BY DEF Windows, WaveOutReads, linkVars, clientVars
<1>2. player \in Player /\ Kept = Buffered(player)
  BY <1>1, SilentParts, KeptIs DEF PlayerOK
<1>3. PICK r \in Seq(Frames), k \in Seq(Frames) : Buffered(player) = r \o k /\ k = Buffered(player')
  BY <1>1, <1>2, Constants, ReadIs, PlayerIs
<1>4. Kept' # <<>> => Kept # <<>>
  <2>1. Kept' = k \/ Kept' = <<>>
    BY <1>3 DEF Kept
  <2>2. k # <<>> => r \o k # <<>>
    BY <1>3
  <2> QED
    BY <1>2, <1>3, <2>1, <2>2
<1>5. \A c \in Client : KeptOf(c)' # <<>> => KeptOf(c) # <<>>
  BY <1>1, <1>4 DEF KeptOf
<1> QED
  BY <1>1, <1>5, SilentStays, SilentParts DEF InitSilent

\* A program sends a message: an INIT only when its sound has ended, and it ends it by a
\* DROP or a CLOS.
LEMMA PostSilent ==
  ASSUME SilentInv, NEW c \in Client, NEW m \in Message, waiting = None, phase[c] # "closed",
         Post(c, <<m>>), UNCHANGED <<alive, opened, backlog, served, cut, answer, playerVars>>,
         m.op = "INIT" => NotRunning(phase[c]),
         phase'[c] # "drained",
         NotRunning(phase'[c]) =>
           m.op \in {"DROP", "CLOS"} \/ (NotRunning(phase[c]) /\ m.op # "PLAY"),
         \A d \in Client : d # c => phase'[d] = phase[d]
  PROVE  InitSilent'
<1>1. /\ PcmInv /\ InitSilent /\ Connected
      /\ \A d \in Client : d # c => sent'[d] = sent[d]
      /\ \/ sent'[c] = sent[c] /\ c \in cut
         \/ sent'[c] = Append(sent[c], m) /\ c \notin cut
  BY SilentParts, PostedIs
<1>2. \A d \in Client : KeptOf(d)' = KeptOf(d)
  BY DEF KeptOf, Kept, playerVars
<1>3. PICK ms \in Seq(Message) : ms = sent[c]
  BY SilentParts
<1>4. ASSUME c \in cut
      PROVE  ms = <<>> /\ KeptOf(c) = <<>>
  BY <1>1, <1>3, <1>4, Constants DEF Connected, KeptOf
<1>5. /\ Len(ms) \in Nat /\ Len(Append(ms, m)) = Len(ms) + 1 /\ DOMAIN ms = 1..Len(ms)
      /\ DOMAIN Append(ms, m) = 1..Len(ms) + 1 /\ Append(ms, m)[Len(ms) + 1] = m
      /\ \A i \in DOMAIN ms : Append(ms, m)[i] = ms[i]
  BY AndLast, AppendProperties
<1>6. /\ NotRunning(phase[c]) => Silent(KeptOf(c), ms, Len(ms) + 1)
      /\ \A n \in DOMAIN ms : ms[n].op = "INIT" => Silent(KeptOf(c), ms, n)
  BY <1>1, <1>3 DEF InitSilent, NotRunning
<1>7. ASSUME NEW n \in 0..Len(ms) + 1, Silent(KeptOf(c), ms, n)
      PROVE  Silent(KeptOf(c), Append(ms, m), n)
  <2>1. n \in Nat /\ \A i \in 1..n - 1 : Append(ms, m)[i] = ms[i]
    BY <1>5
  <2> QED
    BY <1>7, <2>1, SilentSame
<1>8. ASSUME NotRunning(phase'[c])
      PROVE  Silent(KeptOf(c), Append(ms, m), (Len(ms) + 1) + 1)
  <2>1. Len(ms) + 1 \in Nat /\ Len(ms) + 1 # 0 /\ Len(ms) + 1 \in 0..Len(ms) + 1
    BY <1>5
  <2>2. CASE m.op \in {"DROP", "CLOS"}
    BY <1>5, <2>1, <2>2, SilentNext
  <2>3. CASE NotRunning(phase[c]) /\ m.op # "PLAY"
    BY <1>5, <1>6, <1>7, <2>1, <2>3, SilentNext
  <2> QED
    BY <1>8, <2>2, <2>3
<1>9. ASSUME NEW n \in DOMAIN Append(ms, m), Append(ms, m)[n].op = "INIT"
      PROVE  Silent(KeptOf(c), Append(ms, m), n)
  <2>1. CASE n \in DOMAIN ms
    <3>1. ms[n].op = "INIT" /\ n \in 0..Len(ms) + 1
      BY <1>5, <1>9, <2>1
    <3> QED
      BY <1>6, <1>7, <2>1, <3>1
  <2>2. CASE n \notin DOMAIN ms
    <3>1. n = Len(ms) + 1 /\ m.op = "INIT" /\ n \in 0..Len(ms) + 1
      BY <1>5, <1>9, <2>2
    <3> QED
      BY <1>6, <1>7, <3>1
  <2> QED
    BY <2>1, <2>2
<1>a. /\ NotRunning(phase'[c]) => Silent(KeptOf(c), sent'[c], Len(sent'[c]) + 1)
      /\ \A n \in DOMAIN sent'[c] : sent'[c][n].op = "INIT" => Silent(KeptOf(c), sent'[c], n)
  <2>1. CASE c \in cut
    <3>1. sent'[c] = <<>> /\ KeptOf(c) = <<>> /\ DOMAIN <<>> = {}
      BY <1>1, <1>3, <1>4, <2>1
    <3> QED
      BY <3>1, SilentNone
  <2>2. CASE c \notin cut
    <3>1. sent'[c] = Append(ms, m)
      BY <1>1, <1>3, <2>2
    <3> QED
      BY <1>5, <1>8, <1>9, <3>1
  <2> QED
    BY <2>1, <2>2
<1>b. beside' = {}
  BY <1>1 DEF InitSilent, playerVars
<1>c. ASSUME NEW d \in Client, d # c
      PROVE  /\ phase'[d] # "drained"
             /\ NotRunning(phase'[d]) => Silent(KeptOf(d)', sent'[d], Len(sent'[d]) + 1)
             /\ \A n \in DOMAIN sent'[d] : sent'[d][n].op = "INIT" => Silent(KeptOf(d)', sent'[d], n)
  BY <1>1, <1>2, <1>c DEF InitSilent, NotRunning
<1> QED
  BY <1>2, <1>a, <1>b, <1>c DEF InitSilent, NotRunning

\* The agent's steps.
LEMMA AgentSilent ==
  ASSUME SilentInv, "drain" \notin Habits, Agent
  PROVE  InitSilent'
<1>1. /\ ClientOK /\ InitSilent /\ UNCHANGED playerVars
      /\ \A c \in Client : phase[c] # "drained"
  BY SilentParts DEF Agent, InitSilent
<1>2. ASSUME NEW c \in Client, NEW phases,
             NEW next \in {"setup", "running", "paused", "freed"}, NEW m \in Message,
             Ioctl(c, phases, next), Request(c, m), "closed" \notin phases,
             m.op = "INIT" => phases \cap {"running", "paused"} = {},
             next \in {"running", "paused"} \/ m.op \in {"DROP", "CLOS"}
               \/ (phases \cap {"running", "paused"} = {} /\ m.op # "PLAY")
      PROVE  InitSilent'
  <2>1. /\ waiting = None /\ phase[c] \in phases /\ phase'[c] = next
        /\ \A d \in Client : d # c => phase'[d] = phase[d]
    BY <1>1, <1>2, IoctlIs
  <2>2. Post(c, <<m>>) /\ UNCHANGED <<alive, opened, backlog, served, cut, answer, playerVars>>
    BY <1>1, <1>2 DEF Request
  <2>3. /\ phase[c] # "closed" /\ phase'[c] # "drained"
        /\ (m.op = "INIT" => NotRunning(phase[c]))
        /\ NotRunning(phase'[c]) =>
             m.op \in {"DROP", "CLOS"} \/ (NotRunning(phase[c]) /\ m.op # "PLAY")
    BY <1>2, <2>1 DEF NotRunning
  <2> QED
    BY <2>1, <2>2, <2>3, PostSilent
<1>3. ASSUME NEW c \in Client, HwParams(c)
      PROVE  InitSilent'
  <2>1. PICK m : m = [op |-> "INIT"]
    OBVIOUS
  <2>2. m \in Message /\ m.op = "INIT"
    BY <2>1, PlainRequests
  <2>3. PICK phases \in SUBSET {"open", "setup", "drained", "freed"} :
          Ioctl(c, phases, "setup") /\ Request(c, m)
    BY <1>3, <2>1 DEF HwParams
  <2> QED
    BY <1>2, <2>2, <2>3
<1>4. ASSUME NEW c \in Client, NEW op \in {"DROP", "CLOS", "PAUS", "RESU"},
             NEW phases \in SUBSET {"setup", "running", "paused", "drained"},
             NEW next \in {"setup", "running", "paused", "freed"},
             Ioctl(c, phases, next), Request(c, [op |-> op]),
             op \in {"PAUS", "RESU"} => next \in {"running", "paused"}
      PROVE  InitSilent'
  <2>1. PICK m : m = [op |-> op]
    OBVIOUS
  <2>2. m \in Message /\ m.op = op
    BY <2>1, PlainRequests
  <2> QED
    BY <1>2, <1>4, <2>1, <2>2
<1>5. ASSUME NEW c \in Client, Drop(c) \/ HwFree(c) \/ Pause(c) \/ Unpause(c) \/ Resume(c)
      PROVE  InitSilent'
  <2>1. CASE Drop(c)
    BY <1>4, <2>1 DEF Drop
  <2>2. CASE HwFree(c)
    BY <1>4, <2>2 DEF HwFree
  <2>3. CASE Pause(c)
    BY <1>4, <2>3 DEF Pause, PauseRequest
  <2>4. CASE Unpause(c)
    BY <1>4, <2>4 DEF Unpause, PauseRequest
  <2>5. CASE Resume(c)
    BY <1>4, <2>5 DEF Resume
  <2> QED
    BY <1>5, <2>1, <2>2, <2>3, <2>4, <2>5
<1>6. ASSUME NEW c \in Client, WriteFrames(c)
      PROVE  InitSilent'
  <2>1. PICK n \in 1..(MaxFrames - accepted) :
          Request(c, [op |-> "PLAY", buffer |-> [i \in 1..n |-> accepted + i]])
    BY <1>6 DEF WriteFrames
  <2>2. PICK b : b = [i \in 1..n |-> accepted + i]
    OBVIOUS
  <2>3. PICK m : m = [op |-> "PLAY", buffer |-> b]
    OBVIOUS
  <2>4. b \in Seq(Frames)
    <3>1. accepted \in Nat /\ MaxFrames \in Nat /\ n \in Nat /\ accepted + n <= MaxFrames
      BY <1>1, Constants DEF ClientOK
    <3>2. \A i \in 1..n : accepted + i \in Frames
      BY <3>1 DEF Frames
    <3> QED
      BY <2>2, <3>1, <3>2, IsASeq
  <2>5. m \in Message /\ m.op = "PLAY"
    BY <2>3, <2>4 DEF Message
  <2>6. Ioctl(c, {"setup", "running", "drained"}, "running") /\ Request(c, m)
    BY <1>6, <2>1, <2>2, <2>3 DEF WriteFrames
  <2> QED
    BY <1>2, <2>5, <2>6
<1>7. ASSUME NEW c \in Client, BeginQuery(c)
      PROVE  InitSilent'
  <2>1. PICK m : m = [op |-> "DELA"]
    OBVIOUS
  <2>2. m \in Message /\ m.op = "DELA"
    BY <2>1, PlainRequests
  <2>3. /\ Ioctl(c, {"open", "setup", "running"}, phase[c]) /\ Post(c, <<m>>)
        /\ UNCHANGED <<alive, opened, backlog, served, cut, answer, playerVars>>
    BY <1>1, <1>7, <2>1 DEF BeginQuery, Ioctl
  <2>4. phase[c] \in {"open", "setup", "running"} /\ phase' = [phase EXCEPT ![c] = phase[c]] /\ waiting = None
    BY <2>3 DEF Ioctl
  <2>5. phase'[c] = phase[c] /\ \A d \in Client : d # c => phase'[d] = phase[d]
    BY <1>1, <2>4 DEF ClientOK
  <2> QED
    BY <1>1, <2>2, <2>3, <2>4, <2>5, PostSilent
<1>8. ASSUME NEW c \in Client, NEW next \in {"closed", "open", "setup"}, NEW now \in {"closed", "setup"},
             Ioctl(c, {now}, next), sent' = sent, served' = served
      PROVE  InitSilent'
  <2>1. phase[c] = now /\ phase'[c] = next /\ \A d \in Client : d # c => phase'[d] = phase[d]
    BY <1>1, <1>8, IoctlIs
  <2>2. \A d \in Client : phase'[d] # "drained" /\ (NotRunning(phase'[d]) => NotRunning(phase[d]))
    BY <1>1, <2>1 DEF NotRunning
  <2>3. beside' = beside /\ \A d \in Client : KeptOf(d)' = KeptOf(d)
    BY <1>1, <1>8 DEF KeptOf, Kept, playerVars
  <2> QED
    BY <1>1, <1>8, <2>2, <2>3, SilentStays
<1>9. ASSUME NEW c \in Client, Info(c) \/ InfoFails(c) \/ Prepare(c)
      PROVE  InitSilent'
  <2>1. CASE Info(c)
    BY <1>8, <2>1 DEF Info
  <2>2. CASE InfoFails(c)
    BY <1>8, <2>2 DEF InfoFails, OpenFails, linkVars
  <2>3. CASE Prepare(c)
    BY <1>8, <2>3 DEF Prepare, linkVars
  <2> QED
    BY <1>9, <2>1, <2>2, <2>3
<1>a. CASE EndQuery \/ Killed
  <2>1. phase' = phase /\ sent' = sent /\ served' = served
    BY <1>a DEF EndQuery, Killed, SigPipe, clientVars
  <2>2. beside' = beside /\ \A d \in Client : KeptOf(d)' = KeptOf(d)
    BY <1>1, <2>1 DEF KeptOf, Kept, playerVars
  <2> QED
    BY <1>1, <2>1, <2>2, SilentStays
<1>b. ASSUME NEW c \in Client
      PROVE  ~ Drain(c)
  BY DEF Drain
<1> QED
  BY <1>3, <1>5, <1>6, <1>7, <1>9, <1>a, <1>b DEF Agent

LEMMA NextSilent ==
  ASSUME SilentInv, "drain" \notin Habits, [Next]_vars
  PROVE  SilentInv'
<1>1. PcmInv'
  BY NextPcm, SilentParts
<1>2. CASE UNCHANGED vars
  <2>1. UNCHANGED <<sent, served, phase, player, beside>>
    BY <1>2 DEF vars, linkVars, clientVars, playerVars
  <2>2. \A d \in Client : KeptOf(d)' = KeptOf(d)
    BY <2>1 DEF KeptOf, Kept
  <2> QED
    BY <1>1, <2>1, <2>2, SilentStays, SilentParts DEF SilentInv, InitSilent
<1>3. CASE Next
  BY <1>1, <1>3, ServerSilent, WindowsSilent, AgentSilent DEF SilentInv, Next
<1> QED
  BY <1>2, <1>3

\* InOrder holds of all programs that do not drain: what was played, is buffered and is
\* under way of one program is in the order in which it was written, and no WaveOut plays
\* beside another.  (With the habit "drain" an INIT can find a WaveOut that plays.)
THEOREM InOrderHolds ==
  ASSUME "drain" \notin Habits
  PROVE  Spec => []InOrder
<1>1. SilentInv => InOrder
  <2> SUFFICES ASSUME SilentInv, NEW c \in Client
               PROVE  Rising((IF served = c THEN played ELSE <<>>) \o Underway(c))
    BY DEF InOrder, Rising, SilentInv, InitSilent
  <2>1. LinkTypeOK(Message, Nat) /\ PlayerOK /\ Ordered
    BY TypeParts DEF SilentInv, PcmInv
  <2>2. played \in Seq(Frames) /\ Kept \in Seq(Frames) /\ InFlight(c) \in Seq(Frames)
    <3>1. sent[c] \in Seq(Message)
      BY <2>1 DEF LinkTypeOK
    <3> QED
      BY <2>1, <3>1, KeptIs, CarriedIs DEF PlayerOK, InFlight
  <2>3. CASE served = c
    <3>1. (IF served = c THEN played ELSE <<>>) \o Underway(c) = played \o (Kept \o InFlight(c))
      BY <2>3, Zenon DEF Underway, Kept
    <3>2. /\ Rising(played) /\ Rising(Kept) /\ Rising(InFlight(c))
          /\ Before(played, Kept) /\ Before(played, InFlight(c)) /\ Before(Kept, InFlight(c))
      BY <2>1, <2>3 DEF Ordered
    <3>3. Kept \o InFlight(c) \in Seq(Frames)
      BY <2>2, ConcatIs
    <3>4. Rising(Kept \o InFlight(c)) /\ Before(played, Kept \o InFlight(c))
      BY <2>2, <3>2, RisingJoined, BeforeJoined
    <3> QED
      BY <2>2, <3>1, <3>2, <3>3, <3>4, RisingJoined
  <2>4. CASE served # c
    <3>1. (IF served = c THEN played ELSE <<>>) \o Underway(c) = <<>> \o (<<>> \o InFlight(c))
      BY <2>4, Zenon DEF Underway
    <3>2. <<>> \o (<<>> \o InFlight(c)) = InFlight(c)
      BY <2>2, ConcatEmptySeq
    <3> QED
      BY <2>1, <3>1, <3>2 DEF Ordered
  <2> QED
    BY <2>3, <2>4
<1>2. Init => SilentInv
  <2> SUFFICES ASSUME Init
               PROVE  SilentInv
    OBVIOUS
  <2>1. /\ sent = [c \in Client |-> <<>>] /\ phase = [c \in Client |-> "closed"]
        /\ player = None /\ beside = {} /\ DOMAIN <<>> = {}
    BY DEF Init, LinkInit
  <2>2. \A c \in Client : KeptOf(c) = <<>>
    BY <2>1 DEF KeptOf, Kept
  <2>3. InitSilent
    BY <2>1, <2>2, SilentNone DEF InitSilent
  <2> QED
    BY <2>3, InitPcm DEF SilentInv
<1>3. SilentInv /\ [Next]_vars => SilentInv'
  BY NextSilent
<1> QED
  BY <1>1, <1>2, <1>3, PTL DEF Spec
-----------------------------------------------------------------------------
(* Programs without further habits: what is heard of a program that has    *)
(* the device for itself.                                                  *)

LEMMA UptoSet ==
  ASSUME NEW s, NEW n, Upto(s, n), NEW f \in ToSet(s)
  PROVE  f <= n
BY DEF Upto, ToSet

\* If all frames that messages carry are at most n, so are those of each message.
LEMMA UptoEach ==
  ASSUME NEW n
  PROVE  \A ms \in Seq(Message) : Upto(Carried(ms), n) => \A j \in DOMAIN ms : Upto(Payload(ms[j]), n)
<1> DEFINE Each(ms) == Upto(Carried(ms), n) => \A j \in DOMAIN ms : Upto(Payload(ms[j]), n)
           U == {k \in Nat : \A ms \in Seq(Message) : Len(ms) = k => Each(ms)}
<1>1. 0 \in U
  <2>1. \A ms \in Seq(Message) : Len(ms) = 0 => DOMAIN ms = {}
    BY EmptySeq
  <2> QED
    BY <2>1
<1>2. \A k \in Nat : k \in U => k + 1 \in U
  <2> SUFFICES ASSUME NEW k \in Nat, k \in U, NEW ms \in Seq(Message), Len(ms) = k + 1,
                      Upto(Carried(ms), n), NEW j \in DOMAIN ms
               PROVE  Upto(Payload(ms[j]), n)
    OBVIOUS
  <2>1. PICK ns \in Seq(Message), m \in Message : ms = Append(ns, m) /\ Len(ns) = k
    BY SplitLast
  <2>2. /\ Payload(m) \in Seq(Frames) /\ Carried(ns) \in Seq(Frames)
        /\ Carried(ms) = Carried(ns) \o Payload(m)
    BY <2>1, CarriedLast
  <2>3. Upto(Carried(ns), n) /\ Upto(Payload(m), n)
    BY <2>2, UptoJoined
  <2>4. \A i \in DOMAIN ns : Upto(Payload(ns[i]), n)
    BY <2>1, <2>3
  <2>5. \/ j \in DOMAIN ns /\ ms[j] = ns[j]
        \/ ms[j] = m
    BY <2>1, AndLast
  <2> QED
    BY <2>3, <2>4, <2>5
<1>3. Nat \subseteq U
  <2> HIDE DEF U
  <2> QED
    BY <1>1, <1>2, Induction
<1> QED
  BY <1>3, LenProperties

\* The frames that were heard or will be.
Heard(f) == f \in ToSet(played) \/ \E c \in Client : f \in ToSet(Underway(c))

HeardIs ==
  \A f : Heard(f) <=>
    \/ f \in ToSet(played) \/ f \in ToSet(Kept)
    \/ \E c \in Client : f \in ToSet(Carried(sent[c]))

LEMMA HeardParts == TypeOK /\ Standby => HeardIs
<1> SUFFICES ASSUME TypeOK, Standby
             PROVE  HeardIs
  OBVIOUS
<1>1. ASSUME NEW c \in Client
      PROVE  ToSet(Underway(c)) = (IF served = c THEN ToSet(Kept) ELSE {}) \cup ToSet(Carried(sent[c]))
  <2>1. Kept \in Seq(Frames) /\ Carried(sent[c]) \in Seq(Frames)
    <3>1. sent[c] \in Seq(Message) /\ player \in Player \cup {None}
      BY DEF TypeOK, LinkTypeOK
    <3> QED
      BY <3>1, KeptIs, CarriedIs
  <2>2. Underway(c) = (IF served = c THEN Kept ELSE <<>>) \o Carried(sent[c])
    BY DEF Underway, Kept, InFlight
  <2>3. CASE served = c
    BY <2>1, <2>2, <2>3, ToSetIs
  <2>4. CASE served # c
    BY <2>1, <2>2, <2>4, ToSetIs, ToSetNone, NoFrames
  <2> QED
    BY <2>3, <2>4
<1>2. \A f \in ToSet(Kept) : served \in Client
  <2>1. player = None => ToSet(Kept) = {}
    BY ToSetNone DEF Kept
  <2>2. player # None => served \in Client
    BY DEF Standby, TypeOK, LinkTypeOK
  <2> QED
    BY <2>1, <2>2
<1> QED
  BY <1>1, <1>2 DEF HeardIs, Heard

LEMMA HeardPartsNext == (TypeOK /\ Standby => HeardIs)'
BY HeardParts, PTL

LEMMA Between ==
  ASSUME NEW a \in Nat, NEW b \in Nat
  PROVE  \A f \in (a + 1)..b : f \in Nat /\ a < f /\ f <= b
OBVIOUS

LEMMA LostThen ==
  ASSUME AllHeard, NEW c \in Client, Alone(c), excused \in Nat, accepted \in Nat,
         NEW f \in Nat, excused < f, f <= accepted
  PROVE  Heard(f)
<1>1. f \in (excused + 1)..accepted
  OBVIOUS
<1> QED
  BY <1>1, Zenon DEF AllHeard, Alone, Heard

LEMMA LostIf ==
  ASSUME excused' \in Nat, accepted' \in Nat,
         \A c \in Client, f \in Nat : Alone(c)' /\ excused' < f /\ f <= accepted' => Heard(f)'
  PROVE  AllHeard'
<1> SUFFICES ASSUME NEW c \in Client, Alone(c)', NEW f \in (excused' + 1)..accepted'
             PROVE  Heard(f)'
  BY Zenon DEF AllHeard, Alone, Heard
<1>1. f \in Nat /\ excused' < f /\ f <= accepted'
  BY Between, Zenon
<1> QED
  BY <1>1

LEMMA PlainParts ==
  ASSUME PlainInv
  PROVE  /\ LinkTypeOK(Message, Nat) /\ ClientOK /\ PlayerOK /\ Connected /\ Standby /\ Ordered
         /\ TypeOK /\ HeardIs /\ SetUp /\ GivenUp /\ AllHeard
         /\ played \in Seq(Frames) /\ sent \in [Client -> Seq(Message)]
         /\ accepted \in Nat /\ excused \in Nat /\ excused <= accepted
BY TypeParts, HeardParts, Constants DEF PlainInv, PcmInv, PlayerOK, ClientOK, LinkTypeOK

LEMMA PlainKept ==
  ASSUME PlainInv
  PROVE  Kept \in Seq(Frames) /\ played \in Seq(Frames)
<1>1. player \in Player \cup {None} /\ played \in Seq(Frames)
  BY PlainParts DEF PlayerOK
<1> QED
  BY <1>1, KeptIs

LEMMA PcmInvNext ==
  ASSUME PcmInv'
  PROVE  HeardIs' /\ ClientOK' /\ LinkTypeOK(Message, Nat)' /\ Connected' /\ Standby'
BY HeardPartsNext DEF PcmInv, TypeOK, ClientOK

LEMMA PcmNumbers ==
  ASSUME PcmInv'
  PROVE  excused' \in Nat /\ accepted' \in Nat
BY PcmInvNext DEF ClientOK

\* A client that was accepted or waits for that has said INFO.
LEMMA ServedSpoke ==
  ASSUME PlainInv
  PROVE  /\ served # None => served \in Client /\ phase[served] # "closed" /\ served \notin cut
         /\ \A i \in DOMAIN backlog : backlog[i] \in Client /\ phase[backlog[i]] # "closed" /\ backlog[i] # served
BY PlainParts DEF LinkTypeOK, Connected, Standby

\* What a new player is for is an INIT.
LEMMA InitFirst ==
  ASSUME PlainInv, served # None, sent[served] # <<>>, player = None
  PROVE  Head(sent[served]).op = "INIT"
<1>1. SetUp /\ served \in Client /\ phase[served] # "closed" /\ served \notin cut /\ sent[served] \in Seq(Message)
  BY ServedSpoke, PlainParts
<1>2. sent[served][1].op = "INIT"
  BY <1>1 DEF SetUp
<1> QED
  BY <1>1, <1>2, FirstAndRest

\* If no program says INFO and what was heard or will be is still, nothing is lost.
LEMMA LostKept ==
  ASSUME PlainInv, PcmInv', phase' = phase,
         \A c \in Client, f \in Nat : Alone(c) /\ excused' < f /\ f <= accepted' /\ (f <= accepted => Heard(f)) => Heard(f)',
         excused <= excused'
  PROVE  AllHeard'
<1>1. excused' \in Nat /\ accepted' \in Nat /\ excused \in Nat /\ accepted \in Nat
  BY PlainParts, PcmInvNext DEF ClientOK
<1>2. AllHeard /\ \A c \in Client : Alone(c)' => Alone(c)
  BY PlainParts DEF Alone
<1>3. ASSUME NEW c \in Client, Alone(c), NEW f \in Nat, excused < f, f <= accepted
      PROVE  Heard(f)
  BY <1>1, <1>2, <1>3, LostThen
<1>4. ASSUME NEW c \in Client, Alone(c)', NEW f \in Nat, excused' < f, f <= accepted'
      PROVE  Heard(f)'
  <2>1. Alone(c)
    BY <1>2, <1>4
  <2>2. excused < f
    BY <1>1, <1>4
  <2>3. f <= accepted => Heard(f)
    BY <1>3, <2>1, <2>2
  <2> QED
    BY <1>4, <2>1, <2>3
<1> QED
  BY <1>1, <1>4, LostIf

LEMMA HangupPlain ==
  ASSUME PlainInv, PcmInv', served # None, HangupClient, UNCHANGED clientVars,
         Alone(served) => phase[served] = "freed"
  PROVE  SetUp' /\ GivenUp' /\ AllHeard'
<1>1. /\ served' = None /\ player' = None /\ cut' = cut \cup {served} /\ sent' = [sent EXCEPT ![served] = <<>>]
      /\ UNCHANGED <<phase, accepted, excused>>
  BY DEF HangupClient, Hangup, clientVars
<1>2. SetUp /\ GivenUp /\ sent \in [Client -> Seq(Message)] /\ served \in Client /\ phase[served] # "closed"
  BY PlainParts, ServedSpoke
<1>3. Kept' = <<>> /\ sent'[served] = <<>> /\ \A c \in Client : c # served => sent'[c] = sent[c]
  BY <1>1, <1>2 DEF Kept
<1>4. SetUp'
  BY <1>1, <1>2, <1>3 DEF SetUp
<1>5. \A c \in Client : Alone(c)' => c = served /\ phase[c] = "freed" /\ Alone(c)
  BY <1>1, <1>2 DEF Alone
<1>6. GivenUp'
  <2>1. DOMAIN <<>> = {}
    OBVIOUS
  <2> QED
    BY <1>1, <1>2, <1>3, <1>5, <2>1 DEF GivenUp
<1>7. AllHeard'
  <2>1. \A c \in Client : Alone(c)' => excused' = accepted'
    BY <1>1, <1>2, <1>5 DEF GivenUp
  <2>2. accepted' \in Nat /\ excused' \in Nat
    BY PcmInvNext DEF ClientOK
  <2> QED
    BY <2>1, <2>2, LostIf
<1> QED
  BY <1>4, <1>6, <1>7

\* Nothing that matters is changed.
LEMMA StillPlain ==
  ASSUME PlainInv, PcmInv', UNCHANGED <<phase, sent, player, cut, excused, accepted, played>>,
         served' = served \/ player = None
  PROVE  SetUp' /\ GivenUp' /\ AllHeard'
<1>1. SetUp /\ GivenUp /\ HeardIs /\ HeardIs' /\ Kept' = Kept
  BY PlainParts, PcmInvNext DEF Kept
<1>2. SetUp'
  BY <1>1 DEF SetUp
<1>3. GivenUp'
  BY <1>1 DEF GivenUp, Alone
<1>4. \A f : Heard(f)' <=> Heard(f)
  BY <1>1 DEF HeardIs
<1>5. excused \in Nat
  BY PlainParts
<1> QED
  BY <1>2, <1>3, <1>4, <1>5, LostKept
\* What is before and behind a frame number does not change when the sequences grow.
LEMMA SoundIs ==
  ASSUME HeardIs, NEW f
  PROVE  Heard(f) <=> \/ f \in ToSet(played) \/ f \in ToSet(Kept)
                      \/ \E c \in Client : f \in ToSet(Carried(sent[c]))
BY DEF HeardIs

LEMMA SoundIsNext == (HeardIs => \A f : Heard(f) <=> \/ f \in ToSet(played) \/ f \in ToSet(Kept)
                      \/ \E c \in Client : f \in ToSet(Carried(sent[c])))'
<1>1. HeardIs => \A f : Heard(f) <=> \/ f \in ToSet(played) \/ f \in ToSet(Kept)
                      \/ \E c \in Client : f \in ToSet(Carried(sent[c]))
  BY SoundIs
<1> QED
  BY <1>1, PTL

\* A message was read whose frames the player has now, or an INIT or a DROP.
LEMMA HandledPlain ==
  ASSUME PlainInv, PcmInv', served # None, sent[served] # <<>>, Handled,
         answer' \in [Client -> Seq(Nat)], \A c \in Client : c # served => answer'[c] = answer[c],
         UNCHANGED <<played, clientVars>>, player' # None,
         \/ Kept' = Kept \o Payload(Head(sent[served]))
         \/ Kept' = <<>> /\ Head(sent[served]).op \in {"INIT", "DROP"}
  PROVE  SetUp' /\ GivenUp' /\ AllHeard'
<1>1. PcmInv /\ SetUp /\ GivenUp /\ AllHeard /\ HeardIs /\ HeardIs' /\ Kept \in Seq(Frames) /\ excused \in Nat
  <2>1. PcmInv
    BY DEF PlainInv
  <2> QED
    <3>1. HeardIs'
      BY PcmInvNext
    <3>2. SetUp /\ GivenUp /\ AllHeard /\ HeardIs
      BY PlainParts
    <3>3. Kept \in Seq(Frames)
      BY PlainKept
    <3>4. excused \in Nat
      BY PlainParts
    <3> QED
      BY <2>1, <3>1, <3>2, <3>3, <3>4
<1>2. /\ served' = served /\ served \in Client /\ cut' = cut /\ UNCHANGED <<phase, accepted, excused>>
      /\ phase[served] # "closed"
  BY <1>1, HandledIs, ServedSpoke DEF Handled, clientVars
<1>3. PICK ms \in Seq(Message) : ms = sent[served] /\ ms # <<>>
  BY <1>1, HandledIs
<1>4. PICK ts \in Seq(Message) : ts = sent'[served] /\ ts = Tail(ms)
  BY <1>1, <1>3, HandledIs, FirstAndRest
<1>5. PICK b \in Seq(Frames) : b = Payload(Head(ms))
  BY <1>1, <1>3, HandledIs
<1>6. /\ Carried(ms) = b \o Carried(ts) /\ Carried(ts) \in Seq(Frames)
      /\ \A c \in Client : c # served => sent'[c] = sent[c]
  BY <1>1, <1>3, <1>4, <1>5, HandledIs
<1>7. /\ 1 \in DOMAIN ms /\ Head(ms) = ms[1] /\ Head(ms) \in Message
      /\ \A i \in DOMAIN ts : i \in Nat /\ i + 1 \in DOMAIN ms /\ 1 < i + 1 /\ ts[i] = ms[i + 1]
  BY <1>3, <1>4, FirstAndRest
<1>8. Kept' = Kept \o b \/ (Kept' = <<>> /\ Head(ms).op \in {"INIT", "DROP"} /\ b = <<>>)
  BY <1>3, <1>5, <1>7, PayloadIs
<1>9. \A c \in Client : Alone(c) => c = served
  BY <1>2 DEF Alone
<1>a. SetUp'
  BY <1>1, <1>2, <1>3, <1>6 DEF SetUp
<1>b. ASSUME Alone(served)
      PROVE  /\ phase[served] \notin {"running", "paused"} => excused = accepted
             /\ phase[served] # "freed" => served \notin cut
             /\ \A i \in DOMAIN ms : ms[i].op = "CLOS" => phase[served] = "freed"
             /\ \A i \in DOMAIN ms : ms[i].op \in {"INIT", "DROP"} =>
                  /\ Upto(Kept, excused)
                  /\ \A j \in DOMAIN ms : j < i => Upto(Payload(ms[j]), excused)
  BY <1>1, <1>2, <1>3, <1>b DEF GivenUp
<1>c. GivenUp'
  <2>1. ASSUME Alone(served), NEW i \in DOMAIN ts, ts[i].op \in {"INIT", "DROP"}
        PROVE  /\ Upto(Kept', excused)
               /\ \A j \in DOMAIN ts : j < i => Upto(Payload(ts[j]), excused)
    <3>1. Upto(Kept, excused) /\ \A j \in DOMAIN ms : j < i + 1 => Upto(Payload(ms[j]), excused)
      BY <1>7, <1>b, <2>1
    <3>2. Upto(b, excused)
      BY <1>5, <1>7, <3>1
    <3>3. Upto(Kept \o b, excused) /\ Upto(<<>>, excused)
      BY <1>1, <3>1, <3>2, UptoJoined DEF Upto
    <3>4. \A j \in DOMAIN ts : j < i => j + 1 < i + 1
      BY <1>7
    <3> QED
      BY <1>7, <1>8, <3>1, <3>3, <3>4
  <2>2. Alone(served)' <=> Alone(served)
    BY <1>2 DEF Alone
  <2>3. \A c \in Client : Alone(c)' => c = served
    BY <1>2 DEF Alone
  <2>4. \A i \in DOMAIN ts : ts[i].op = "CLOS" => \E k \in DOMAIN ms : ms[k].op = "CLOS"
    BY <1>7
  <2> QED
    BY <1>2, <1>4, <1>b, <2>1, <2>2, <2>3, <2>4 DEF GivenUp
<1>d. AllHeard'
  <2>1. ASSUME NEW c \in Client, NEW f \in Nat, Alone(c), excused < f, Heard(f)
        PROVE  Heard(f)'
    <3>1. f \in ToSet(b) => f \in ToSet(Kept')
      <4>1. b = <<>> => f \notin ToSet(b)
        BY ToSetNone
      <4> QED
        BY <1>1, <1>8, <4>1, ToSetIs
    <3>2. f \in ToSet(Kept) => f \in ToSet(Kept')
      <4>1. CASE Kept' = Kept \o b
        BY <1>1, <4>1, ToSetIs
      <4>2. CASE Head(ms).op \in {"INIT", "DROP"}
        <5>1. Upto(Kept, excused)
          BY <1>7, <1>9, <1>b, <2>1, <4>2
        <5>2. f \in ToSet(Kept) => f <= excused
          BY <5>1, UptoSet
        <5> QED
          BY <1>1, <2>1, <5>2
      <4> QED
        BY <1>8, <4>1, <4>2
    <3>3. ToSet(Carried(ms)) = ToSet(b) \cup ToSet(Carried(ts))
      BY <1>6, ToSetIs
    <3>4. ASSUME NEW d \in Client, f \in ToSet(Carried(sent[d]))
          PROVE  f \in ToSet(b) \/ f \in ToSet(Carried(sent'[d]))
      BY <1>3, <1>4, <1>6, <3>3, <3>4
    <3>5. f \in ToSet(played) \/ f \in ToSet(Kept) \/ \E d \in Client : f \in ToSet(Carried(sent[d]))
      BY <1>1, <2>1, SoundIs
    <3>6. f \in ToSet(played') \/ f \in ToSet(Kept') \/ \E d \in Client : f \in ToSet(Carried(sent'[d]))
      BY <3>1, <3>2, <3>4, <3>5
    <3> QED
      BY <1>1, <3>6, SoundIsNext
  <2> QED
    BY <1>1, <1>2, <2>1, LostKept
<1> QED
  BY <1>a, <1>c, <1>d
\* Windows reads the first frames the player has.
LEMMA WindowsPlain ==
  ASSUME PlainInv, PcmInv', Windows
  PROVE  SetUp' /\ GivenUp' /\ AllHeard'
<1>1. /\ SetUp /\ GivenUp /\ HeardIs /\ HeardIs' /\ Kept \in Seq(Frames) /\ played \in Seq(Frames)
      /\ excused \in Nat /\ player \in Player \cup {None}
  <2>1. HeardIs'
    BY PcmInvNext
  <2>2. SetUp /\ GivenUp /\ HeardIs
    BY PlainParts
  <2>3. Kept \in Seq(Frames) /\ played \in Seq(Frames)
    BY PlainKept
  <2>4. excused \in Nat /\ player \in Player \cup {None}
    BY PlainParts DEF PlayerOK
  <2> QED
    BY <2>1, <2>2, <2>3, <2>4
<1>2. PICK r : r = SubSeq(Buffered(player), 1, ReadLen(player, Period))
  OBVIOUS
<1>3. /\ player # None /\ played' = played \o r /\ player' = Read(player, Period)
      /\ UNCHANGED <<phase, sent, cut, served, excused, accepted>>
  BY <1>2 DEF Windows, WaveOutReads, linkVars, clientVars
<1>4. player \in Player /\ Kept = Buffered(player)
  BY <1>1, <1>3, KeptIs
<1>5. /\ Read(player, Period) \in Player /\ r \in Seq(Frames)
      /\ Buffered(player) = r \o Buffered(Read(player, Period))
  BY <1>2, <1>4, Constants, ReadIs
<1>6. PICK k \in Seq(Frames) : k = Buffered(player')
  BY <1>3, <1>5, PlayerIs
<1>7. player' # None /\ Kept' = k /\ Kept = r \o k
  BY <1>3, <1>4, <1>5, <1>6, Constants DEF Kept
<1>8. SetUp'
  BY <1>1, <1>3, <1>7 DEF SetUp
<1>9. Upto(Kept, excused) => Upto(Kept', excused)
  BY <1>5, <1>7, UptoJoined
<1>a. GivenUp'
  BY <1>1, <1>3, <1>9 DEF GivenUp, Alone
<1>b. AllHeard'
  <2>1. ASSUME NEW f, Heard(f)
        PROVE  Heard(f)'
    <3>1. ToSet(played') = ToSet(played) \cup ToSet(r) /\ ToSet(Kept) = ToSet(r) \cup ToSet(Kept')
      BY <1>1, <1>3, <1>5, <1>7, ToSetIs
    <3>2. f \in ToSet(played) \/ f \in ToSet(Kept) \/ \E d \in Client : f \in ToSet(Carried(sent[d]))
      BY <1>1, <2>1, SoundIs
    <3>3. f \in ToSet(played') \/ f \in ToSet(Kept') \/ \E d \in Client : f \in ToSet(Carried(sent'[d]))
      BY <1>3, <3>1, <3>2
    <3> QED
      BY <1>1, <3>3, SoundIsNext
  <2> QED
    BY <1>1, <1>3, <2>1, LostKept
<1> QED
  BY <1>8, <1>a, <1>b

\* A program sends a message.
LEMMA PostPlain ==
  ASSUME PlainInv, PcmInv', NEW c \in Client, NEW m \in Message, waiting = None,
         Post(c, <<m>>), UNCHANGED <<alive, opened, backlog, served, cut, answer, player, played>>,
         phase[c] \in {"open", "setup", "running", "paused"},
         phase'[c] \in {"setup", "running", "paused", "freed"},
         \A d \in Client : d # c => phase'[d] = phase[d],
         phase[c] = "open" => m.op = "INIT",
         m.op = "CLOS" => phase'[c] = "freed",
         Alone(c) /\ m.op \in {"INIT", "DROP"} => excused' = accepted',
         Alone(c) /\ phase'[c] \notin {"running", "paused"} => excused' = accepted',
         excused <= excused', accepted <= accepted',
         \A f \in Nat : accepted < f /\ f <= accepted' => f \in ToSet(Payload(m))
  PROVE  SetUp' /\ GivenUp' /\ AllHeard'
<1>1. /\ PcmInv /\ SetUp /\ GivenUp /\ AllHeard /\ HeardIs /\ HeardIs' /\ Ordered
      /\ Kept \in Seq(Frames) /\ played \in Seq(Frames)
      /\ excused \in Nat /\ accepted \in Nat /\ excused' \in Nat /\ accepted' \in Nat
  <2>1. PcmInv
    BY DEF PlainInv
  <2> QED
    <3>1. HeardIs'
      BY PcmInvNext
    <3>2. excused' \in Nat /\ accepted' \in Nat
      BY PcmNumbers
    <3>3. SetUp /\ GivenUp /\ AllHeard /\ HeardIs /\ Ordered
      BY PlainParts
    <3>4. Kept \in Seq(Frames) /\ played \in Seq(Frames)
      BY PlainKept
    <3>5. excused \in Nat /\ accepted \in Nat
      BY PlainParts
    <3> QED
      BY <2>1, <3>1, <3>2, <3>3, <3>4, <3>5
<1>2. Kept' = Kept /\ served' = served /\ cut' = cut /\ player' = player
  BY DEF Kept
<1>3. PICK ms \in Seq(Message) : ms = sent[c]
  BY <1>1, PostedIs
<1>4. PICK ns : ns = sent'[c]
  OBVIOUS
<1>5. /\ \A d \in Client : d # c => sent'[d] = sent[d]
      /\ \/ ns = ms /\ c \in cut
         \/ ns = Append(ms, m) /\ c \notin cut
  BY <1>1, <1>3, <1>4, PostedIs
<1>6. phase[c] # "closed" /\ phase'[c] # "closed"
  OBVIOUS
<1>7. \A d \in Client : (Alone(d) \/ Alone(d)') => d = c /\ Alone(c)
  BY <1>6 DEF Alone
<1>8. SetUp'
  <2>1. ASSUME c \notin cut, served = c => player = None
        PROVE  ns # <<>> /\ ns[1].op = "INIT"
    <3>1. phase[c] = "open" => ms = <<>> /\ m.op = "INIT"
      BY <1>1, <1>3 DEF SetUp
    <3>2. phase[c] # "open" => ms # <<>> /\ ms[1].op = "INIT"
      BY <1>1, <1>3, <1>6, <2>1 DEF SetUp
    <3>3. ns = Append(ms, m)
      BY <1>5, <2>1
    <3>4. ms = <<>> => Append(ms, m)[1] = m
      OBVIOUS
    <3>5. ms # <<>> => Append(ms, m)[1] = ms[1]
      BY FirstAndRest, AndLast
    <3>6. ns # <<>>
      BY <3>3, AndLast
    <3> QED
      BY <3>1, <3>2, <3>3, <3>4, <3>5, <3>6
  <2> QED
    BY <1>1, <1>2, <1>4, <1>5, <2>1 DEF SetUp
<1>9. GivenUp'
  <2> SUFFICES ASSUME Alone(c)'
               PROVE  /\ phase'[c] \notin {"running", "paused"} => excused' = accepted'
                      /\ phase'[c] # "freed" => c \notin cut'
                      /\ \A i \in DOMAIN ns : ns[i].op = "CLOS" => phase'[c] = "freed"
                      /\ \A i \in DOMAIN ns : ns[i].op \in {"INIT", "DROP"} =>
                           /\ Upto(Kept', excused')
                           /\ \A j \in DOMAIN ns : j < i => Upto(Payload(ns[j]), excused')
    BY <1>4, <1>7 DEF GivenUp
  <2>1. /\ Alone(c) /\ c \notin cut
        /\ \A i \in DOMAIN ms : ms[i].op # "CLOS"
        /\ \A i \in DOMAIN ms : ms[i].op \in {"INIT", "DROP"} =>
             /\ Upto(Kept, excused)
             /\ \A j \in DOMAIN ms : j < i => Upto(Payload(ms[j]), excused)
    BY <1>1, <1>3, <1>7 DEF GivenUp
  <2>2. /\ ns = Append(ms, m) /\ DOMAIN ms = 1..Len(ms) /\ DOMAIN ns = 1..Len(ms) + 1 /\ Len(ms) \in Nat
        /\ \A i \in DOMAIN ms : i \in DOMAIN ns /\ ns[i] = ms[i]
        /\ \A i \in DOMAIN ns : i \notin DOMAIN ms => i = Len(ms) + 1 /\ ns[i] = m
    BY <1>5, <2>1, AndLast
  <2>3. ASSUME NEW i \in DOMAIN ns, ns[i].op \in {"INIT", "DROP"}
        PROVE  /\ Upto(Kept', excused')
               /\ \A j \in DOMAIN ns : j < i => Upto(Payload(ns[j]), excused')
    <3>1. CASE i \in DOMAIN ms
      <4>1. Upto(Kept, excused) /\ \A j \in DOMAIN ms : j < i => Upto(Payload(ms[j]), excused)
        BY <2>1, <2>2, <2>3, <3>1
      <4>2. Upto(Kept, excused')
        BY <1>1, <4>1, UptoMore
      <4>3. ASSUME NEW j \in DOMAIN ns, j < i
            PROVE  Upto(Payload(ns[j]), excused')
        <5>1. j \in DOMAIN ms
          BY <2>2, <3>1, <4>3
        <5>2. Payload(ms[j]) \in Seq(Frames) /\ Upto(Payload(ms[j]), excused)
          BY <4>1, <4>3, <5>1, PayloadIs
        <5> QED
          BY <1>1, <2>2, <5>1, <5>2, UptoMore
      <4> QED
        BY <1>2, <4>2, <4>3
    <3>2. CASE i \notin DOMAIN ms
      <4>1. i = Len(ms) + 1 /\ excused' = accepted'
        BY <2>1, <2>2, <2>3, <3>2
      <4>2. Upto(Kept, accepted) /\ Upto(Carried(ms), accepted)
        BY <1>1, <1>3 DEF Ordered, InFlight
      <4>3. Upto(Kept, accepted')
        BY <1>1, <4>2, UptoMore
      <4>4. ASSUME NEW j \in DOMAIN ns, j < i
            PROVE  Upto(Payload(ns[j]), accepted')
        <5>1. j \in DOMAIN ms
          BY <2>2, <4>1, <4>4
        <5>2. Payload(ms[j]) \in Seq(Frames) /\ Upto(Payload(ms[j]), accepted)
          BY <4>2, <5>1, PayloadIs, UptoEach
        <5> QED
          BY <1>1, <2>2, <5>1, <5>2, UptoMore
      <4> QED
        BY <1>2, <4>1, <4>3, <4>4
    <3> QED
      BY <3>1, <3>2
  <2> QED
    BY <1>2, <2>1, <2>2, <2>3
<1>a. AllHeard'
  <2>1. ASSUME NEW d \in Client, Alone(d)', NEW f \in Nat, excused' < f, f <= accepted'
        PROVE  Heard(f)'
    <3>1. Alone(c) /\ c \notin cut /\ ns = Append(ms, m)
      BY <1>1, <1>5, <1>7, <2>1 DEF GivenUp
    <3>2. ToSet(Carried(ns)) = ToSet(Carried(ms)) \cup ToSet(Payload(m))
      BY <3>1, CarriedLast, ToSetIs
    <3>3. CASE f <= accepted
      <4>1. excused < f
        BY <1>1, <2>1
      <4>2. Heard(f)
        BY <1>1, <3>1, <3>3, <4>1, LostThen
      <4>3. f \in ToSet(played) \/ f \in ToSet(Kept) \/ \E e \in Client : f \in ToSet(Carried(sent[e]))
        BY <1>1, <4>2, SoundIs
      <4>4. \A e \in Client : f \in ToSet(Carried(sent[e])) => f \in ToSet(Carried(sent'[e]))
        BY <1>3, <1>4, <1>5, <3>2
      <4>5. f \in ToSet(played') \/ f \in ToSet(Kept') \/ \E e \in Client : f \in ToSet(Carried(sent'[e]))
        BY <1>2, <4>3, <4>4
      <4> QED
        BY <1>1, <4>5, SoundIsNext
    <3>4. CASE accepted < f
      <4>1. f \in ToSet(Carried(sent'[c]))
        BY <1>4, <2>1, <3>2, <3>4
      <4> QED
        BY <1>1, <4>1, SoundIsNext
    <3> QED
      BY <1>1, <3>3, <3>4
  <2> QED
    BY <1>1, <2>1, LostIf
<1> QED
  BY <1>8, <1>9, <1>a
LEMMA HandlePlain ==
  ASSUME PlainInv, PcmInv', Handle, UNCHANGED clientVars
  PROVE  SetUp' /\ GivenUp' /\ AllHeard'
<1>1. KeepServing /\ served # None /\ sent[served] # <<>>
  BY DEF Handle, KeepServing
<1>2. /\ PlayerOK /\ GivenUp /\ answer \in [Client -> Seq(Nat)] /\ served \in Client
      /\ sent[served] \in Seq(Message)
  BY <1>1, PlainParts DEF LinkTypeOK
<1>3. Kept \in Seq(Frames) /\ (player = None => Head(sent[served]).op = "INIT")
  BY <1>1, PlainKept, InitFirst
<1>4. Head(sent[served]) \in Message /\ 1 \in DOMAIN sent[served] /\ Head(sent[served]) = sent[served][1]
  BY <1>1, <1>2, FirstAndRest
<1>5. (Head(sent[served]).op # "PLAY" => Kept = Kept \o Payload(Head(sent[served])))
  BY <1>3, <1>4, PayloadIs, ConcatEmptySeq
<1>6. CASE HandleInit
  <2>1. /\ player' = NewPlayer /\ Handled /\ UNCHANGED <<answer, played>>
        /\ Head(sent[served]).op = "INIT"
    BY <1>6 DEF HandleInit, Incoming
  <2>2. player' # None /\ Kept' = <<>>
    BY <2>1, NewPlayerIs, Constants DEF Kept
  <2> QED
    BY <1>1, <1>2, <2>1, <2>2, HandledPlain
<1>7. ~ WithoutPlayer
  BY <1>3 DEF WithoutPlayer
<1>8. CASE HandlePlay
  <2>1. /\ player # None /\ Head(sent[served]).op = "PLAY"
        /\ player' = Write(player, Head(sent[served]).buffer)
        /\ Handled /\ UNCHANGED <<answer, played>>
    BY <1>8 DEF HandlePlay
  <2>2. player \in Player /\ Kept = Buffered(player)
    BY <1>2, <2>1, KeptIs DEF PlayerOK
  <2>3. PICK b \in Seq(Frames) : b = Head(sent[served]).buffer /\ b = Payload(Head(sent[served]))
    BY <1>4, <2>1, PayloadIs
  <2>4. player' \in Player /\ Buffered(player') = Kept \o b
    BY <2>1, <2>2, <2>3, WriteIs
  <2>5. player' # None /\ Kept' = Kept \o Payload(Head(sent[served]))
    BY <2>3, <2>4, Constants DEF Kept
  <2> QED
    BY <1>1, <1>2, <2>1, <2>5, HandledPlain
<1>9. CASE HandleDelay
  <2>1. /\ player # None /\ Head(sent[served]).op = "DELA" /\ Reply(GetDelay(player)) /\ Handled
        /\ UNCHANGED playerVars
    BY <1>9 DEF HandleDelay, Incoming
  <2>2. player' # None /\ Kept' = Kept \o Payload(Head(sent[served])) /\ played' = played
    BY <1>5, <2>1 DEF Kept, playerVars
  <2>3. /\ answer' \in [Client -> Seq(Nat)]
        /\ \A c \in Client : c # served => answer'[c] = answer[c]
    <3>1. answer' \in [Client -> Seq(Nat)]
      BY PcmInvNext DEF LinkTypeOK
    <3> QED
      BY <1>2, <2>1, <3>1 DEF Reply
  <2> QED
    BY <1>1, <2>1, <2>2, <2>3, HandledPlain
<1>a. CASE HandleDrop
  <2>1. /\ player # None /\ player' = DropFrames(player) /\ Handled
        /\ UNCHANGED <<answer, played>> /\ Head(sent[served]).op = "DROP"
    BY <1>a DEF HandleDrop, Incoming
  <2>2. player \in Player
    BY <1>2, <2>1 DEF PlayerOK
  <2>3. player' # None /\ Kept' = <<>>
    BY <2>1, <2>2, DropFramesIs, Constants DEF Kept
  <2> QED
    BY <1>1, <1>2, <2>1, <2>3, HandledPlain
<1>b. CASE HandlePause \/ HandleResume
  <2>1. Head(sent[served]).op \in {"PAUS", "RESU"}
    BY <1>b DEF HandlePause, HandleResume, Incoming
  <2>2. player # None /\ waveOut # None
    BY <1>2, <1>3, <2>1 DEF PlayerOK
  <2>3. Handled /\ UNCHANGED <<answer, player, played>>
    BY <1>b, <2>2 DEF HandlePause, HandleResume
  <2>4. Kept' = Kept \o Payload(Head(sent[served])) /\ player' # None
    BY <1>5, <2>1, <2>2, <2>3 DEF Kept
  <2> QED
    BY <1>1, <1>2, <2>3, <2>4, HandledPlain
<1>c. CASE HandleClose
  <2>1. HangupClient /\ Head(sent[served]).op = "CLOS"
    BY <1>c DEF HandleClose, Incoming
  <2>2. Alone(served) => phase[served] = "freed"
    BY <1>2, <1>4, <2>1 DEF GivenUp
  <2> QED
    BY <1>1, <2>1, <2>2, HangupPlain
<1> QED
  BY <1>6, <1>7, <1>8, <1>9, <1>a, <1>b, <1>c DEF Handle

LEMMA ServerPlain ==
  ASSUME PlainInv, PcmInv', Server
  PROVE  SetUp' /\ GivenUp' /\ AllHeard'
<1>1. UNCHANGED clientVars
  BY DEF Server
<1>2. CASE Accept /\ UNCHANGED playerVars
  <2>1. UNCHANGED <<phase, sent, player, cut, excused, accepted, played>> /\ served = None
    BY <1>1, <1>2 DEF Accept, clientVars, playerVars
  <2>2. player = None
    BY <2>1, PlainParts DEF Standby
  <2> QED
    BY <2>1, <2>2, StillPlain
<1>3. CASE PreemptClient
  <2>1. served # None /\ ~ KeepServing /\ HangupClient
    BY <1>3 DEF PreemptClient
  <2>2. ~ Alone(served)
    <3>1. backlog \in Seq(Client) /\ backlog # <<>>
      BY <2>1, PlainParts DEF KeepServing, LinkTypeOK
    <3>2. 1 \in DOMAIN backlog
      BY <3>1, FirstAndRest
    <3> QED
      BY <3>2, ServedSpoke DEF Alone
  <2> QED
    BY <1>1, <2>1, <2>2, HangupPlain
<1>4. CASE Handle
  BY <1>1, <1>4, HandlePlain
<1> QED
  BY <1>2, <1>3, <1>4 DEF Server
\* What a program without further habits does that sends a message.
LEMMA RequestPlain ==
  ASSUME PlainInv, PcmInv', Habits = {}, NEW c \in Client, UNCHANGED playerVars,
         \/ HwParams(c) \/ Drop(c) \/ HwFree(c) \/ Pause(c) \/ Unpause(c) \/ Resume(c) \/ BeginQuery(c)
         \/ WriteFrames(c)
  PROVE  SetUp' /\ GivenUp' /\ AllHeard'
<1>1. ClientOK /\ SetUp /\ GivenUp /\ excused \in Nat /\ accepted \in Nat /\ excused <= accepted
  BY PlainParts
<1>2. /\ phase[c] # "drained"
      /\ Alone(c) /\ phase[c] \notin {"running", "paused"} => excused = accepted
  BY <1>1 DEF SetUp, GivenUp
<1>3. UNCHANGED <<player, played>>
  BY DEF playerVars
<1> DEFINE Quiet(op, now, next) ==
             /\ phase[c] \in now /\ phase'[c] = next /\ \A d \in Client : d # c => phase'[d] = phase[d]
             /\ waiting = None /\ Post(c, <<[op |-> op]>>)
             /\ UNCHANGED <<alive, opened, backlog, served, cut, answer, accepted>>
<1>4. ASSUME NEW op \in {"INIT", "DROP", "CLOS", "PAUS", "RESU", "DELA"},
             NEW now \in SUBSET {"open", "setup", "running", "paused"},
             NEW next \in {"setup", "running", "paused", "freed"},
             Quiet(op, now, next), "open" \in now => op = "INIT", op = "CLOS" => next = "freed",
             op \in {"INIT", "DROP"} \/ next \notin {"running", "paused"} =>
               excused' = accepted \/ (phase[c] \notin {"running", "paused"} /\ excused' = excused),
             excused' \in {excused, accepted}
      PROVE  SetUp' /\ GivenUp' /\ AllHeard'
  <2>1. PICK m : m = [op |-> op]
    OBVIOUS
  <2>2. m \in Message /\ m.op = op
    BY <2>1, PlainRequests
  <2>3. /\ phase[c] \in {"open", "setup", "running", "paused"}
        /\ phase'[c] \in {"setup", "running", "paused", "freed"}
        /\ \A d \in Client : d # c => phase'[d] = phase[d]
        /\ phase[c] = "open" => m.op = "INIT"
        /\ m.op = "CLOS" => phase'[c] = "freed"
        /\ waiting = None /\ Post(c, <<m>>)
        /\ UNCHANGED <<alive, opened, backlog, served, cut, answer>> /\ accepted' = accepted
    BY <1>4, <2>1, <2>2
  <2>4. Alone(c) /\ (m.op \in {"INIT", "DROP"} \/ phase'[c] \notin {"running", "paused"}) => excused' = accepted'
    BY <1>2, <1>4, <2>2
  <2>5. excused <= excused' /\ accepted <= accepted'
    BY <1>1, <1>4, <2>3
  <2>6. \A f \in Nat : ~ (accepted < f /\ f <= accepted')
    BY <1>1, <2>3
  <2> QED
    BY <1>3, <2>2, <2>3, <2>4, <2>5, <2>6, PostPlain
<1>5. ASSUME NEW now, NEW next \in {"setup", "running", "paused", "freed"}, Ioctl(c, now, next)
      PROVE  /\ phase[c] \in now /\ phase'[c] = next /\ \A d \in Client : d # c => phase'[d] = phase[d]
             /\ waiting = None
  BY <1>1, <1>5, IoctlIs
<1>6. CASE HwParams(c)
  <2>1. /\ Ioctl(c, {"open", "setup", "drained"}, "setup")
        /\ Request(c, [op |-> "INIT"]) /\ UNCHANGED <<accepted, excused>>
    BY <1>6 DEF HwParams
  <2>2. Quiet("INIT", {"open", "setup"}, "setup")
    BY <1>2, <1>5, <2>1 DEF Request
  <2> QED
    BY <1>4, <2>1, <2>2
<1>7. CASE Drop(c)
  <2>1. /\ Ioctl(c, {"running", "paused"}, "setup")
        /\ Request(c, [op |-> "DROP"]) /\ accepted' = accepted /\ excused' = accepted
    BY <1>7 DEF Drop
  <2>2. Quiet("DROP", {"running", "paused"}, "setup")
    BY <1>2, <1>5, <2>1 DEF Request
  <2> QED
    BY <1>4, <2>1, <2>2
<1>8. CASE HwFree(c)
  <2>1. /\ Ioctl(c, {"setup", "running", "drained"}, "freed")
        /\ Request(c, [op |-> "CLOS"]) /\ accepted' = accepted /\ excused' = accepted
    BY <1>2, <1>8 DEF HwFree
  <2>2. Quiet("CLOS", {"setup", "running"}, "freed")
    BY <1>2, <1>5, <2>1 DEF Request
  <2> QED
    BY <1>4, <2>1, <2>2
<1>9. CASE Pause(c)
  <2>1. /\ Ioctl(c, {"running"}, "paused")
        /\ Request(c, [op |-> "PAUS"]) /\ UNCHANGED <<accepted, excused>>
    BY <1>9 DEF Pause, PauseRequest
  <2>2. Quiet("PAUS", {"running"}, "paused")
    BY <1>5, <2>1 DEF Request
  <2> QED
    BY <1>4, <2>1, <2>2
<1>d. CASE Unpause(c)
  <2>1. /\ Ioctl(c, {"paused"}, "running")
        /\ Request(c, [op |-> "PAUS"]) /\ UNCHANGED <<accepted, excused>>
    BY <1>d DEF Unpause, PauseRequest
  <2>2. Quiet("PAUS", {"paused"}, "running")
    BY <1>5, <2>1 DEF Request
  <2> QED
    BY <1>4, <2>1, <2>2
<1>a. CASE Resume(c)
  <2>1. /\ Ioctl(c, {"running", "paused"}, "running")
        /\ Request(c, [op |-> "RESU"]) /\ UNCHANGED <<accepted, excused>>
    BY <1>a DEF Resume
  <2>2. Quiet("RESU", {"running", "paused"}, "running")
    BY <1>5, <2>1 DEF Request
  <2> QED
    BY <1>4, <2>1, <2>2
<1>b. CASE BeginQuery(c)
  <2>1. /\ Ioctl(c, {"setup", "running"}, phase[c]) /\ phase[c] \in {"setup", "running"}
        /\ Post(c, <<[op |-> "DELA"]>>) /\ UNCHANGED <<alive, opened, backlog, served, cut, answer>>
        /\ UNCHANGED <<accepted, excused>>
    BY <1>b DEF BeginQuery, Ioctl
  <2>2. Quiet("DELA", {phase[c]}, phase[c])
    BY <1>5, <2>1
  <2> QED
    BY <1>4, <2>1, <2>2
<1>c. CASE WriteFrames(c)
  <2>1. PICK n \in 1..(MaxFrames - accepted) :
          /\ Request(c, [op |-> "PLAY", buffer |-> [i \in 1..n |-> accepted + i]])
          /\ accepted' = accepted + n
    BY <1>c DEF WriteFrames
  <2>2. PICK b : b = [i \in 1..n |-> accepted + i]
    OBVIOUS
  <2>3. PICK m : m = [op |-> "PLAY", buffer |-> b]
    OBVIOUS
  <2>4. n \in Nat /\ MaxFrames \in Nat /\ accepted + n <= MaxFrames
    BY <1>1, Constants DEF ClientOK
  <2>5. b \in Seq(Frames) /\ \A f \in Nat : accepted < f /\ f <= accepted' => f \in ToSet(b)
    <3>1. \A i \in 1..n : accepted + i \in Frames
      BY <1>1, <2>4 DEF Frames
    <3>2. [i \in 1..n |-> accepted + i] \in Seq(Frames)
      BY <2>4, <3>1, IsASeq
    <3>3. ASSUME NEW f \in Nat, accepted < f, f <= accepted'
          PROVE  f \in ToSet(b)
      <4>1. f - accepted \in 1..n /\ f = accepted + (f - accepted)
        BY <1>1, <2>1, <2>4, <3>3
      <4>2. b[f - accepted] = f /\ f - accepted \in DOMAIN b
        BY <2>2, <4>1
      <4> QED
        BY <4>2 DEF ToSet
    <3> QED
      BY <2>2, <3>2, <3>3
  <2>6. m \in Message /\ m.op = "PLAY" /\ Payload(m) = b
    <3>1. m \in Message /\ m.op = "PLAY" /\ m.buffer = b
      BY <2>3, <2>5 DEF Message
    <3> QED
      BY <3>1, PayloadIs
  <2>7. Ioctl(c, {"setup", "running", "drained"}, "running") /\ excused' = excused
    BY <1>c DEF WriteFrames
  <2>8. /\ phase[c] \in {"setup", "running"} /\ phase'[c] = "running" /\ waiting = None
        /\ \A d \in Client : d # c => phase'[d] = phase[d]
    BY <1>2, <1>5, <2>7
  <2>9. Post(c, <<m>>) /\ UNCHANGED <<alive, opened, backlog, served, cut, answer>>
    BY <2>1, <2>2, <2>3 DEF Request
  <2>a. excused <= excused' /\ accepted <= accepted'
    BY <1>1, <2>1, <2>4, <2>7
  <2> QED
    BY <1>3, <2>5, <2>6, <2>8, <2>9, <2>a, PostPlain
<1> QED
  BY <1>6, <1>7, <1>8, <1>9, <1>a, <1>b, <1>c, <1>d

\* A program opens the device: the device is its own if all others never did.
LEMMA InfoPlain ==
  ASSUME PlainInv, PcmInv', NEW c \in Client, UNCHANGED playerVars, Info(c)
  PROVE  SetUp' /\ GivenUp' /\ AllHeard'
<1>1. ClientOK /\ SetUp /\ GivenUp /\ Connected /\ Standby
  BY PlainParts
<1>2. /\ phase[c] = "closed" /\ phase'[c] = "open" /\ \A d \in Client : d # c => phase'[d] = phase[d]
      /\ UNCHANGED <<served, cut, sent, accepted, excused, player, played>>
  BY <1>1, IoctlIs DEF Info, playerVars
<1>3. sent[c] = <<>> /\ DOMAIN <<>> = {}
  BY <1>1, <1>2 DEF Connected, Standby
<1>4. SetUp'
  BY <1>1, <1>2, <1>3 DEF SetUp
<1>5. \A d \in Client : Alone(d)' => d = c /\ Alone(c)
  BY <1>2 DEF Alone
<1>6. GivenUp'
  BY <1>1, <1>2, <1>3, <1>5 DEF GivenUp
<1>7. (\E d \in Client : Alone(d)') => excused' = accepted'
  BY <1>1, <1>2, <1>5 DEF GivenUp
<1>8. excused' \in Nat /\ accepted' \in Nat
  BY PcmNumbers
<1>9. AllHeard'
  BY <1>7, <1>8, LostIf
<1> QED
  BY <1>4, <1>6, <1>9

LEMMA NextPlain ==
  ASSUME PlainInv, PcmInv', Habits = {}, [Next]_vars
  PROVE  SetUp' /\ GivenUp' /\ AllHeard'
<1>1. ASSUME NEW c \in Client, Agent,
             \/ HwParams(c) \/ Drop(c) \/ HwFree(c) \/ Pause(c) \/ Unpause(c) \/ Resume(c) \/ BeginQuery(c)
             \/ WriteFrames(c)
      PROVE  SetUp' /\ GivenUp' /\ AllHeard'
  BY <1>1, RequestPlain DEF Agent
<1>2. ASSUME NEW c \in Client, Agent, Info(c)
      PROVE  SetUp' /\ GivenUp' /\ AllHeard'
  BY <1>2, InfoPlain DEF Agent
<1>3. ASSUME NEW c \in Client, Agent, Prepare(c)
      PROVE  SetUp' /\ GivenUp' /\ AllHeard'
  <2>1. /\ Ioctl(c, {"setup"}, "setup") /\ UNCHANGED <<linkVars, accepted, excused, playerVars>>
    BY <1>3 DEF Prepare, Agent
  <2>2. phase[c] = "setup" /\ phase'[c] = "setup" /\ \A d \in Client : d # c => phase'[d] = phase[d]
    BY <2>1, PlainParts, IoctlIs
  <2>3. phase' = phase
    <3>1. phase' \in [Client -> {"closed", "open", "setup", "running", "paused", "drained", "freed"}]
      BY PcmInvNext DEF ClientOK
    <3>2. phase \in [Client -> {"closed", "open", "setup", "running", "paused", "drained", "freed"}]
      BY PlainParts DEF ClientOK
    <3> QED
      BY <2>2, <3>1, <3>2
  <2> QED
    BY <2>1, <2>3, StillPlain DEF linkVars, playerVars
<1>8. ASSUME NEW c \in Client, Agent, InfoFails(c)
      PROVE  SetUp' /\ GivenUp' /\ AllHeard'
  <2>1. /\ Ioctl(c, {"closed"}, "closed") /\ UNCHANGED <<linkVars, accepted, excused, playerVars>>
    BY <1>8 DEF InfoFails, OpenFails, Agent
  <2>2. phase[c] = "closed" /\ phase'[c] = "closed" /\ \A d \in Client : d # c => phase'[d] = phase[d]
    BY <2>1, PlainParts, IoctlIs
  <2>3. phase' = phase
    <3>1. phase' \in [Client -> {"closed", "open", "setup", "running", "paused", "drained", "freed"}]
      BY PcmInvNext DEF ClientOK
    <3>2. phase \in [Client -> {"closed", "open", "setup", "running", "paused", "drained", "freed"}]
      BY PlainParts DEF ClientOK
    <3> QED
      BY <2>2, <3>1, <3>2
  <2> QED
    BY <2>1, <2>3, StillPlain DEF linkVars, playerVars
<1>4. CASE Agent /\ (EndQuery \/ Killed)
  BY <1>4, StillPlain DEF Agent, EndQuery, Killed, SigPipe, clientVars, playerVars
<1>5. ASSUME NEW c \in Client
      PROVE  ~ Drain(c)
  BY DEF Drain
<1>6. CASE UNCHANGED vars
  BY <1>6, StillPlain DEF vars, linkVars, clientVars, playerVars
<1>7. CASE Agent
  BY <1>1, <1>2, <1>3, <1>4, <1>5, <1>7, <1>8 DEF Agent
<1> QED
  BY <1>6, <1>7, ServerPlain, WindowsPlain DEF Next

\* NothingLost holds of programs that use the device in the plainest way: a frame the agent
\* accepted of a program that has the device for itself is played or on its way, unless the
\* program gave it up. (With the habit "reuse" it does not.)
THEOREM NothingLostHolds ==
  ASSUME Habits = {}
  PROVE  Spec => []NothingLost
<1>1. Init => PlainInv
  <2> SUFFICES ASSUME Init
               PROVE  PlainInv
    OBVIOUS
  <2>1. PcmInv
    BY InitPcm
  <2>2. /\ sent = [c \in Client |-> <<>>] /\ phase = [c \in Client |-> "closed"] /\ cut = {}
        /\ accepted = 0 /\ excused = 0 /\ DOMAIN <<>> = {} /\ 1..0 = {}
    BY DEF Init, LinkInit
  <2>3. SetUp /\ GivenUp
    BY <2>2 DEF SetUp, GivenUp
  <2>4. AllHeard
    BY <2>2 DEF AllHeard
  <2> QED
    BY <2>1, <2>3, <2>4 DEF PlainInv
<1>2. PlainInv /\ [Next]_vars => PlainInv'
  <2> SUFFICES ASSUME PlainInv, [Next]_vars
               PROVE  PlainInv'
    OBVIOUS
  <2>1. PcmInv'
    BY NextPcm DEF PlainInv
  <2>2. SetUp' /\ GivenUp' /\ AllHeard'
    BY <2>1, NextPlain
  <2> QED
    BY <2>1, <2>2 DEF PlainInv
<1>3. PlainInv => NothingLost
  BY Zenon DEF PlainInv, AllHeard, NothingLost, Alone
<1> QED
  BY <1>1, <1>2, <1>3, PTL DEF Spec
=============================================================================
