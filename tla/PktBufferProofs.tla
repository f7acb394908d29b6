--------------------------- MODULE PktBufferProofs ---------------------------
(* Theorems about PktBuffer, for every stream, channel and buffer limit.   *)
EXTENDS PktBuffer, SequenceTheorems, FiniteSetTheorems, WellFoundedInduction, TLAPS

-----------------------------------------------------------------------------
(* Type correctness, whatever the network does with whatever stream.       *)

(* While the count says that there is a frame, the list holds one.         *)
CountedOnList == length > 0 => queue # <<>>

LEMMA InsertAtType ==
    ASSUME NEW S, NEW s \in Seq(S), NEW e \in S, NEW i \in 1 .. Len(s) + 1
    PROVE  /\ InsertAt(s, i, e) \in Seq(S)
           /\ InsertAt(s, i, e) # <<>>
<1> DEFINE l == SubSeq(s, 1, i - 1)
           r == SubSeq(s, i, Len(s))
<1>1. l \in Seq(S) /\ r \in Seq(S)
  OBVIOUS
<1>2. l \o <<e>> \o r \in Seq(S) /\ Len(l \o <<e>> \o r) = Len(l) + 1 + Len(r)
  BY <1>1
<1>3. QED
  BY <1>1, <1>2 DEF InsertAt

(* What InsertAt puts where.                                               *)
LEMMA InsertAtElements ==
    ASSUME NEW S, NEW s \in Seq(S), NEW e \in S, NEW i \in 1 .. Len(s) + 1
    PROVE  /\ InsertAt(s, i, e) \in Seq(S)
           /\ Len(InsertAt(s, i, e)) = Len(s) + 1
           /\ \A j \in 1 .. i - 1 : InsertAt(s, i, e)[j] = s[j]
           /\ InsertAt(s, i, e)[i] = e
           /\ \A j \in i .. Len(s) : InsertAt(s, i, e)[j + 1] = s[j]
<1> DEFINE n == Len(s)
           l == SubSeq(s, 1, i - 1)
           r == SubSeq(s, i, n)
           le == l \o <<e>>
<1>1. n \in Nat /\ i \in Int /\ 1 <= i /\ i <= n + 1 /\ \A j \in 1 .. n : s[j] \in S
  OBVIOUS
<1>2. l \in Seq(S) /\ Len(l) = i - 1 /\ \A j \in 1 .. i - 1 : l[j] = s[j]
  <2>1. \A j \in 1 .. i - 1 : s[j] \in S
    BY <1>1
  <2>2. /\ l \in Seq(S)
        /\ Len(l) = IF 1 <= i - 1 THEN i - 1 - 1 + 1 ELSE 0
        /\ \A j \in 1 .. i - 1 - 1 + 1 : l[j] = s[1 + j - 1]
    BY <1>1, <2>1, SubSeqProperties
  <2>3. QED
    BY <1>1, <2>2
<1>3. r \in Seq(S) /\ Len(r) = n - i + 1 /\ \A j \in 1 .. n - i + 1 : r[j] = s[i + j - 1]
  <2>1. \A j \in i .. n : s[j] \in S
    BY <1>1
  <2>2. /\ r \in Seq(S)
        /\ Len(r) = IF i <= n THEN n - i + 1 ELSE 0
        /\ \A j \in 1 .. n - i + 1 : r[j] = s[i + j - 1]
    BY <1>1, <2>1, SubSeqProperties
  <2>3. QED
    BY <1>1, <2>2
<1> HIDE DEF l, r
<1>4. le \in Seq(S) /\ Len(le) = i /\ le[i] = e /\ \A j \in 1 .. i - 1 : le[j] = s[j]
  <2>1. <<e>> \in Seq(S) /\ Len(<<e>>) = 1 /\ <<e>>[1] = e
    OBVIOUS
  <2>2. /\ le \in Seq(S) /\ Len(le) = Len(l) + Len(<<e>>)
        /\ \A j \in 1 .. Len(l) + Len(<<e>>) : le[j] = IF j <= Len(l) THEN l[j] ELSE <<e>>[j - Len(l)]
    BY <1>2, <2>1, ConcatProperties
  <2>3. Len(l) + Len(<<e>>) = i
    BY <1>1, <1>2, <2>1
  <2>4. le[i] = e
    BY <1>1, <1>2, <2>1, <2>2, <2>3
  <2>5. \A j \in 1 .. i - 1 : le[j] = s[j]
    BY <1>1, <1>2, <2>2, <2>3
  <2>6. QED
    BY <2>2, <2>3, <2>4, <2>5
<1> HIDE DEF le
<1>5. /\ le \o r \in Seq(S) /\ Len(le \o r) = n + 1
      /\ \A j \in 1 .. n + 1 : (le \o r)[j] = IF j <= i THEN le[j] ELSE r[j - i]
  <2>1. /\ le \o r \in Seq(S) /\ Len(le \o r) = Len(le) + Len(r)
        /\ \A j \in 1 .. Len(le) + Len(r) : (le \o r)[j] = IF j <= Len(le) THEN le[j] ELSE r[j - Len(le)]
    BY <1>3, <1>4, ConcatProperties
  <2>2. Len(le) + Len(r) = n + 1
    BY <1>1, <1>3, <1>4
  <2>3. QED
    BY <1>4, <2>1, <2>2
<1>6. \A j \in 1 .. i - 1 : (le \o r)[j] = s[j]
  BY <1>1, <1>4, <1>5
<1>7. (le \o r)[i] = e
  BY <1>1, <1>4, <1>5
<1>8. ASSUME NEW j \in i .. n PROVE (le \o r)[j + 1] = s[j]
  <2>1. j + 1 \in 1 .. n + 1 /\ ~(j + 1 <= i) /\ j + 1 - i \in 1 .. n - i + 1
        /\ i + (j + 1 - i) - 1 = j
    BY <1>1
  <2>2. (le \o r)[j + 1] = r[j + 1 - i]
    BY <1>5, <2>1
  <2>3. r[j + 1 - i] = s[i + (j + 1 - i) - 1]
    BY <1>3, <2>1
  <2>4. QED
    BY <2>1, <2>2, <2>3
<1>9. InsertAt(s, i, e) = le \o r
  BY DEF InsertAt, le, l, r
<1>10. QED
  BY <1>5, <1>6, <1>7, <1>8, <1>9

LEMMA InsertAtKeeps ==
    ASSUME NEW S, NEW s \in Seq(S), NEW e \in S, NEW i \in 1 .. Len(s) + 1, NEW j \in DOMAIN s
    PROVE  \E k \in DOMAIN InsertAt(s, i, e) : InsertAt(s, i, e)[k] = s[j]
<1> DEFINE t == InsertAt(s, i, e)
<1>1. /\ t \in Seq(S) /\ Len(t) = Len(s) + 1
      /\ \A k \in 1 .. i - 1 : t[k] = s[k]
      /\ \A k \in i .. Len(s) : t[k + 1] = s[k]
  BY InsertAtElements
<1> HIDE DEF t
<1>2. j \in 1 .. Len(s) /\ DOMAIN t = 1 .. Len(s) + 1 /\ i \in Int /\ Len(s) \in Nat
  BY <1>1
<1>3. CASE j < i
  <2>1. j \in 1 .. i - 1 /\ j \in DOMAIN t
    BY <1>2, <1>3
  <2>2. QED
    BY <1>1, <2>1 DEF t
<1>4. CASE j >= i
  <2>1. j \in i .. Len(s) /\ j + 1 \in DOMAIN t
    BY <1>2, <1>4
  <2>2. QED
    BY <1>1, <2>1 DEF t
<1>5. QED
  BY <1>2, <1>3, <1>4

LEMMA NewNodeType ==
    ASSUME NEW p \in Packets
    PROVE  NewNode(p) \in Frames
BY DEF NewNode, Frames

LEMMA StreamType ==
    ASSUME NEW p \in Packets
    PROVE  SeqNum(p) \in SeqNums /\ TimeStamp(p) \in Nat
<1>1. Stream[p] \in RtpPkts
  BY StreamAssumption DEF StreamAssumption, Packets
<1>2. QED
  BY <1>1 DEF RtpPkts, SeqNum, TimeStamp

(* The node that lost its place in the list is still in the chain of the  *)
(* frame it headed.                                                        *)
OffList ==
    \/ detached = <<>>
    \/ Headless
    \/ /\ detached \in Seq(Frames)
       /\ queue # <<>>
       /\ \E j \in DOMAIN queue[1].pkts : queue[1].pkts[j] = HeadPkt(detached[Len(detached)])

(* The part of the type invariant that adding a packet can disturb.        *)
ListType ==
    /\ queue \in Seq(Frames)
    /\ OffList
    /\ length \in Nat
    /\ receiver \in {"running", "dead"}
    /\ CountedOnList

LEMMA OffListKept ==
    ASSUME OffList, detached' = detached,
           queue # <<>> =>
             /\ queue' # <<>>
             /\ \A j \in DOMAIN queue[1].pkts :
                   \E i \in DOMAIN queue'[1].pkts : queue'[1].pkts[i] = queue[1].pkts[j]
    PROVE  OffList' /\ (Headless' <=> Headless)
<1>1. CASE detached = <<>> \/ Headless
  BY <1>1 DEF OffList, Headless, NoNode
<1>2. CASE ~(detached = <<>> \/ Headless)
  <2>1. /\ detached \in Seq(Frames) /\ queue # <<>>
        /\ \E j \in DOMAIN queue[1].pkts : queue[1].pkts[j] = HeadPkt(detached[Len(detached)])
    BY <1>2 DEF OffList
  <2>2. PICK j \in DOMAIN queue[1].pkts : queue[1].pkts[j] = HeadPkt(detached[Len(detached)])
    BY <2>1
  <2>3. queue' # <<>> /\ \E i \in DOMAIN queue'[1].pkts : queue'[1].pkts[i] = queue[1].pkts[j]
    BY <2>1, <2>2
  <2>4. OffList'
    BY <2>1, <2>2, <2>3 DEF OffList, HeadPkt
  <2>5. QED
    BY <2>4 DEF Headless, NoNode
<1>3. QED
  BY <1>1, <1>2

(* Adding a packet keeps the type and leaves oldest null only if it was.   *)
LEMMA BecomeOnlyType ==
    ASSUME ListType, NEW p \in Packets, BecomeOnly(p)
    PROVE  ListType' /\ ~Headless'
BY NewNodeType DEF ListType, BecomeOnly, CountedOnList, OffList, Headless

LEMMA SameListType ==
    ASSUME ListType, queue' = queue, detached' = detached, length' = length,
           receiver' \in {"running", "dead"}
    PROVE  ListType' /\ (Headless' => Headless)
<1>1. OffList' /\ (Headless' <=> Headless)
  BY OffListKept DEF ListType
<1>2. QED
  BY <1>1 DEF ListType, CountedOnList

LEMMA DiscardType ==
    ASSUME ListType, Discard
    PROVE  ListType' /\ (Headless' => Headless)
BY SameListType DEF ListType, Discard

LEMMA EnqueueType ==
    ASSUME ListType, NEW q \in Seq(Frames), q # <<>>, queue # <<>> => q[1] = queue[1], Enqueue(q)
    PROVE  ListType' /\ (Headless' => Headless)
<1>1. OffList' /\ (Headless' <=> Headless)
  BY OffListKept DEF ListType, Enqueue
<1>2. QED
  BY <1>1 DEF ListType, Enqueue, CountedOnList

LEMMA AppendType ==
    ASSUME ListType, NEW p \in Packets
    PROVE  /\ Append(queue, NewNode(p)) \in Seq(Frames)
           /\ Append(queue, NewNode(p)) # <<>>
           /\ queue # <<>> => Append(queue, NewNode(p))[1] = queue[1]
BY NewNodeType DEF ListType

LEMMA AddToFrameType ==
    ASSUME ListType, NEW k \in DOMAIN queue, NEW p \in Packets, addToFrame(k, p)
    PROVE  ListType' /\ (Headless' => Headless)
<1> DEFINE frame   == queue[k]
           smaller == {j \in DOMAIN frame.pkts : SeqNum(frame.pkts[j]) < SeqNum(p)}
           twin    == \E j \in DOMAIN frame.pkts : SeqNum(frame.pkts[j]) = SeqNum(p)
           chain   == IF twin THEN frame.pkts
                      ELSE InsertAt(frame.pkts, Cardinality(smaller) + 1, p)
           joined  == [pkts |-> chain, pktCount |-> frame.pktCount + 1]
<1>1. /\ queue' = [queue EXCEPT ![k] = joined]
      /\ detached' = detached \/ (k = 1 /\ detached' = <<frame>>)
      /\ length' \in {length, length + 1}
      /\ receiver' = receiver
  BY DEF addToFrame
<1>a. frame \in Frames
  BY DEF ListType
<1>2. /\ frame.pkts \in Seq(Packets)
      /\ frame.pkts # <<>>
      /\ frame.pktCount \in Nat
  BY <1>a DEF Frames
<1>3. Cardinality(smaller) + 1 \in 1 .. Len(frame.pkts) + 1
  <2>1. smaller \subseteq 1 .. Len(frame.pkts)
    BY <1>2
  <2>a. Len(frame.pkts) \in Nat
    BY <1>2
  <2>2. IsFiniteSet(1 .. Len(frame.pkts)) /\ Cardinality(1 .. Len(frame.pkts)) = Len(frame.pkts)
    BY <2>a, FS_Interval
  <2>3. IsFiniteSet(smaller) /\ Cardinality(smaller) <= Len(frame.pkts)
    BY <2>1, <2>2, FS_Subset
  <2>4. Cardinality(smaller) \in Nat
    BY <2>3, FS_CardinalityType
  <2>5. QED
    BY <1>2, <2>3, <2>4
<1>4. /\ chain \in Seq(Packets) /\ chain # <<>>
      /\ \A j \in DOMAIN frame.pkts : \E i \in DOMAIN chain : chain[i] = frame.pkts[j]
  <2>1. CASE twin
    BY <1>2, <2>1
  <2>2. CASE ~twin
    <3>1. chain = InsertAt(frame.pkts, Cardinality(smaller) + 1, p)
      BY <2>2
    <3> HIDE DEF chain, smaller, twin
    <3>2. chain \in Seq(Packets) /\ chain # <<>>
      BY <1>2, <1>3, <3>1, InsertAtType
    <3>3. ASSUME NEW j \in DOMAIN frame.pkts
          PROVE  \E i \in DOMAIN chain : chain[i] = frame.pkts[j]
      BY <1>2, <1>3, <3>1, InsertAtKeeps
    <3>4. QED
      BY <3>2, <3>3
  <2>3. QED
    BY <2>1, <2>2
<1>5. joined \in Frames
  BY <1>2, <1>4 DEF Frames
<1> HIDE DEF chain, smaller, twin
<1>6. queue' \in Seq(Frames) /\ queue' # <<>> /\ queue # <<>>
  <2> HIDE DEF joined
  <2>1. queue \in Seq(Frames) /\ k \in 1 .. Len(queue)
    BY DEF ListType
  <2>2. queue' \in Seq(Frames) /\ Len(queue') = Len(queue)
    BY <1>1, <1>5, <2>1, ExceptSeq
  <2>3. QED
    BY <2>1, <2>2
<1>7. queue'[1] = IF k = 1 THEN joined ELSE queue[1]
  <2>1. 1 \in DOMAIN queue
    BY <1>6 DEF ListType
  <2>2. QED
    BY <1>1, <2>1
<1>8. \A j \in DOMAIN queue[1].pkts : \E i \in DOMAIN queue'[1].pkts : queue'[1].pkts[i] = queue[1].pkts[j]
  BY <1>4, <1>7
<1>9. OffList' /\ (Headless' => Headless)
  <2>1. CASE detached' = detached
    BY <1>6, <1>8, <2>1, OffListKept DEF ListType
  <2>2. CASE k = 1 /\ detached' = <<frame>>
    <3>1. detached' \in Seq(Frames) /\ detached'[Len(detached')] = frame
      BY <1>a, <2>2
    <3>2. 1 \in DOMAIN frame.pkts
      BY <1>2
    <3>3. \E i \in DOMAIN queue'[1].pkts : queue'[1].pkts[i] = frame.pkts[1]
      BY <1>8, <2>2, <3>2
    <3>4. detached' # <<NoNode>>
      BY <1>2, <2>2 DEF NoNode
    <3>5. QED
      BY <1>6, <3>1, <3>3, <3>4 DEF OffList, HeadPkt, Headless, NoNode
  <2>3. QED
    BY <1>1, <2>1, <2>2
<1>10. QED
  BY <1>1, <1>6, <1>9 DEF ListType, CountedOnList

LEMMA InsertType ==
    ASSUME ListType, NEW p \in Packets, Insert(p)
    PROVE  ListType' /\ (Headless' => Headless)
<1>1. CASE Place(p) = {} /\ receiver' = "dead" /\ UNCHANGED <<queue, detached, length>>
  BY <1>1, SameListType
<1>2. ASSUME NEW k \in Place(p),
             \/ Enqueue(InsertAt(queue, k + 1, NewNode(p)))
             \/ addToFrame(k, p)
             \/ Discard
      PROVE  ListType' /\ (Headless' => Headless)
  <2>1. /\ k \in 1 .. Len(queue) /\ k \in DOMAIN queue /\ queue \in Seq(Frames)
        /\ k + 1 \in 1 .. Len(queue) + 1 /\ 1 \in 1 .. k + 1 - 1
    BY DEF Place, ListType
  <2>2. /\ InsertAt(queue, k + 1, NewNode(p)) \in Seq(Frames)
        /\ InsertAt(queue, k + 1, NewNode(p)) # <<>>
        /\ InsertAt(queue, k + 1, NewNode(p))[1] = queue[1]
    BY <2>1, NewNodeType, InsertAtType, InsertAtElements
  <2>3. QED
    BY <1>2, <2>1, <2>2, EnqueueType, AddToFrameType, DiscardType
<1>3. QED
  BY <1>1, <1>2 DEF Insert

(* A raw packet joins the nodes off the list in front, if there are any.   *)
LEMMA UnfilteredType ==
    ASSUME ListType, NEW p \in Packets, unfilteredAddPkt(p)
    PROVE  ListType' /\ (Headless' => Headless)
<1>1. <<NewNode(p)>> \o queue \in Seq(Frames) /\ <<NewNode(p)>> \o queue # <<>> /\ <<NewNode(p)>> \in Seq(Frames)
  BY NewNodeType DEF ListType
<1>2. CASE detached = <<>> /\ queue' = <<NewNode(p)>> \o queue /\ UNCHANGED detached
  BY <1>1, <1>2 DEF ListType, unfilteredAddPkt, CountedOnList, OffList, Headless, NoNode
<1>3. CASE queue' = <<NewNode(p)>> /\ detached' = <<>>
  BY <1>1, <1>3 DEF ListType, unfilteredAddPkt, CountedOnList, OffList, Headless, NoNode
<1>4. CASE detached # <<>> /\ ~Headless /\ detached' = <<NewNode(p)>> \o detached /\ UNCHANGED queue
  <2>1. /\ detached \in Seq(Frames) /\ queue # <<>>
        /\ \E j \in DOMAIN queue[1].pkts : queue[1].pkts[j] = HeadPkt(detached[Len(detached)])
    BY <1>4 DEF ListType, OffList
  <2>2. /\ detached' \in Seq(Frames)
        /\ Len(detached') > 1
        /\ detached'[Len(detached')] = detached[Len(detached)]
    BY <1>1, <1>4, <2>1
  <2>3. OffList' /\ ~Headless'
    <3>1. detached' # <<NoNode>>
      BY <2>2
    <3>2. QED
      BY <1>4, <2>1, <2>2, <3>1 DEF OffList, HeadPkt, Headless, NoNode
  <2>4. QED
    BY <1>4, <2>3 DEF ListType, unfilteredAddPkt, CountedOnList
<1>5. QED
  BY <1>2, <1>3, <1>4 DEF unfilteredAddPkt

LEMMA AddPktType ==
    ASSUME ListType, NEW p \in Packets, addPkt(p)
    PROVE  ListType' /\ (Headless' => Headless)
<1>1. CASE bufferedAddPkt(p)
  BY <1>1, BecomeOnlyType, AppendType, EnqueueType, DiscardType, InsertType DEF bufferedAddPkt
<1>2. CASE filteredAddPkt(p)
  BY <1>2, BecomeOnlyType, AppendType, EnqueueType, DiscardType DEF filteredAddPkt
<1>3. CASE unfilteredAddPkt(p)
  BY <1>3, UnfilteredType
<1>4. QED
  BY <1>1, <1>2, <1>3 DEF addPkt

(* The rest of TypeOK.                                                     *)
HistoryType ==
    /\ pktBufBehavior \in Behaviors
    /\ lastSeq \in SeqNums \cup {-1}
    /\ lastTs \in Nat \cup {-1}
    /\ appCaller \in {"running", "dead"}
    /\ appCaller = "running" => ~Headless
    /\ arrived \in [Packets -> 0 .. Copies]
    /\ delivered \in Seq(Seq(Packets))

(* The frame of a node off the list is a stretch of the chain it headed.   *)
LEMMA RestIsStretch ==
    ASSUME ListType, detached \in Seq(Frames), Len(detached) = 1
    PROVE  /\ RestOf(detached[1]) \in Frames
           /\ queue # <<>>
           /\ \E from \in DOMAIN queue[1].pkts :
                 \A i \in DOMAIN RestOf(detached[1]).pkts :
                    /\ from + i - 1 \in DOMAIN queue[1].pkts
                    /\ RestOf(detached[1]).pkts[i] = queue[1].pkts[from + i - 1]
<1> DEFINE node  == detached[1]
           chain == queue[1].pkts
           from  == CHOOSE j \in DOMAIN chain : chain[j] = HeadPkt(node)
           to    == from + node.pktCount - 1
           end   == IF to < Len(chain) THEN to ELSE Len(chain)
<1>1. /\ queue # <<>> /\ node \in Frames
      /\ \E j \in DOMAIN chain : chain[j] = HeadPkt(node)
  <2>1. ~Headless /\ detached # <<>>
    BY DEF Headless, NoNode, Frames
  <2>2. QED
    BY <2>1 DEF ListType, OffList
<1>2. chain \in Seq(Packets) /\ node.pktCount \in Nat /\ node.pktCount >= 1
  <2>1. queue[1] \in Frames
    BY <1>1 DEF ListType
  <2>2. QED
    BY <1>1, <2>1 DEF Frames
<1>3. from \in DOMAIN chain
  BY <1>1
<1> HIDE DEF from
<1>4. /\ from \in 1 .. Len(chain) /\ end \in from .. Len(chain) /\ Len(chain) \in Nat
  BY <1>2, <1>3
<1> HIDE DEF end, chain, node
<1>5. /\ SubSeq(chain, from, end) \in Seq(Packets)
      /\ Len(SubSeq(chain, from, end)) = end - from + 1
      /\ \A i \in 1 .. end - from + 1 : SubSeq(chain, from, end)[i] = chain[from + i - 1]
  <2>1. \A j \in from .. end : chain[j] \in Packets
    BY <1>2, <1>4
  <2>2. from \in Int /\ end \in Int /\ from <= end
    BY <1>4
  <2>3. /\ SubSeq(chain, from, end) \in Seq(Packets)
        /\ Len(SubSeq(chain, from, end)) = IF from <= end THEN end - from + 1 ELSE 0
        /\ \A i \in 1 .. end - from + 1 : SubSeq(chain, from, end)[i] = chain[from + i - 1]
    BY <1>2, <2>1, <2>2, SubSeqProperties
  <2>4. QED
    BY <2>2, <2>3
<1>6. RestOf(node) = [pkts |-> SubSeq(chain, from, end), pktCount |-> node.pktCount]
  BY DEF RestOf, chain, from, end, node
<1>7. RestOf(node) \in Frames
  <2>1. SubSeq(chain, from, end) # <<>>
    BY <1>4, <1>5
  <2>2. QED
    BY <1>2, <1>5, <1>6, <2>1 DEF Frames
<1>8. ASSUME NEW i \in DOMAIN RestOf(node).pkts
      PROVE  from + i - 1 \in DOMAIN chain /\ RestOf(node).pkts[i] = chain[from + i - 1]
  <2>1. i \in 1 .. end - from + 1
    BY <1>5, <1>6
  <2>2. from + i - 1 \in 1 .. Len(chain)
    BY <1>4, <2>1
  <2>3. QED
    BY <1>2, <1>5, <1>6, <2>1, <2>2
<1>9. QED
  BY <1>1, <1>3, <1>7, <1>8 DEF node, chain

LEMMA OldestTyped ==
    ASSUME ListType, ~Headless, length > 0
    PROVE  /\ OldestFrame \in Frames
           /\ queue \in Seq(Frames) /\ queue # <<>>
           /\ detached \in Seq(Frames)
<1>1. queue \in Seq(Frames) /\ queue # <<>> /\ queue[1] \in Frames
  BY DEF ListType, CountedOnList
<1>2. detached \in Seq(Frames)
  <2>1. CASE detached = <<>>
    BY <2>1
  <2>2. CASE detached # <<>>
    BY <2>2 DEF ListType, OffList
  <2>3. QED
    BY <2>1, <2>2
<1>3. CASE detached = <<>>
  BY <1>1, <1>2, <1>3 DEF OldestFrame
<1>4. CASE detached # <<>> /\ Len(detached) = 1
  BY <1>1, <1>2, <1>4, RestIsStretch DEF OldestFrame
<1>5. CASE detached # <<>> /\ Len(detached) # 1
  <2>1. detached[1] \in Frames
    BY <1>2, <1>5
  <2>2. OldestFrame = detached[1]
    BY <1>5 DEF OldestFrame
  <2>3. QED
    BY <1>1, <1>2, <2>1, <2>2
<1>6. QED
  BY <1>3, <1>4, <1>5

(* How a pop may end.                                                      *)
PopAborted ==
    /\ PopFails
    /\ UNCHANGED <<queue, detached, length, lastSeq, lastTs>>

PopMovesOn(f) ==
    /\ ~CleanupFails
    /\ \E highestSeq \in {SeqNum(f.pkts[1]), SeqNum(f.pkts[Len(f.pkts)])} :
          popFrameQueueCleanup(f, highestSeq)
    /\ \/ PopFails /\ FrameFails(f)
       \/ HandOver(f) /\ ~FrameFails(f)

LEMMA PopEnds ==
    ASSUME PopOldestFrame
    PROVE  /\ \/ PopAborted /\ FrameFails(OldestFrame)
              \/ PopFailsInCleanup /\ CleanupFails
              \/ PopMovesOn(OldestFrame)
           /\ length > 0 /\ appCaller = "running"
           /\ UNCHANGED <<pktBufBehavior, receiver, arrived>>
<1>1. CASE pktBufBehavior > 0 /\ bufferedPopFrame(OldestFrame)
  BY <1>1 DEF PopOldestFrame, FrameAvailable, bufferedPopFrame, PopAborted, PopMovesOn
<1>2. CASE unbufferedPopFrame(OldestFrame)
  BY <1>2 DEF PopOldestFrame, FrameAvailable, unbufferedPopFrame, PopMovesOn, HeadPkt
<1>3. QED
  BY <1>1, <1>2 DEF PopOldestFrame

LEMMA AtLeastTwo ==
    ASSUME NEW n \in Nat, n # 0, n # 1
    PROVE  n - 1 \in 1 .. n - 1 /\ n - 1 + 1 = n /\ n - 1 # 0
OBVIOUS

LEMMA CleanupType ==
    ASSUME ListType, ~Headless, length > 0, ~CleanupFails, NEW f \in Frames, NEW h \in SeqNums,
           popFrameQueueCleanup(f, h), UNCHANGED receiver
    PROVE  ListType' /\ ~Headless' /\ lastSeq' \in SeqNums /\ lastTs' \in Nat
<1>1. /\ length' = length - 1
      /\ queue' = IF length = 1 THEN <<>> ELSE IF detached = <<>> THEN Tail(queue) ELSE queue
      /\ detached' = IF length = 1 \/ detached = <<>> THEN <<>> ELSE Tail(detached)
      /\ lastSeq' = h /\ lastTs' = TimeStamp(f.pkts[1])
  BY DEF popFrameQueueCleanup, HeadPkt
<1>2. lastSeq' \in SeqNums /\ lastTs' \in Nat
  <2>1. f.pkts[1] \in Packets
    BY DEF Frames
  <2>2. QED
    BY <1>1, <2>1, StreamType
<1>3. queue \in Seq(Frames) /\ queue # <<>> /\ detached \in Seq(Frames)
  BY OldestTyped
<1>4. length \in Nat /\ length' \in Nat
  BY <1>1 DEF ListType
<1>5. CASE length = 1
  BY <1>1, <1>2, <1>4, <1>5 DEF ListType, OffList, Headless, NoNode, CountedOnList
<1>6. CASE length # 1 /\ detached = <<>>
  <2>1. Len(queue) >= 2
    BY <1>3, <1>6 DEF CleanupFails, EndOfList
  <2>2. queue' \in Seq(Frames) /\ queue' # <<>> /\ detached' = <<>>
    <3>1. queue' = Tail(queue) /\ detached' = <<>>
      BY <1>1, <1>6
    <3>2. Tail(queue) \in Seq(Frames) /\ Len(Tail(queue)) = Len(queue) - 1 /\ Len(queue) \in Nat
      BY <1>3, HeadTailProperties
    <3>3. Tail(queue) # <<>>
      <4>1. Len(Tail(queue)) # 0
        BY <2>1, <3>2
      <4>2. QED
        BY <3>2, <4>1, EmptySeq
    <3>4. QED
      BY <3>1, <3>2, <3>3
  <2>3. QED
    BY <1>2, <1>4, <2>2 DEF ListType, OffList, Headless, NoNode, CountedOnList
<1>7. CASE length # 1 /\ detached # <<>>
  <2>1. Len(detached) # 1 /\ Len(detached) \in Nat /\ Len(detached) # 0
    <3>1. Len(detached) # 1
      BY <1>7 DEF CleanupFails, EndOfList
    <3>2. Len(detached) \in Nat /\ Len(detached) # 0
      BY <1>3, <1>7
    <3>3. QED
      BY <3>1, <3>2
  <2>2. /\ queue' = queue /\ detached' = Tail(detached)
    BY <1>1, <1>7
  <2>3. /\ detached' \in Seq(Frames)
        /\ detached' # <<>>
        /\ detached'[Len(detached')] = detached[Len(detached)]
    <3>1. /\ Tail(detached) \in Seq(Frames)
          /\ Len(Tail(detached)) = Len(detached) - 1
          /\ \A i \in 1 .. Len(detached) - 1 : Tail(detached)[i] = detached[i + 1]
      BY <1>3, <1>7, HeadTailProperties
    <3>2. /\ Len(detached) - 1 \in 1 .. Len(detached) - 1
          /\ Len(detached) - 1 + 1 = Len(detached)
          /\ Len(detached) - 1 # 0
      BY <2>1, AtLeastTwo
    <3>3. Tail(detached)[Len(detached) - 1] = detached[Len(detached)]
      BY <3>1, <3>2
    <3>4. Len(Tail(detached)) # 0
      BY <3>1, <3>2
    <3>5. Tail(detached) # <<>>
      BY <3>1, <3>4, EmptySeq
    <3>6. QED
      BY <2>2, <3>1, <3>3, <3>5
  <2>4. ~Headless'
    BY <2>3 DEF Headless, NoNode, Frames
  <2>5. OffList'
    BY <1>7, <2>2, <2>3 DEF ListType, OffList, HeadPkt
  <2>6. QED
    BY <1>2, <1>3, <1>4, <2>2, <2>4, <2>5 DEF ListType, CountedOnList
<1>8. QED
  BY <1>5, <1>6, <1>7

LEMMA TypeInit == Init => ListType /\ HistoryType
BY ChannelAssumption DEF ChannelAssumption, Init, ListType, HistoryType, CountedOnList, OffList,
       Headless, NoNode

LEMMA TypePop ==
    ASSUME ListType, HistoryType, PopOldestFrame
    PROVE  ListType' /\ HistoryType'
<1>1. /\ length > 0 /\ appCaller = "running" /\ ~Headless
      /\ UNCHANGED <<pktBufBehavior, receiver, arrived>>
  BY PopEnds DEF HistoryType
<1>2. /\ pktBufBehavior' \in Behaviors
      /\ arrived' \in [Packets -> 0 .. Copies]
  BY <1>1 DEF HistoryType
<1>3. CASE PopAborted
  <2>1. ListType'
    BY <1>1, <1>3, SameListType DEF PopAborted, ListType
  <2>2. HistoryType'
    BY <1>2, <1>3 DEF PopAborted, PopFails, HistoryType
  <2>3. QED
    BY <2>1, <2>2
<1>4. CASE PopFailsInCleanup
  <2>1. ListType'
    BY <1>1, <1>4 DEF PopFailsInCleanup, ListType, OffList, Headless, NoNode, CountedOnList
  <2>2. HistoryType'
    BY <1>2, <1>4 DEF PopFailsInCleanup, PopFails, HistoryType
  <2>3. QED
    BY <2>1, <2>2
<1>5. CASE PopMovesOn(OldestFrame)
  <2> DEFINE f == OldestFrame
  <2>1. f \in Frames
    BY <1>1, OldestTyped
  <2> HIDE DEF f
  <2>2. PICK h \in {SeqNum(f.pkts[1]), SeqNum(f.pkts[Len(f.pkts)])} : popFrameQueueCleanup(f, h)
    BY <1>5 DEF PopMovesOn, f
  <2>3. f.pkts \in Seq(Packets) /\ f.pkts[1] \in Packets /\ f.pkts[Len(f.pkts)] \in Packets
    BY <2>1 DEF Frames
  <2>4. h \in SeqNums
    BY <2>2, <2>3, StreamType
  <2>5. ListType' /\ ~Headless' /\ lastSeq' \in SeqNums /\ lastTs' \in Nat
    BY <1>1, <1>5, <2>1, <2>2, <2>4, CleanupType DEF PopMovesOn
  <2>6. delivered' \in Seq(Seq(Packets)) /\ appCaller' \in {"running", "dead"}
    <3>1. \/ delivered' = delivered /\ appCaller' = "dead"
          \/ delivered' = Append(delivered, f.pkts) /\ appCaller' = appCaller
      BY <1>5 DEF PopMovesOn, PopFails, HandOver, f
    <3>2. delivered \in Seq(Seq(Packets)) /\ appCaller \in {"running", "dead"}
      BY DEF HistoryType
    <3>3. Append(delivered, f.pkts) \in Seq(Seq(Packets))
      BY <2>3, <3>2
    <3>4. QED
      BY <3>1, <3>2, <3>3
  <2>7. HistoryType'
    BY <1>2, <2>5, <2>6 DEF HistoryType
  <2>8. QED
    BY <2>5, <2>7
<1>6. QED
  BY <1>3, <1>4, <1>5, PopEnds

LEMMA TypeStep ==
    ASSUME ListType, HistoryType, [Next]_vars
    PROVE  ListType' /\ HistoryType'
<1>1. CASE PopOldestFrame
  BY <1>1, TypePop
<1>2. ASSUME NEW p \in Packets, Receive(p)
      PROVE  ListType' /\ HistoryType'
  <2>1. ListType' /\ (Headless' => Headless)
    BY <1>2, BecomeOnlyType, AddPktType DEF Receive, NewBuffer
  <2>2. arrived' \in [Packets -> 0 .. Copies]
    BY <1>2, ChannelAssumption DEF ChannelAssumption, Receive, HistoryType
  <2>3. HistoryType'
    BY <1>2, <2>1, <2>2 DEF Receive, HistoryType
  <2>4. QED
    BY <2>1, <2>3
<1>3. ASSUME NEW b \in Behaviors, SetBehavior(b)
      PROVE  ListType' /\ HistoryType'
  <2>1. ListType' /\ (Headless' => Headless)
    BY <1>3, SameListType DEF SetBehavior, ListType
  <2>2. HistoryType'
    BY <1>3, <2>1, ChannelAssumption DEF ChannelAssumption, SetBehavior, HistoryType
  <2>3. QED
    BY <2>1, <2>2
<1>4. CASE UNCHANGED vars
  <2>1. ListType' /\ (Headless' => Headless)
    BY <1>4, SameListType DEF vars, ListType
  <2>2. HistoryType'
    BY <1>4, <2>1, ChannelAssumption DEF ChannelAssumption, vars, HistoryType
  <2>3. QED
    BY <2>1, <2>2
<1>5. QED
  BY <1>1, <1>2, <1>3, <1>4 DEF Next

(* The buffer is always well formed: every frame holds at least one packet *)
(* of the stream and its length is never negative, for every stream,       *)
(* behavior, reordering window and number of copies.                       *)
THEOREM TypeCorrect == Spec => []TypeOK
<1>1. ListType /\ HistoryType => TypeOK
  <2>1. OffList => detached \in Seq(Frames) \cup {<<NoNode>>}
    <3>1. detached = <<>> => detached \in Seq(Frames)
      OBVIOUS
    <3>2. QED
      BY <3>1 DEF OffList, Headless
  <2>2. QED
    BY <2>1, ChannelAssumption DEF ChannelAssumption, ListType, HistoryType, TypeOK
<1>2. ListType /\ HistoryType /\ [Next]_vars => ListType' /\ HistoryType'
  BY TypeStep
<1>3. QED
  BY <1>1, <1>2, TypeInit, PTL DEF Spec
-----------------------------------------------------------------------------
(* A network that loses packets but neither reorders nor repeats them, and *)
(* a sender whose timestamps grow.                                         *)
LossOnly == Window = 0 /\ Copies = 1
TimestampsGrow == \A p, q \in Packets : p < q => TimeStamp(p) < TimeStamp(q)

Running == appCaller = "running"
Seen(p) == p \in Packets /\ arrived[p] > 0
Given(j) == delivered[j][1]
Waiting(k) == HeadPkt(queue[k])

QueueSingle ==
    \A k \in DOMAIN queue :
        queue[k].pktCount = 1 /\ Len(queue[k].pkts) = 1 /\ Seen(Waiting(k))
DeliveredSingle ==
    \A j \in DOMAIN delivered : Len(delivered[j]) = 1 /\ Seen(Given(j))
DeliveredOrdered ==
    \A i, j \in DOMAIN delivered : i < j => Given(i) < Given(j)
DeliveredBeforeQueue ==
    \A j \in DOMAIN delivered, k \in DOMAIN queue : Given(j) < Waiting(k)

(* The strengthening that is inductive: what was delivered is older than   *)
(* what is buffered, which is older than what has yet to arrive.           *)
LossInv ==
    /\ LengthIsExact
    /\ detached = <<>>
    /\ Running
    /\ QueueSingle
    /\ ListOrdered
    /\ DeliveredSingle
    /\ DeliveredOrdered
    /\ DeliveredBeforeQueue

LEMMA LossInit == Init => LossInv
BY DEF Init, LossInv, LengthIsExact, Running, QueueSingle, ListOrdered,
       DeliveredSingle, DeliveredOrdered, DeliveredBeforeQueue

(* Without overtaking and repetition a packet is younger than all before.  *)
LEMMA ArrivalIsYoungest ==
    ASSUME LossOnly, HistoryType, NEW p \in Packets, Receive(p)
    PROVE  /\ \A q : Seen(q) => q < p
           /\ Seen(p)'
           /\ \A q : Seen(q) => Seen(q)'
<1>1. arrived[p] = 0
  BY DEF LossOnly, HistoryType, Receive
<1>2. arrived' = [arrived EXCEPT ![p] = 1] /\ arrived \in [Packets -> 0 .. Copies]
  BY <1>1 DEF Receive, HistoryType
<1>3. \A q \in Packets : arrived[q] > 0 => q <= p
  BY DEF Receive, LossOnly, Packets
<1>4. \A q \in Packets : q \in Int
  BY DEF Packets
<1>5. \A q : Seen(q) => q < p
  BY <1>1, <1>3, <1>4 DEF Seen
<1>6. QED
  BY <1>1, <1>2, <1>5, ChannelAssumption DEF Seen, ChannelAssumption

(* So it always goes to the young end of the list.                         *)
LEMMA ArrivalIsAppended ==
    ASSUME LossOnly, TimestampsGrow, Behaviors \subseteq Nat,
           ListType, HistoryType, LossInv, NEW p \in Packets, Receive(p)
    PROVE  /\ queue' = Append(queue, NewNode(p))
           /\ length' = length + 1
           /\ detached' = <<>>
<1>1. ASSUME BecomeOnly(p), queue = <<>>
      PROVE  queue' = Append(queue, NewNode(p)) /\ length' = length + 1 /\ detached' = <<>>
  BY <1>1 DEF BecomeOnly, LossInv, LengthIsExact
<1>2. CASE NoBuffer
  <2>1. queue = <<>>
    <3> SUFFICES ASSUME queue # <<>> PROVE FALSE
      OBVIOUS
    <3>1. 1 \in DOMAIN queue
      BY DEF ListType
    <3>2. Waiting(1) \in Packets /\ arrived[Waiting(1)] > 0
      BY <3>1 DEF LossInv, QueueSingle, Seen
    <3>3. QED
      BY <1>2, <3>2 DEF NoBuffer
  <2>2. BecomeOnly(p)
    BY <1>2 DEF Receive, NewBuffer
  <2>3. QED
    BY <1>1, <2>1, <2>2
<1>3. CASE ~NoBuffer /\ length = 0
  <2>1. Len(queue) = 0 /\ queue \in Seq(Frames)
    BY <1>3 DEF LossInv, LengthIsExact, ListType
  <2>2. queue = <<>>
    BY <2>1, EmptySeq
  <2>3. addPkt(p)
    BY <1>3 DEF Receive
  <2>4. BecomeOnly(p)
    BY <1>3, <2>3 DEF addPkt, bufferedAddPkt, filteredAddPkt, HistoryType
  <2>5. QED
    BY <1>1, <2>2, <2>4
<1>4. CASE ~NoBuffer /\ length # 0
  <2>1. Len(queue) \in DOMAIN queue
    BY <1>4 DEF LossInv, LengthIsExact, ListType
  <2>2. Seen(newest)
    BY <2>1 DEF LossInv, QueueSingle, newest, Waiting
  <2>3. newest \in Packets /\ newest < p
    BY <2>2, ArrivalIsYoungest DEF Seen
  <2>4. TimeStamp(p) > TimeStamp(newest)
    BY <2>3, StreamType DEF TimestampsGrow
  <2>5. addPkt(p)
    BY <1>4 DEF Receive
  <2>6. Enqueue(Append(queue, NewNode(p)))
    BY <1>4, <2>4, <2>5 DEF addPkt, bufferedAddPkt, filteredAddPkt, HistoryType
  <2>7. QED
    BY <2>6 DEF Enqueue, LossInv
<1>5. QED
  BY <1>2, <1>3, <1>4

LEMMA LossReceive ==
    ASSUME LossOnly, TimestampsGrow, Behaviors \subseteq Nat,
           ListType, HistoryType, LossInv, NEW p \in Packets, Receive(p)
    PROVE  LossInv'
<1>1. /\ queue' = Append(queue, NewNode(p))
      /\ length' = length + 1
      /\ detached' = <<>>
      /\ delivered' = delivered
      /\ appCaller' = appCaller
  BY ArrivalIsAppended DEF Receive
<1>2. /\ \A q : Seen(q) => q < p
      /\ Seen(p)'
      /\ \A q : Seen(q) => Seen(q)'
  BY ArrivalIsYoungest
<1>3. queue \in Seq(Frames) /\ Len(queue) \in Nat /\ DOMAIN queue = 1 .. Len(queue)
  BY DEF ListType
<1>4. /\ Len(queue') = Len(queue) + 1
      /\ DOMAIN queue' = 1 .. Len(queue) + 1
      /\ \A k \in 1 .. Len(queue) : queue'[k] = queue[k]
      /\ queue'[Len(queue) + 1] = NewNode(p)
  BY <1>1, <1>3
<1>5. \A k \in 1 .. Len(queue) : Waiting(k)' = Waiting(k)
  BY <1>4 DEF Waiting, HeadPkt
<1>6. \A k : k = Len(queue) + 1 => Waiting(k)' = p
  BY <1>4 DEF Waiting, HeadPkt, NewNode
<1>7. LengthIsExact' /\ Running'
  BY <1>1, <1>4 DEF LossInv, LengthIsExact, Running
<1>8. QueueSingle'
  <2> SUFFICES ASSUME NEW k \in 1 .. Len(queue) + 1
               PROVE  queue'[k].pktCount = 1 /\ Len(queue'[k].pkts) = 1 /\ Seen(Waiting(k))'
    BY <1>4 DEF QueueSingle
  <2>1. CASE k \in 1 .. Len(queue)
    <3>1. queue[k].pktCount = 1 /\ Len(queue[k].pkts) = 1 /\ Seen(Waiting(k))
      BY <1>3, <2>1 DEF LossInv, QueueSingle
    <3>2. Seen(Waiting(k))'
      BY <3>1, <1>2, <1>5, <2>1 DEF Seen
    <3>3. QED
      BY <3>1, <3>2, <1>4, <2>1
  <2>2. CASE k = Len(queue) + 1
    BY <1>2, <1>4, <1>6, <2>2 DEF NewNode, Seen
  <2>3. QED
    BY <1>3, <2>1, <2>2
<1>9. \A k \in 1 .. Len(queue) : Waiting(k) < p
  BY <1>2, <1>3 DEF LossInv, QueueSingle
<1>10. ListOrdered'
  <2> SUFFICES ASSUME NEW j \in 1 .. Len(queue) + 1, NEW k \in 1 .. Len(queue) + 1, j < k
               PROVE  Waiting(j)' < Waiting(k)'
    BY <1>4 DEF ListOrdered, Waiting
  <2>1. CASE k \in 1 .. Len(queue)
    <3>1. j \in 1 .. Len(queue)
      BY <1>3, <2>1
    <3>2. Waiting(j) < Waiting(k)
      BY <1>3, <2>1, <3>1 DEF LossInv, ListOrdered, Waiting
    <3>3. QED
      BY <1>5, <2>1, <3>1, <3>2
  <2>2. CASE k = Len(queue) + 1
    <3>1. j \in 1 .. Len(queue)
      BY <1>3, <2>2
    <3>2. QED
      BY <1>5, <1>6, <1>9, <2>2, <3>1
  <2>3. QED
    BY <1>3, <2>1, <2>2
<1>11. DeliveredSingle' /\ DeliveredOrdered'
  BY <1>1, <1>2 DEF LossInv, DeliveredSingle, DeliveredOrdered, Given, Seen
<1>12. DeliveredBeforeQueue'
  <2> SUFFICES ASSUME NEW j \in DOMAIN delivered, NEW k \in 1 .. Len(queue) + 1
               PROVE  Given(j) < Waiting(k)'
    BY <1>1, <1>4 DEF DeliveredBeforeQueue, Given
  <2>1. CASE k \in 1 .. Len(queue)
    BY <1>3, <1>5, <2>1 DEF LossInv, DeliveredBeforeQueue
  <2>2. CASE k = Len(queue) + 1
    BY <1>2, <1>6, <2>2 DEF LossInv, DeliveredSingle
  <2>3. QED
    BY <1>3, <2>1, <2>2
<1>13. QED
  BY <1>1, <1>7, <1>8, <1>10, <1>11, <1>12 DEF LossInv

(* A frame of one packet is popped alike with and without a limit.         *)
LEMMA PopSingle ==
    ASSUME ListType, detached = <<>>, queue[1].pktCount = 1, Len(queue[1].pkts) = 1,
           length # 1 => Len(queue) >= 2, PopOldestFrame
    PROVE  /\ queue' = IF length = 1 THEN <<>> ELSE Tail(queue)
           /\ length' = length - 1
           /\ delivered' = Append(delivered, queue[1].pkts)
           /\ lastSeq' = SeqNum(Waiting(1))
           /\ UNCHANGED <<detached, appCaller, arrived, pktBufBehavior>>
<1>1. OldestFrame = queue[1]
  BY DEF OldestFrame
<1>2. ~FrameFails(queue[1])
  BY DEF FrameFails
<1>3. ~CleanupFails
  BY DEF CleanupFails, EndOfList, ListType
<1>4. PopMovesOn(queue[1]) /\ UNCHANGED <<pktBufBehavior, arrived>>
  BY <1>1, <1>2, <1>3, PopEnds
<1>5. popFrameQueueCleanup(queue[1], SeqNum(queue[1].pkts[1])) /\ HandOver(queue[1])
  BY <1>2, <1>4 DEF PopMovesOn
<1>6. QED
  BY <1>4, <1>5 DEF popFrameQueueCleanup, HandOver, Waiting, HeadPkt

LEMMA LossPop ==
    ASSUME ListType, HistoryType, LossInv, PopOldestFrame
    PROVE  LossInv'
<1>1. queue \in Seq(Frames) /\ Len(queue) \in Nat /\ Len(queue) >= 1 /\ length = Len(queue)
  BY DEF ListType, LossInv, LengthIsExact, PopOldestFrame, FrameAvailable
<1>2. queue[1].pktCount = 1 /\ Len(queue[1].pkts) = 1 /\ Seen(Waiting(1))
  BY <1>1 DEF LossInv, QueueSingle
<1>3. detached = <<>> /\ (length # 1 => Len(queue) >= 2)
  BY <1>1 DEF LossInv
<1>4. /\ queue' = IF length = 1 THEN <<>> ELSE Tail(queue)
      /\ length' = length - 1
      /\ delivered' = Append(delivered, queue[1].pkts)
      /\ detached' = detached
      /\ appCaller' = appCaller
      /\ arrived' = arrived
  BY <1>2, <1>3, PopSingle
<1>5. /\ Len(queue') = Len(queue) - 1
      /\ DOMAIN queue' = 1 .. Len(queue) - 1
      /\ \A k \in 1 .. Len(queue) - 1 : queue'[k] = queue[k + 1]
  <2>1. queue # <<>>
    BY <1>1
  <2>2. CASE length = 1
    BY <1>1, <1>4, <2>2
  <2>3. CASE length # 1
    BY <1>1, <1>4, <2>1, <2>3, HeadTailProperties
  <2>4. QED
    BY <2>2, <2>3
<1>6. \A k \in 1 .. Len(queue) - 1 : k + 1 \in DOMAIN queue /\ Waiting(k)' = Waiting(k + 1)
  BY <1>1, <1>5 DEF Waiting
<1>7. /\ delivered \in Seq(Seq(Packets)) /\ Len(delivered) \in Nat
      /\ DOMAIN delivered = 1 .. Len(delivered)
      /\ DOMAIN queue = 1 .. Len(queue)
  BY <1>1 DEF HistoryType
<1>8. /\ DOMAIN delivered' = 1 .. Len(delivered) + 1
      /\ \A j \in 1 .. Len(delivered) : delivered'[j] = delivered[j]
      /\ delivered'[Len(delivered) + 1] = queue[1].pkts
  BY <1>4, <1>7
<1>9. /\ \A j \in 1 .. Len(delivered) : Given(j)' = Given(j)
      /\ \A j : j = Len(delivered) + 1 => Given(j)' = Waiting(1)
  BY <1>8 DEF Given, Waiting, HeadPkt
<1>10. \A q : Seen(q)' <=> Seen(q)
  BY <1>4 DEF Seen
<1>11. \A j \in 1 .. Len(delivered) + 1 : j \in 1 .. Len(delivered) \/ j = Len(delivered) + 1
  <2>1. Len(delivered) \in Nat
    BY <1>7
  <2>2. QED
    BY <2>1
<1>12. LengthIsExact' /\ detached' = <<>> /\ Running'
  BY <1>1, <1>4, <1>5 DEF LossInv, LengthIsExact, Running
<1>13. QueueSingle'
  <2> SUFFICES ASSUME NEW k \in 1 .. Len(queue) - 1
               PROVE  queue'[k].pktCount = 1 /\ Len(queue'[k].pkts) = 1 /\ Seen(Waiting(k))'
    BY <1>5 DEF QueueSingle
  <2>1. k + 1 \in DOMAIN queue /\ Waiting(k)' = Waiting(k + 1) /\ queue'[k] = queue[k + 1]
    BY <1>5, <1>6
  <2>2. Seen(Waiting(k + 1)) /\ queue[k + 1].pktCount = 1 /\ Len(queue[k + 1].pkts) = 1
    BY <2>1 DEF LossInv, QueueSingle
  <2>3. QED
    BY <1>4, <2>1, <2>2 DEF Seen
<1>14. ListOrdered'
  <2> SUFFICES ASSUME NEW j \in 1 .. Len(queue) - 1, NEW k \in 1 .. Len(queue) - 1, j < k
               PROVE  Waiting(j)' < Waiting(k)'
    BY <1>5 DEF ListOrdered, Waiting
  <2>1. j + 1 < k + 1 /\ j + 1 \in DOMAIN queue /\ k + 1 \in DOMAIN queue
    BY <1>6
  <2>2. Waiting(j + 1) < Waiting(k + 1)
    BY <2>1 DEF LossInv, ListOrdered, Waiting
  <2>3. QED
    BY <1>6, <2>2
<1>15. DeliveredSingle'
  <2> SUFFICES ASSUME NEW j \in 1 .. Len(delivered) + 1
               PROVE  Len(delivered'[j]) = 1 /\ Seen(Given(j))'
    BY <1>8 DEF DeliveredSingle
  <2>1. CASE j \in 1 .. Len(delivered)
    BY <1>4, <1>7, <1>8, <1>9, <2>1 DEF LossInv, DeliveredSingle, Seen
  <2>2. CASE j = Len(delivered) + 1
    BY <1>2, <1>4, <1>8, <1>9, <2>2 DEF Seen
  <2>3. QED
    BY <1>11, <2>1, <2>2
<1>16. \A j \in 1 .. Len(delivered) : Given(j) < Waiting(1)
  <2>1. 1 \in DOMAIN queue
    BY <1>1
  <2>2. QED
    BY <1>7, <2>1 DEF LossInv, DeliveredBeforeQueue
<1>17. DeliveredOrdered'
  <2> SUFFICES ASSUME NEW i \in 1 .. Len(delivered) + 1, NEW j \in 1 .. Len(delivered) + 1, i < j
               PROVE  Given(i)' < Given(j)'
    BY <1>8 DEF DeliveredOrdered
  <2>1. CASE j \in 1 .. Len(delivered)
    <3>1. i \in 1 .. Len(delivered)
      BY <1>7, <2>1
    <3>2. Given(i) < Given(j)
      BY <1>7, <2>1, <3>1 DEF LossInv, DeliveredOrdered
    <3>3. QED
      BY <1>9, <2>1, <3>1, <3>2
  <2>2. CASE j = Len(delivered) + 1
    <3>1. Len(delivered) \in Nat
      BY <1>7
    <3>2. i \in 1 .. Len(delivered)
      BY <2>2, <3>1
    <3>3. Given(i)' = Given(i) /\ Given(j)' = Waiting(1)
      BY <1>9, <2>2, <3>2
    <3>4. Given(i) < Waiting(1)
      BY <1>16, <3>2
    <3>5. QED
      BY <3>3, <3>4
  <2>3. QED
    BY <1>11, <2>1, <2>2
<1>18. DeliveredBeforeQueue'
  <2> SUFFICES ASSUME NEW j \in 1 .. Len(delivered) + 1, NEW k \in 1 .. Len(queue) - 1
               PROVE  Given(j)' < Waiting(k)'
    BY <1>5, <1>8 DEF DeliveredBeforeQueue
  <2>1. k + 1 \in DOMAIN queue /\ Waiting(k)' = Waiting(k + 1) /\ 1 \in DOMAIN queue /\ 1 < k + 1
    BY <1>1, <1>6
  <2>2. CASE j \in 1 .. Len(delivered)
    BY <1>7, <1>9, <2>1, <2>2 DEF LossInv, DeliveredBeforeQueue
  <2>3. CASE j = Len(delivered) + 1
    BY <1>9, <2>1, <2>3 DEF LossInv, ListOrdered, Waiting
  <2>4. QED
    BY <1>11, <2>2, <2>3
<1>19. QED
  BY <1>12, <1>13, <1>14, <1>15, <1>17, <1>18 DEF LossInv

LEMMA LossStep ==
    ASSUME LossOnly, TimestampsGrow, Behaviors \subseteq Nat,
           ListType, HistoryType, LossInv, [Next]_vars
    PROVE  LossInv'
<1>1. CASE PopOldestFrame
  BY <1>1, LossPop
<1>2. ASSUME NEW p \in Packets, Receive(p)
      PROVE  LossInv'
  BY <1>2, LossReceive
<1>3. CASE UNCHANGED vars \/ \E b \in Behaviors : SetBehavior(b)
  BY <1>3 DEF vars, SetBehavior, LossInv, LengthIsExact, Running, QueueSingle, ListOrdered,
              DeliveredSingle, DeliveredOrdered, DeliveredBeforeQueue, Seen, Given, Waiting
<1>4. QED
  BY <1>1, <1>2, <1>3 DEF Next

(* A frame is delivered once and in the order it was sent, no frame that   *)
(* is buffered is overtaken, and AppCallerThread never fails, as long as   *)
(* the network at most loses packets and every frame is one packet: for    *)
(* every stream, numbered from anywhere and wrapping, and every limit.     *)
THEOREM LossOnlyInOrder ==
    ASSUME LossOnly, TimestampsGrow, Behaviors \subseteq Nat
    PROVE  Spec => [](InOrderDelivery /\ ListOrdered /\ LengthIsExact /\ Running)
<1> DEFINE IInv == ListType /\ HistoryType /\ LossInv
<1>1. Init => IInv
  BY TypeInit, LossInit
<1>2. IInv /\ [Next]_vars => IInv'
  BY TypeStep, LossStep
<1>3. IInv => InOrderDelivery /\ ListOrdered /\ LengthIsExact /\ Running
  <2> SUFFICES ASSUME LossInv, HistoryType
               PROVE  InOrderDelivery
    BY DEF LossInv
  <2>1. \A j \in DOMAIN delivered : Len(delivered[j]) = 1 /\ DOMAIN delivered[j] = {1}
    BY DEF LossInv, DeliveredSingle, HistoryType
  <2>2. QED
    BY <2>1 DEF LossInv, DeliveredOrdered, Given, InOrderDelivery
<1>4. QED
  BY <1>1, <1>2, <1>3, PTL DEF Spec

-----------------------------------------------------------------------------
(* Under the same assumptions nothing is lost *)

(* A packet that has arrived is on the list or was delivered.              *)
Kept ==
    \A p \in Packets : arrived[p] > 0 =>
        \/ \E k \in DOMAIN queue : Waiting(k) = p
        \/ \E j \in DOMAIN delivered : Given(j) = p

(* What a packet that is popped first leaves of the list, and what it adds *)
(* to the deliveries.                                                      *)
LEMMA PopMoves ==
    ASSUME ListType, HistoryType, LossInv, PopOldestFrame
    PROVE  /\ length = Len(queue) /\ Len(queue) \in Nat /\ Len(queue) >= 1
           /\ DOMAIN queue = 1 .. Len(queue) /\ DOMAIN queue' = 1 .. Len(queue) - 1
           /\ \A k \in 1 .. Len(queue) - 1 : queue'[k] = queue[k + 1]
           /\ Len(delivered) \in Nat
           /\ DOMAIN delivered = 1 .. Len(delivered)
           /\ DOMAIN delivered' = 1 .. Len(delivered) + 1
           /\ \A j \in 1 .. Len(delivered) : delivered'[j] = delivered[j]
           /\ delivered'[Len(delivered) + 1] = queue[1].pkts
           /\ delivered' = Append(delivered, queue[1].pkts)
           /\ lastSeq' = SeqNum(Waiting(1))
           /\ UNCHANGED <<arrived, pktBufBehavior>>
<1>1. queue \in Seq(Frames) /\ Len(queue) \in Nat /\ Len(queue) >= 1 /\ length = Len(queue)
  BY DEF ListType, LossInv, LengthIsExact, PopOldestFrame, FrameAvailable
<1>2. queue[1].pktCount = 1 /\ Len(queue[1].pkts) = 1
  BY <1>1 DEF LossInv, QueueSingle
<1>3. detached = <<>> /\ (length # 1 => Len(queue) >= 2)
  BY <1>1 DEF LossInv
<1>4. /\ queue' = IF length = 1 THEN <<>> ELSE Tail(queue)
      /\ delivered' = Append(delivered, queue[1].pkts)
      /\ lastSeq' = SeqNum(Waiting(1))
      /\ UNCHANGED <<arrived, pktBufBehavior>>
  BY <1>2, <1>3, PopSingle
<1>5. /\ DOMAIN queue = 1 .. Len(queue)
      /\ DOMAIN queue' = 1 .. Len(queue) - 1
      /\ \A k \in 1 .. Len(queue) - 1 : queue'[k] = queue[k + 1]
  <2>1. queue # <<>> /\ DOMAIN queue = 1 .. Len(queue)
    BY <1>1
  <2>2. CASE length = 1
    BY <1>1, <1>4, <2>1, <2>2
  <2>3. CASE length # 1
    BY <1>1, <1>4, <2>1, <2>3, HeadTailProperties
  <2>4. QED
    BY <2>2, <2>3
<1>6. delivered \in Seq(Seq(Packets)) /\ Len(delivered) \in Nat
  BY DEF HistoryType
<1>7. QED
  BY <1>1, <1>4, <1>5, <1>6

LEMMA KeptInit == Init => Kept
BY DEF Init, Kept

LEMMA KeptStep ==
    ASSUME LossOnly, TimestampsGrow, Behaviors \subseteq Nat,
           ListType, HistoryType, LossInv, Kept, [Next]_vars
    PROVE  Kept'
<1>1. CASE PopOldestFrame
  <2> SUFFICES ASSUME NEW p \in Packets, arrived[p] > 0
               PROVE  \/ \E k \in DOMAIN queue' : Waiting(k)' = p
                      \/ \E j \in DOMAIN delivered' : Given(j)' = p
    BY <1>1, PopMoves DEF Kept
  <2>1. CASE \E j \in DOMAIN delivered : Given(j) = p
    BY <1>1, <2>1, PopMoves DEF Given
  <2>2. ASSUME NEW k \in DOMAIN queue, Waiting(k) = p, k # 1
        PROVE  \E m \in DOMAIN queue' : Waiting(m)' = p
    <3>1. k - 1 \in DOMAIN queue' /\ queue'[k - 1] = queue[k]
      BY <1>1, <2>2, PopMoves
    <3>2. QED
      BY <2>2, <3>1 DEF Waiting
  <2>3. CASE Waiting(1) = p
    <3>1. Len(delivered) + 1 \in DOMAIN delivered'
      BY <1>1, PopMoves
    <3>2. delivered'[Len(delivered) + 1][1] = p
      BY <1>1, <2>3, PopMoves DEF Waiting, HeadPkt
    <3>3. QED
      BY <3>1, <3>2 DEF Given
  <2>4. QED
    BY <2>1, <2>2, <2>3 DEF Kept
<1>2. ASSUME NEW p \in Packets, Receive(p)
      PROVE  Kept'
  <2>1. queue' = Append(queue, NewNode(p)) /\ delivered' = delivered
    BY <1>2, ArrivalIsAppended DEF Receive
  <2>2. queue \in Seq(Frames) /\ DOMAIN queue = 1 .. Len(queue) /\ Len(queue) \in Nat
    BY DEF ListType
  <2>3. /\ DOMAIN queue' = 1 .. Len(queue) + 1
        /\ \A k \in 1 .. Len(queue) : queue'[k] = queue[k]
        /\ queue'[Len(queue) + 1] = NewNode(p)
    BY <2>1, <2>2
  <2>4. \A q \in Packets : q # p => arrived'[q] = arrived[q]
    BY <1>2 DEF Receive, HistoryType
  <2>5. Len(queue) + 1 \in DOMAIN queue' /\ queue'[Len(queue) + 1].pkts[1] = p
    BY <2>2, <2>3 DEF NewNode
  <2>6. \A k \in DOMAIN queue : k \in DOMAIN queue' /\ queue'[k] = queue[k]
    BY <2>2, <2>3
  <2>7. QED
    BY <2>1, <2>4, <2>5, <2>6 DEF Kept, Waiting, Given, HeadPkt
<1>3. CASE UNCHANGED vars \/ \E b \in Behaviors : SetBehavior(b)
  BY <1>3 DEF vars, SetBehavior, Kept, Waiting, Given
<1>4. QED
  BY <1>1, <1>2, <1>3 DEF Next

(* The packets of the list, and those of the deliveries.                   *)
Held == UNION {ToSet(queue[k].pkts) : k \in DOMAIN queue}
Handed == UNION {ToSet(delivered[j]) : j \in DOMAIN delivered}

LEMMA HeldAreWaiting ==
    ASSUME ListType, LossInv
    PROVE  Held = {Waiting(k) : k \in DOMAIN queue}
<1>1. ASSUME NEW k \in DOMAIN queue
      PROVE  ToSet(queue[k].pkts) = {Waiting(k)}
  <2>1. queue[k] \in Frames
    BY DEF ListType
  <2>2. queue[k].pkts \in Seq(Packets) /\ Len(queue[k].pkts) = 1
    BY <2>1 DEF Frames, LossInv, QueueSingle
  <2>3. DOMAIN queue[k].pkts = {1}
    BY <2>2
  <2>4. QED
    BY <2>3 DEF ToSet, Waiting, HeadPkt
<1>2. QED
  BY <1>1 DEF Held

LEMMA HeldAreWaitingNext ==
    (ListType /\ LossInv => Held = {Waiting(k) : k \in DOMAIN queue})'
<1>1. ListType /\ LossInv => Held = {Waiting(k) : k \in DOMAIN queue}
  BY HeldAreWaiting
<1>2. QED
  BY <1>1, PTL

LEMMA HandedAreGiven ==
    ASSUME HistoryType, LossInv
    PROVE  Handed = {Given(j) : j \in DOMAIN delivered}
<1>1. ASSUME NEW j \in DOMAIN delivered
      PROVE  ToSet(delivered[j]) = {Given(j)}
  <2>1. delivered[j] \in Seq(Packets) /\ Len(delivered[j]) = 1
    BY DEF HistoryType, LossInv, DeliveredSingle
  <2>2. DOMAIN delivered[j] = {1}
    BY <2>1
  <2>3. QED
    BY <2>2 DEF ToSet, Given
<1>2. QED
  BY <1>1 DEF Handed

(* What addPkt accepted is on the list or was given to the application,    *)
(* for every stream, limit and pattern of losses.                          *)
THEOREM LossKeepsAll ==
    ASSUME LossOnly, TimestampsGrow, Behaviors \subseteq Nat
    PROVE  Spec => []NothingLost
<1> DEFINE IInv == ListType /\ HistoryType /\ LossInv /\ Kept
<1>1. Init => IInv
  BY TypeInit, LossInit, KeptInit
<1>2. IInv /\ [Next]_vars => IInv'
  BY TypeStep, LossStep, KeptStep
<1>3. IInv => NothingLost
  <2> SUFFICES ASSUME ListType, HistoryType, LossInv, Kept
               PROVE  {p \in Packets : arrived[p] > 0} = Held \cup Handed
    BY DEF NothingLost, Held, Handed
  <2>1. \A k \in DOMAIN queue : Seen(Waiting(k))
    BY DEF LossInv, QueueSingle
  <2>2. \A j \in DOMAIN delivered : Seen(Given(j))
    BY DEF LossInv, DeliveredSingle
  <2>3. QED
    BY <2>1, <2>2, HeldAreWaiting, HandedAreGiven DEF Kept, Seen
<1>4. QED
  BY <1>1, <1>2, <1>3, PTL DEF Spec
-----------------------------------------------------------------------------
(* ... and the buffer implements JitterBuffer *)

(* A sender of at most 65535 packets, none of them numbered 0: such a      *)
(* number tells its packet.                                                *)
NumbersTell ==
    /\ \A p \in Packets : SeqNum(p) # 0
    /\ \A p, q \in Packets : SeqNum(q) = SeqNum(p) + 1 => q = p + 1

LastPopped ==
    /\ delivered = <<>> => lastSeq = -1
    /\ delivered # <<>> => lastSeq = SeqNum(Given(Len(delivered)))

LEMMA LastPoppedInit == Init => LastPopped
BY DEF Init, LastPopped

LEMMA LastPoppedStep ==
    ASSUME ListType, HistoryType, LossInv, LastPopped, [Next]_vars
    PROVE  LastPopped'
<1>1. CASE PopOldestFrame
  <2>1. delivered' # <<>> /\ Len(delivered') = Len(delivered) + 1
    BY <1>1, PopMoves DEF HistoryType
  <2>2. delivered'[Len(delivered')][1] = Waiting(1)
    BY <1>1, <2>1, PopMoves DEF Waiting, HeadPkt
  <2>3. QED
    BY <1>1, <2>1, <2>2, PopMoves DEF LastPopped, Given, SeqNum
<1>2. CASE ~PopOldestFrame
  BY <1>2 DEF Next, vars, Receive, SetBehavior, LastPopped, Given, SeqNum
<1>3. QED
  BY <1>1, <1>2

LEMMA WaitingDiffer ==
    ASSUME ListType, LossInv
    PROVE  \A j, k \in DOMAIN queue : Waiting(j) = Waiting(k) => j = k
<1>1. Len(queue) \in Nat /\ DOMAIN queue = 1 .. Len(queue)
  BY DEF ListType
<1>2. \A j \in DOMAIN queue : Waiting(j) \in Int
  BY DEF LossInv, QueueSingle, Seen, Packets
<1>3. \A j, k \in DOMAIN queue : j < k => Waiting(j) < Waiting(k)
  BY DEF LossInv, ListOrdered, Waiting
<1>4. QED
  BY <1>1, <1>2, <1>3

LEMMA IntervalCount ==
    ASSUME NEW n \in Nat
    PROVE  IsFiniteSet(1 .. n) /\ Cardinality(1 .. n) = n
<1> DEFINE c == Cardinality(1 .. n)
<1>1. 1 \in Int /\ n \in Int
  OBVIOUS
<1>2. IsFiniteSet(1 .. n) /\ c = IF 1 > n THEN 0 ELSE n - 1 + 1
  BY <1>1, FS_Interval, Zenon
<1> HIDE DEF c
<1>3. c = n
  BY <1>2
<1>4. QED
  BY <1>2, <1>3, Zenon DEF c

LEMMA HeldCount ==
    ASSUME ListType, LossInv
    PROVE  IsFiniteSet(Held) /\ Cardinality(Held) = Len(queue)
<1> DEFINE f == [k \in 1 .. Len(queue) |-> Waiting(k)]
<1>1. Len(queue) \in Nat /\ DOMAIN queue = 1 .. Len(queue)
  BY DEF ListType
<1>2. Held = {Waiting(k) : k \in 1 .. Len(queue)}
  BY <1>1, HeldAreWaiting
<1>3. f \in Surjection(1 .. Len(queue), Held)
  BY <1>2 DEF Surjection
<1>4. f \in Injection(1 .. Len(queue), Held)
  <2>1. \A j, k \in 1 .. Len(queue) : Waiting(j) = Waiting(k) => j = k
    BY <1>1, WaitingDiffer
  <2>2. f \in [1 .. Len(queue) -> Held]
    BY <1>2
  <2>3. QED
    BY <2>1, <2>2 DEF Injection, IsInjective
<1>5. IsFiniteSet(1 .. Len(queue)) /\ Cardinality(1 .. Len(queue)) = Len(queue)
  BY <1>1, IntervalCount, Zenon
<1>6. QED
  BY <1>3, <1>4, <1>5, FS_Surjection

(* The head of the list is the oldest packet that waits.                   *)
LEMMA HeadIsMin ==
    ASSUME ListType, LossInv, Len(queue) >= 1
    PROVE  Promise!Min(Held) = Waiting(1)
<1>1. Len(queue) \in Nat /\ DOMAIN queue = 1 .. Len(queue) /\ 1 \in DOMAIN queue
  BY DEF ListType
<1>2. \A k \in DOMAIN queue : Waiting(k) \in Int
  BY DEF LossInv, QueueSingle, Seen, Packets
<1>3. \A k \in DOMAIN queue : Waiting(1) <= Waiting(k)
  BY <1>1, <1>2 DEF LossInv, ListOrdered, Waiting
<1>4. Waiting(1) \in Held /\ \A x \in Held : x \in Int /\ Waiting(1) <= x
  BY <1>1, <1>2, <1>3, HeldAreWaiting
<1>5. \A x \in Held : (\A y \in Held : x <= y) => x = Waiting(1)
  BY <1>4
<1>6. QED
  BY <1>4, <1>5 DEF Promise!Min

Released == [k \in DOMAIN delivered |-> delivered[k][1]]

LEMMA ReleasedTyped ==
    ASSUME HistoryType, LossInv
    PROVE  /\ Released \in Seq(Packets)
           /\ Len(Released) = Len(delivered)
           /\ \A j \in 1 .. Len(delivered) : Released[j] = Given(j)
           /\ Released = <<>> <=> delivered = <<>>
<1>1. delivered \in Seq(Seq(Packets)) /\ Len(delivered) \in Nat /\ DOMAIN delivered = 1 .. Len(delivered)
  BY DEF HistoryType
<1>2. \A j \in 1 .. Len(delivered) : Given(j) \in Packets
  BY <1>1 DEF LossInv, DeliveredSingle, Seen
<1>3. Released \in Seq(Packets) /\ Len(Released) = Len(delivered)
  BY <1>1, <1>2 DEF Released, Given
<1>4. \A j \in 1 .. Len(delivered) : Released[j] = Given(j)
  BY <1>1 DEF Released, Given
<1>5. QED
  BY <1>1, <1>3, <1>4, EmptySeq

LEMMA SeqNumsNatural == \A n \in SeqNums : n \in Int /\ n >= 0
BY DEF SeqNums

LEMMA SameCardinality == ASSUME NEW S PROVE Promise!Cardinality(S) = Cardinality(S)
BY DEF Promise!Cardinality, Cardinality

depth == IF pktBufBehavior < 0 THEN 0 ELSE pktBufBehavior

LEMMA AppendIsFunction ==
    ASSUME NEW S, NEW r \in Seq(S), NEW w \in S
    PROVE  Append(r, w) = [j \in 1 .. Len(r) + 1 |-> IF j = Len(r) + 1 THEN w ELSE r[j]]
<1> DEFINE f == [j \in 1 .. Len(r) + 1 |-> IF j = Len(r) + 1 THEN w ELSE r[j]]
<1>1. Len(r) \in Nat /\ \A j \in 1 .. Len(r) : r[j] \in S
  OBVIOUS
<1>2. f \in [1 .. Len(r) + 1 -> S]
  BY <1>1
<1>3. f \in Seq(S) /\ Len(f) = Len(r) + 1
  BY <1>1, <1>2
<1>4. \A j \in 1 .. Len(f) : f[j] = Append(r, w)[j]
  BY <1>1, <1>3
<1>5. Append(r, w) \in Seq(S) /\ Len(Append(r, w)) = Len(f)
  BY <1>3, AppendProperties
<1> HIDE DEF f
<1>6. f = Append(r, w)
  BY <1>3, <1>4, <1>5, SeqEqual
<1>7. QED
  BY <1>6 DEF f

LEMMA PopReleases ==
    ASSUME NumbersTell, Behaviors \subseteq Nat,
           ListType, HistoryType, LossInv, LastPopped, LossInv', HistoryType', ListType', PopOldestFrame
    PROVE  Promise!Release
<1>1. /\ 1 \in DOMAIN queue
      /\ Promise!Min(Held) = Waiting(1)
      /\ Held # {}
      /\ Waiting(1) \in Packets
  <2>1. Len(queue) \in Nat /\ Len(queue) >= 1 /\ DOMAIN queue = 1 .. Len(queue)
    BY PopMoves
  <2>2. Promise!Min(Held) = Waiting(1)
    BY <2>1, HeadIsMin
  <2>3. 1 \in DOMAIN queue
    BY <2>1
  <2>4. Waiting(1) \in Held
    BY <2>3, HeldAreWaiting
  <2>5. Waiting(1) \in Packets
    BY <2>3 DEF LossInv, QueueSingle, Seen
  <2>6. QED
    BY <2>2, <2>3, <2>4, <2>5
<1>2. Promise!Follows(Waiting(1)) \/ Cardinality(Held) > depth
  <2>1. pktBufBehavior \in Nat /\ depth = pktBufBehavior
    BY DEF HistoryType, depth
  <2>a. Cardinality(Held) = length /\ length \in Nat /\ length >= 1
    BY PopMoves, HeldCount
  <2>2. CASE pktBufBehavior = 0
    BY <2>1, <2>2, <2>a
  <2>3. CASE length > pktBufBehavior
    BY <2>1, <2>3, <2>a
  <2>4. CASE pktBufBehavior # 0 /\ ~(length > pktBufBehavior)
    <3>1. oldest = Waiting(1)
      BY DEF oldest, OldestFrame, LossInv, Waiting
    <3>2. SeqNum(Waiting(1)) # 0
      BY <1>1 DEF NumbersTell
    <3>3. SeqNum(Waiting(1)) = lastSeq + 1 \/ lastSeq < 0
      <4>1. ReadyToPop
        BY <2>1, <2>4 DEF PopOldestFrame
      <4>2. QED
        BY <2>4, <3>1, <3>2, <4>1 DEF ReadyToPop
    <3>4. CASE delivered = <<>>
      BY <3>4, ReleasedTyped DEF Promise!Follows, Released
    <3>5. CASE delivered # <<>>
      <4>1. Len(delivered) \in DOMAIN delivered
        BY <3>5 DEF HistoryType
      <4>2. Given(Len(delivered)) \in Packets
        BY <4>1 DEF LossInv, DeliveredSingle, Seen
      <4>3. lastSeq = SeqNum(Given(Len(delivered))) /\ ~(lastSeq < 0)
        <5>1. SeqNum(Given(Len(delivered))) \in SeqNums
          BY <4>2, StreamType
        <5>2. lastSeq = SeqNum(Given(Len(delivered)))
          BY <3>5 DEF LastPopped
        <5>3. SeqNum(Given(Len(delivered))) \in Int /\ SeqNum(Given(Len(delivered))) >= 0
          BY <5>1, SeqNumsNatural
        <5>4. QED
          BY <5>2, <5>3
      <4>4. Waiting(1) = Given(Len(delivered)) + 1
        BY <1>1, <3>3, <4>2, <4>3 DEF NumbersTell
      <4>5. Released[Len(Released)] = Given(Len(delivered))
        BY <4>1, ReleasedTyped DEF HistoryType
      <4>6. QED
        BY <4>4, <4>5 DEF Promise!Follows, Released
    <3>6. QED
      BY <3>4, <3>5
  <2>5. QED
    BY <2>2, <2>3, <2>4
<1>3. Released' = Append(Released, Waiting(1))
  <2>1. /\ DOMAIN delivered' = 1 .. Len(delivered) + 1
        /\ DOMAIN delivered = 1 .. Len(delivered)
        /\ Len(delivered) \in Nat
        /\ \A j \in 1 .. Len(delivered) : delivered'[j] = delivered[j]
        /\ delivered'[Len(delivered) + 1] = queue[1].pkts
    BY PopMoves
  <2>2. Released' = [j \in 1 .. Len(delivered) + 1 |->
                        IF j = Len(delivered) + 1 THEN Waiting(1) ELSE Released[j]]
    BY <2>1 DEF Released, Waiting, HeadPkt
  <2>3. Released \in Seq(Packets) /\ Len(Released) = Len(delivered)
    BY ReleasedTyped
  <2> DEFINE r == Released
             w == Waiting(1)
  <2>4. r \in Seq(Packets) /\ w \in Packets
        /\ Released' = [j \in 1 .. Len(r) + 1 |-> IF j = Len(r) + 1 THEN w ELSE r[j]]
    BY <1>1, <2>2, <2>3
  <2> HIDE DEF r, w
  <2>5. Released' = Append(r, w)
    BY <2>4, AppendIsFunction
  <2>6. QED
    BY <2>5 DEF r, w
<1>4. Held' = Held \ {Waiting(1)}
  <2>1. Held' = {Waiting(k)' : k \in DOMAIN queue'}
    BY HeldAreWaitingNext
  <2>a. \A k \in 1 .. Len(queue) - 1 : Waiting(k)' = Waiting(k + 1)
    BY PopMoves DEF Waiting, HeadPkt
  <2>b. Len(queue) \in Nat /\ DOMAIN queue = 1 .. Len(queue) /\ DOMAIN queue' = 1 .. Len(queue) - 1
    BY PopMoves
  <2>2. Held' = {Waiting(k + 1) : k \in 1 .. Len(queue) - 1}
    BY <2>1, <2>a, <2>b
  <2>3. Held = {Waiting(k) : k \in 1 .. Len(queue)}
    BY <2>b, HeldAreWaiting
  <2>4. \A k \in 2 .. Len(queue) : Waiting(k) # Waiting(1)
    BY <2>b, WaitingDiffer
  <2>5. ASSUME NEW x \in Held, x # Waiting(1)
        PROVE  x \in Held'
    <3>1. PICK k \in 1 .. Len(queue) : x = Waiting(k)
      BY <2>3, <2>5
    <3>2. k - 1 \in 1 .. Len(queue) - 1 /\ Waiting((k - 1) + 1) = x
      BY <2>b, <2>5, <3>1
    <3>3. QED
      BY <2>2, <3>2
  <2>6. ASSUME NEW x \in Held'
        PROVE  x \in Held /\ x # Waiting(1)
    <3>1. PICK k \in 1 .. Len(queue) - 1 : x = Waiting(k + 1)
      BY <2>2, <2>6
    <3>2. k + 1 \in 2 .. Len(queue) /\ k + 1 \in 1 .. Len(queue)
      BY <2>b
    <3>3. QED
      BY <2>3, <2>4, <3>1, <3>2
  <2>7. QED
    BY <2>5, <2>6
<1>5. QED
  <2>1. UNCHANGED depth
    BY PopMoves DEF depth
  <2>2. Promise!Follows(Promise!Min(Held)) \/ Promise!Cardinality(Held) > depth
    BY <1>1, <1>2, SameCardinality
  <2>3. Released' = Append(Released, Promise!Min(Held)) /\ Held' = Held \ {Promise!Min(Held)}
    BY <1>1, <1>3, <1>4
  <2>4. QED
    BY <1>1, <2>1, <2>2, <2>3 DEF Promise!Release, Held, Released, depth

(* A packet that arrives is one the buffer has to accept.                  *)
LEMMA ReceiveAccepts ==
    ASSUME LossOnly, TimestampsGrow, Behaviors \subseteq Nat,
           ListType, HistoryType, LossInv, ListType', LossInv', NEW p \in Packets, Receive(p)
    PROVE  Promise!Accept(p)
<1>1. /\ queue' = Append(queue, NewNode(p))
      /\ delivered' = delivered
      /\ pktBufBehavior' = pktBufBehavior
  BY ArrivalIsAppended DEF Receive
<1>2. \A q : Seen(q) => q < p
  BY ArrivalIsYoungest
<1>3. Len(queue) \in Nat /\ DOMAIN queue = 1 .. Len(queue)
  BY DEF ListType
<1>4. /\ DOMAIN queue' = 1 .. Len(queue) + 1
      /\ \A k \in 1 .. Len(queue) : Waiting(k)' = Waiting(k)
      /\ \A k : k = Len(queue) + 1 => Waiting(k)' = p
  <2>1. /\ \A k \in 1 .. Len(queue) : queue'[k] = queue[k]
        /\ queue'[Len(queue) + 1] = NewNode(p)
        /\ DOMAIN queue' = 1 .. Len(queue) + 1
    BY <1>1, <1>3 DEF ListType
  <2>2. QED
    BY <2>1 DEF Waiting, HeadPkt, NewNode
<1>5. Held' = Held \cup {p}
  <2>1. Held' = {Waiting(k)' : k \in DOMAIN queue'}
    BY HeldAreWaitingNext
  <2>2. Held = {Waiting(k) : k \in 1 .. Len(queue)}
    BY <1>3, HeldAreWaiting
  <2>3. 1 .. Len(queue) + 1 = 1 .. Len(queue) \cup {Len(queue) + 1}
    BY <1>3
  <2>4. QED
    BY <1>4, <2>1, <2>2, <2>3
<1>6. p \notin Held
  <2>1. \A k \in DOMAIN queue : Waiting(k) < p
    BY <1>2 DEF LossInv, QueueSingle
  <2>2. ~(p < p)
    BY DEF Packets
  <2>3. QED
    BY <2>1, <2>2, HeldAreWaiting
<1>7. ~Promise!Late(p)
  <2> SUFFICES ASSUME Released # <<>>, p <= Released[Len(Released)]
               PROVE  FALSE
    BY DEF Promise!Late, Released
  <2>1. Len(delivered) \in DOMAIN delivered
    BY ReleasedTyped DEF HistoryType
  <2>2. Seen(Given(Len(delivered))) /\ Released[Len(Released)] = Given(Len(delivered))
    BY <2>1, ReleasedTyped DEF LossInv, DeliveredSingle, HistoryType
  <2>3. Given(Len(delivered)) < p /\ Given(Len(delivered)) \in Int
    BY <1>2, <2>2 DEF Seen, Packets
  <2>4. QED
    BY <2>2, <2>3 DEF Packets
<1>8. UNCHANGED <<depth, Released>>
  BY <1>1 DEF depth, Released
<1>9. QED
  BY <1>5, <1>6, <1>7, <1>8 DEF Promise!Accept, Held, Released, depth

(* As long as the network at most loses packets of a stream that never     *)
(* wraps, every step of the buffer is one JitterBuffer allows: a late      *)
(* packet or a duplicate never enters, the oldest leaves first, and a gap  *)
(* is skipped only when more packets wait than the limit allows.           *)
THEOREM LossKeepsPromise ==
    ASSUME LossOnly, TimestampsGrow, NumbersTell, Behaviors \subseteq Nat
    PROVE  Spec => KeepsPromise
<1> DEFINE IInv == ListType /\ HistoryType /\ LossInv /\ LastPopped
<1>1. Init => IInv
  BY TypeInit, LossInit, LastPoppedInit
<1>2. IInv /\ [Next]_vars => IInv'
  BY TypeStep, LossStep, LastPoppedStep
<1>3. Init => Promise!JInit
  <2> SUFFICES ASSUME Init
               PROVE  Promise!JInit
    OBVIOUS
  <2>1. depth \in Nat
    BY DEF Init, depth
  <2>2. Held = {} /\ Released = <<>>
    BY DEF Init, Held, Released
  <2>3. QED
    BY <2>1, <2>2 DEF Promise!JInit, Held, Released, depth
<1>4. IInv /\ IInv' /\ [Next]_vars => [Promise!JNext]_Promise!jvars
  <2> SUFFICES ASSUME ListType, HistoryType, LossInv, LastPopped,
                      ListType', HistoryType', LossInv', [Next]_vars
               PROVE  [Promise!JNext]_Promise!jvars
    OBVIOUS
  <2>1. CASE PopOldestFrame
    BY <2>1, PopReleases DEF Promise!JNext
  <2>2. ASSUME NEW p \in Packets, Receive(p)
        PROVE  Promise!JNext
    BY <2>2, ReceiveAccepts DEF Promise!JNext, Packets
  <2>3. ASSUME NEW b \in Behaviors, SetBehavior(b)
        PROVE  Promise!JNext
    <3>1. depth' \in Nat
      BY <2>3 DEF SetBehavior, depth
    <3>2. UNCHANGED <<Held, Released>>
      BY <2>3 DEF SetBehavior, Held, Released
    <3>3. QED
      BY <3>1, <3>2 DEF Promise!JNext, Promise!ChangeDepth, Held, Released, depth
  <2>4. CASE UNCHANGED vars
    BY <2>4 DEF vars, Promise!jvars
  <2>5. QED
    BY <2>1, <2>2, <2>3, <2>4 DEF Next
<1>5. QED
  BY <1>1, <1>2, <1>3, <1>4, PTL DEF Spec, KeepsPromise, Promise!Spec
-----------------------------------------------------------------------------
(* Frames, with any stream and behavior and on any network *)

(* The packets of one timestamp by ascending sequence number.              *)
Sorted(c) ==
    \A a, b \in DOMAIN c :
        /\ TimeStamp(c[a]) = TimeStamp(c[b])
        /\ a < b => SeqNum(c[a]) < SeqNum(c[b])

(* In a sorted chain the packets below a number come first: counting them  *)
(* finds the place.                                                        *)
LEMMA SmallerComeFirst ==
    ASSUME NEW c \in Seq(Packets), Sorted(c), NEW n \in Int
    PROVE  LET smaller == {j \in DOMAIN c : SeqNum(c[j]) < n}
           IN  /\ Cardinality(smaller) \in 0 .. Len(c)
               /\ \A j \in 1 .. Len(c) : SeqNum(c[j]) < n <=> j <= Cardinality(smaller)
<1> DEFINE smaller == {j \in DOMAIN c : SeqNum(c[j]) < n}
           m == Cardinality(smaller)
<1>1. Len(c) \in Nat /\ DOMAIN c = 1 .. Len(c) /\ \A j \in 1 .. Len(c) : c[j] \in Packets
  OBVIOUS
<1>2. \A j \in 1 .. Len(c) : SeqNum(c[j]) \in Int
  BY <1>1, StreamType, SeqNumsNatural
<1>3. smaller \subseteq 1 .. Len(c)
  BY <1>1
<1>4. IsFiniteSet(1 .. Len(c)) /\ Cardinality(1 .. Len(c)) = Len(c)
  BY <1>1, IntervalCount, Zenon
<1>5. IsFiniteSet(smaller) /\ m <= Len(c) /\ m \in Nat
  BY <1>3, <1>4, FS_Subset, FS_CardinalityType
<1>6. ASSUME NEW j \in 1 .. Len(c), SeqNum(c[j]) < n PROVE j <= m
  <2>1. 1 .. j \subseteq smaller
    <3> SUFFICES ASSUME NEW k \in 1 .. j, k # j PROVE k \in smaller
      BY <1>1, <1>6
    <3>1. k \in 1 .. Len(c) /\ k < j
      BY <1>1
    <3>2. SeqNum(c[k]) < SeqNum(c[j])
      BY <1>1, <3>1 DEF Sorted
    <3>3. QED
      BY <1>1, <1>2, <1>6, <3>1, <3>2
  <2>2. j \in Nat
    OBVIOUS
  <2>3. IsFiniteSet(1 .. j) /\ Cardinality(1 .. j) = j
    BY <2>2, IntervalCount, Zenon
  <2>4. Cardinality(1 .. j) <= m
    BY <1>5, <2>1, FS_Subset
  <2>5. QED
    BY <2>3, <2>4
<1>7. ASSUME NEW j \in 1 .. Len(c), ~(SeqNum(c[j]) < n) PROVE ~(j <= m)
  <2>1. smaller \subseteq 1 .. j - 1
    <3> SUFFICES ASSUME NEW k \in 1 .. Len(c), SeqNum(c[k]) < n PROVE k < j
      BY <1>1
    <3>1. ~(j < k)
      <4>1. j < k => SeqNum(c[j]) < SeqNum(c[k])
        BY <1>1 DEF Sorted
      <4>2. QED
        BY <1>2, <1>7, <4>1
    <3>2. j # k
      BY <1>7
    <3>3. QED
      BY <1>1, <3>1, <3>2
  <2>2. j - 1 \in Nat
    OBVIOUS
  <2>3. IsFiniteSet(1 .. j - 1) /\ Cardinality(1 .. j - 1) = j - 1
    BY <2>2, IntervalCount, Zenon
  <2>4. m <= Cardinality(1 .. j - 1)
    BY <2>1, <2>3, FS_Subset
  <2>5. QED
    BY <1>5, <2>3, <2>4
<1> HIDE DEF m
<1>8. m \in 0 .. Len(c) /\ \A j \in 1 .. Len(c) : SeqNum(c[j]) < n <=> j <= m
  BY <1>1, <1>5, <1>6, <1>7
<1>9. QED
  BY <1>8 DEF m

LEMMA SingleSorted == ASSUME NEW p \in Packets PROVE Sorted(<<p>>)
<1>1. DOMAIN <<p>> = {1} /\ <<p>>[1] = p
  OBVIOUS
<1>2. \A a, b \in {1} : ~(a < b)
  OBVIOUS
<1>3. QED
  BY <1>1, <1>2 DEF Sorted

(* A packet of the frame's timestamp with a new number keeps it sorted.    *)
LEMMA AddedSorted ==
    ASSUME NEW c \in Seq(Packets), c # <<>>, Sorted(c), NEW p \in Packets,
           TimeStamp(c[1]) = TimeStamp(p),
           \A j \in DOMAIN c : SeqNum(c[j]) # SeqNum(p)
    PROVE  Sorted(InsertAt(c, Cardinality({j \in DOMAIN c : SeqNum(c[j]) < SeqNum(p)}) + 1, p))
<1> DEFINE n == SeqNum(p)
           m == Cardinality({j \in DOMAIN c : SeqNum(c[j]) < SeqNum(p)})
           t == InsertAt(c, m + 1, p)
<1>1. /\ Len(c) \in Nat /\ Len(c) >= 1 /\ DOMAIN c = 1 .. Len(c)
      /\ \A j \in 1 .. Len(c) : c[j] \in Packets
  OBVIOUS
<1>2. n \in Int /\ \A j \in 1 .. Len(c) : SeqNum(c[j]) \in Int
  BY <1>1, StreamType, SeqNumsNatural
<1>3. m \in 0 .. Len(c) /\ \A j \in 1 .. Len(c) : SeqNum(c[j]) < n <=> j <= m
  BY <1>2, SmallerComeFirst
<1> HIDE DEF m
<1>4. m + 1 \in 1 .. Len(c) + 1 /\ m \in Nat
  BY <1>1, <1>3
<1>5. /\ t \in Seq(Packets) /\ Len(t) = Len(c) + 1
      /\ \A j \in 1 .. m + 1 - 1 : t[j] = c[j]
      /\ t[m + 1] = p
      /\ \A j \in m + 1 .. Len(c) : t[j + 1] = c[j]
  BY <1>4, InsertAtElements
<1> HIDE DEF t
<1>6. /\ DOMAIN t = 1 .. Len(c) + 1
      /\ \A j \in 1 .. m : t[j] = c[j]
      /\ \A j \in m + 2 .. Len(c) + 1 : t[j] = c[j - 1]
  <2>1. ASSUME NEW j \in m + 2 .. Len(c) + 1 PROVE t[j] = c[j - 1]
    <3>1. j - 1 \in m + 1 .. Len(c) /\ (j - 1) + 1 = j
      BY <1>1, <1>4
    <3>2. QED
      BY <1>5, <3>1
  <2>2. DOMAIN t = 1 .. Len(c) + 1
    BY <1>5
  <2>3. \A j \in 1 .. m : t[j] = c[j]
    BY <1>4, <1>5
  <2>4. QED
    BY <2>1, <2>2, <2>3
<1>7. \A j \in 1 .. Len(c) : TimeStamp(c[j]) = TimeStamp(p)
  BY <1>1 DEF Sorted
<1>8. \A j \in 1 .. Len(c) : j <= m => SeqNum(c[j]) < n
  BY <1>3
<1>9. \A j \in 1 .. Len(c) : j > m => n < SeqNum(c[j])
  BY <1>1, <1>2, <1>3, <1>4
<1>10. \A j \in 1 .. Len(c) + 1 : j \in 1 .. m \/ j = m + 1 \/ j \in m + 2 .. Len(c) + 1
  BY <1>1, <1>4
<1>11. \A j \in m + 2 .. Len(c) + 1 : j - 1 \in 1 .. Len(c) /\ j - 1 > m
  BY <1>1, <1>4
<1>12. \A j \in 1 .. m : j \in 1 .. Len(c) /\ j <= m
  BY <1>1, <1>3
<1>13. ASSUME NEW a \in 1 .. Len(c) + 1 PROVE TimeStamp(t[a]) = TimeStamp(p)
  <2>1. CASE a \in 1 .. m
    <3>1. a \in 1 .. Len(c) /\ t[a] = c[a]
      BY <1>6, <1>12, <2>1
    <3>2. QED
      BY <1>7, <3>1
  <2>2. CASE a = m + 1
    BY <1>5, <2>2
  <2>3. CASE a \in m + 2 .. Len(c) + 1
    <3>1. a - 1 \in 1 .. Len(c) /\ t[a] = c[a - 1]
      BY <1>6, <1>11, <2>3
    <3>2. QED
      BY <1>7, <3>1
  <2>4. QED
    BY <1>10, <2>1, <2>2, <2>3
<1>14. ASSUME NEW a \in 1 .. Len(c) + 1, NEW b \in 1 .. Len(c) + 1, a < b
       PROVE  SeqNum(t[a]) < SeqNum(t[b])
  <2>1. \A i, j \in 1 .. Len(c) : i < j => SeqNum(c[i]) < SeqNum(c[j])
    BY <1>1 DEF Sorted
  <2>2. CASE a \in 1 .. m /\ b \in 1 .. m
    BY <1>6, <1>12, <1>14, <2>1, <2>2
  <2>3. CASE a \in 1 .. m /\ b = m + 1
    BY <1>5, <1>6, <1>8, <1>12, <2>3
  <2>4. CASE a \in 1 .. m /\ b \in m + 2 .. Len(c) + 1
    <3>1. a < b - 1 /\ a \in 1 .. Len(c) /\ b - 1 \in 1 .. Len(c)
      BY <1>4, <1>11, <1>12, <2>4
    <3>2. t[a] = c[a] /\ t[b] = c[b - 1]
      BY <1>6, <2>4
    <3>3. QED
      BY <2>1, <3>1, <3>2
  <2>5. CASE a = m + 1 /\ b \in m + 2 .. Len(c) + 1
    BY <1>5, <1>6, <1>9, <1>11, <2>5
  <2>6. CASE a \in m + 2 .. Len(c) + 1 /\ b \in m + 2 .. Len(c) + 1
    <3>1. a - 1 < b - 1 /\ a - 1 \in 1 .. Len(c) /\ b - 1 \in 1 .. Len(c)
      BY <1>4, <1>11, <1>14, <2>6
    <3>2. t[a] = c[a - 1] /\ t[b] = c[b - 1]
      BY <1>6, <2>6
    <3>3. QED
      BY <2>1, <3>1, <3>2
  <2>7. QED
    BY <1>4, <1>10, <1>14, <2>2, <2>3, <2>4, <2>5, <2>6
<1>15. Sorted(t)
  BY <1>6, <1>13, <1>14 DEF Sorted
<1>16. QED
  BY <1>15 DEF t, m

(* A list all of whose frames were on the sorted list or are new.          *)
LEMMA SortedFrom ==
    ASSUME FramesSorted,
           \A j \in DOMAIN queue' :
               \/ \E k \in DOMAIN queue : queue'[j] = queue[k]
               \/ \E p \in Packets : queue'[j] = NewNode(p)
    PROVE  FramesSorted'
<1>1. \A j \in DOMAIN queue' : Sorted(queue'[j].pkts)
  <2>1. \A k \in DOMAIN queue : Sorted(queue[k].pkts)
    BY DEF FramesSorted, Sorted
  <2>2. \A p \in Packets : Sorted(NewNode(p).pkts)
    BY SingleSorted DEF NewNode
  <2>3. QED
    BY <2>1, <2>2
<1>2. QED
  BY <1>1 DEF FramesSorted, Sorted, TimeStamp, SeqNum

(* The list after a new node was linked in behind the k-th.                *)
LEMMA LinkedBehind ==
    ASSUME ListType, NEW p \in Packets, NEW k \in 1 .. Len(queue),
           queue' = InsertAt(queue, k + 1, NewNode(p))
    PROVE  /\ Len(queue') = Len(queue) + 1
           /\ DOMAIN queue' = 1 .. Len(queue) + 1
           /\ \A j \in 1 .. k : queue'[j] = queue[j]
           /\ queue'[k + 1] = NewNode(p)
           /\ \A j \in k + 2 .. Len(queue) + 1 : queue'[j] = queue[j - 1]
<1> DEFINE e == NewNode(p)
           i == k + 1
           t == InsertAt(queue, i, e)
<1>1. /\ queue \in Seq(Frames) /\ Len(queue) \in Nat /\ i \in 1 .. Len(queue) + 1
      /\ e \in Frames
  BY NewNodeType DEF ListType
<1>a. queue' = t
  OBVIOUS
<1> HIDE DEF e, i
<1>q. queue \in Seq(Frames)
  BY <1>1
<1>e. e \in Frames
  BY <1>1
<1>i. i \in 1 .. Len(queue) + 1
  BY <1>1
<1>b. /\ InsertAt(queue, i, e) \in Seq(Frames)
      /\ Len(InsertAt(queue, i, e)) = Len(queue) + 1
      /\ \A j \in 1 .. i - 1 : InsertAt(queue, i, e)[j] = queue[j]
      /\ InsertAt(queue, i, e)[i] = e
      /\ \A j \in i .. Len(queue) : InsertAt(queue, i, e)[j + 1] = queue[j]
  BY <1>q, <1>e, <1>i, InsertAtElements
<1> HIDE DEF t
<1>2. /\ t \in Seq(Frames) /\ Len(t) = Len(queue) + 1
      /\ \A j \in 1 .. k + 1 - 1 : t[j] = queue[j]
      /\ t[k + 1] = NewNode(p)
      /\ \A j \in k + 1 .. Len(queue) : t[j + 1] = queue[j]
  BY <1>b DEF i, e, t
<1>3. k + 1 \in 1 .. Len(queue) + 1
  BY <1>1 DEF i
<1>4. DOMAIN t = 1 .. Len(queue) + 1 /\ \A j \in 1 .. k : t[j] = queue[j]
  BY <1>1, <1>2, <1>3
<1>5. ASSUME NEW j \in k + 2 .. Len(queue) + 1 PROVE t[j] = queue[j - 1]
  <2>1. j - 1 \in k + 1 .. Len(queue) /\ (j - 1) + 1 = j
    BY <1>1, <1>3
  <2>2. QED
    BY <1>2, <2>1
<1>6. QED
  BY <1>a, <1>2, <1>4, <1>5, Zenon

LEMMA SortedInsert ==
    ASSUME ListType, FramesSorted, NEW p \in Packets, Insert(p)
    PROVE  FramesSorted'
<1>1. CASE UNCHANGED queue
  BY <1>1, SortedFrom
<1>2. ASSUME NEW k \in Place(p), Enqueue(InsertAt(queue, k + 1, NewNode(p)))
      PROVE  FramesSorted'
  <2>1. queue \in Seq(Frames) /\ Len(queue) \in Nat /\ DOMAIN queue = 1 .. Len(queue)
        /\ k \in 1 .. Len(queue)
    BY DEF ListType, Place
  <2>2. queue' = InsertAt(queue, k + 1, NewNode(p))
    BY <1>2 DEF Enqueue
  <2>4. /\ DOMAIN queue' = 1 .. Len(queue) + 1
        /\ \A j \in 1 .. k : queue'[j] = queue[j]
        /\ queue'[k + 1] = NewNode(p)
        /\ \A j \in k + 2 .. Len(queue) + 1 : queue'[j] = queue[j - 1]
    BY <2>1, <2>2, LinkedBehind
  <2>5. ASSUME NEW j \in DOMAIN queue'
        PROVE  \/ \E i \in DOMAIN queue : queue'[j] = queue[i]
               \/ queue'[j] = NewNode(p)
    <3>1. j \in 1 .. Len(queue) + 1
      BY <2>4
    <3>2. CASE j <= k
      BY <2>1, <2>4, <3>1, <3>2
    <3>3. CASE j = k + 1
      BY <2>4, <3>3
    <3>4. CASE j > k + 1
      <4>1. j \in k + 2 .. Len(queue) + 1 /\ j - 1 \in DOMAIN queue
        BY <2>1, <3>1, <3>4
      <4>2. queue'[j] = queue[j - 1]
        BY <2>4, <4>1
      <4>3. QED
        BY <4>1, <4>2
    <3>5. QED
      BY <2>1, <3>1, <3>2, <3>3, <3>4
  <2>6. QED
    BY <2>5, SortedFrom
<1>3. ASSUME NEW k \in Place(p), TimeStamp(HeadPkt(queue[k])) = TimeStamp(p), addToFrame(k, p)
      PROVE  FramesSorted'
  <2> DEFINE c == queue[k].pkts
             smaller == {j \in DOMAIN c : SeqNum(c[j]) < SeqNum(p)}
             twin == \E j \in DOMAIN c : SeqNum(c[j]) = SeqNum(p)
             chain == IF twin THEN c ELSE InsertAt(c, Cardinality(smaller) + 1, p)
  <2>1. queue \in Seq(Frames) /\ k \in DOMAIN queue
    BY DEF ListType, Place
  <2>2. c \in Seq(Packets) /\ c # <<>> /\ Sorted(c) /\ TimeStamp(c[1]) = TimeStamp(p)
    <3>1. queue[k] \in Frames
      BY <2>1
    <3>2. Sorted(c)
      BY <2>1 DEF FramesSorted, Sorted
    <3>3. QED
      BY <1>3, <3>1, <3>2 DEF Frames, HeadPkt
  <2>3. Sorted(chain)
    <3>1. CASE twin
      BY <2>2, <3>1
    <3>2. CASE ~twin
      BY <2>2, <3>2, AddedSorted
    <3>3. QED
      BY <3>1, <3>2
  <2>4. PICK n : queue' = [queue EXCEPT ![k] = [pkts |-> chain, pktCount |-> n]]
    <3>1. queue' = [queue EXCEPT ![k] = [pkts |-> chain, pktCount |-> queue[k].pktCount + 1]]
      BY <1>3 DEF addToFrame
    <3>2. QED
      BY <3>1
  <2> HIDE DEF chain
  <2>5. DOMAIN queue' = DOMAIN queue /\ \A j \in DOMAIN queue : Sorted(queue'[j].pkts)
    BY <2>1, <2>3, <2>4 DEF FramesSorted, Sorted
  <2>6. QED
    BY <2>5 DEF FramesSorted, Sorted, TimeStamp, SeqNum
<1>4. QED
  BY <1>1, <1>2, <1>3 DEF Insert, Discard

LEMMA SortedAdd ==
    ASSUME ListType, FramesSorted, NEW p \in Packets, BecomeOnly(p) \/ addPkt(p)
    PROVE  FramesSorted'
<1>1. CASE BecomeOnly(p)
  <2>1. DOMAIN queue' = {1} /\ queue'[1] = NewNode(p)
    BY <1>1 DEF BecomeOnly
  <2>2. QED
    BY <2>1, SortedFrom
<1>2. CASE Enqueue(Append(queue, NewNode(p)))
  <2>1. queue \in Seq(Frames) /\ Len(queue) \in Nat /\ DOMAIN queue = 1 .. Len(queue)
    BY DEF ListType
  <2>2. queue' = Append(queue, NewNode(p))
    BY <1>2 DEF Enqueue
  <2>3. /\ DOMAIN queue' = 1 .. Len(queue) + 1
        /\ \A j \in 1 .. Len(queue) : queue'[j] = queue[j]
        /\ queue'[Len(queue) + 1] = NewNode(p)
    BY <2>1, <2>2
  <2>4. \A j \in 1 .. Len(queue) + 1 : j \in 1 .. Len(queue) \/ j = Len(queue) + 1
    BY <2>1
  <2>5. QED
    BY <2>1, <2>3, <2>4, SortedFrom
<1>3. CASE Insert(p)
  BY <1>3, SortedInsert
<1>4. CASE Discard
  BY <1>4, SortedFrom DEF Discard
<1>5. CASE queue' = <<NewNode(p)>> \o queue
  <2>1. queue \in Seq(Frames) /\ Len(queue) \in Nat /\ DOMAIN queue = 1 .. Len(queue)
    BY DEF ListType
  <2>2. queue' = <<NewNode(p)>> \o queue
    BY <1>5
  <2>3. /\ DOMAIN queue' = 1 .. Len(queue) + 1
        /\ queue'[1] = NewNode(p)
        /\ \A j \in 2 .. Len(queue) + 1 : queue'[j] = queue[j - 1]
    BY <2>1, <2>2, NewNodeType
  <2>4. \A j \in 1 .. Len(queue) + 1 : j = 1 \/ (j \in 2 .. Len(queue) + 1 /\ j - 1 \in DOMAIN queue)
    BY <2>1
  <2>5. QED
    BY <2>3, <2>4, SortedFrom
<1>6. CASE queue' = <<NewNode(p)>>
  <2>1. DOMAIN queue' = {1} /\ queue'[1] = NewNode(p)
    BY <1>6
  <2>2. QED
    BY <2>1, SortedFrom
<1>7. CASE UNCHANGED queue
  BY <1>7, SortedFrom
<1>8. QED
  BY <1>1, <1>2, <1>3, <1>4, <1>5, <1>6, <1>7
  DEF addPkt, bufferedAddPkt, filteredAddPkt, unfilteredAddPkt

LEMMA SortedStep ==
    ASSUME ListType, FramesSorted, [Next]_vars
    PROVE  FramesSorted'
<1>1. CASE UNCHANGED queue
  BY <1>1, SortedFrom
<1>2. CASE PopOldestFrame
  <2>1. queue # <<>> /\ queue \in Seq(Frames)
    BY <1>2 DEF ListType, CountedOnList, PopOldestFrame, FrameAvailable
  <2>2. queue' \in {queue, <<>>, Tail(queue)}
    BY <1>2, PopEnds DEF PopAborted, PopFailsInCleanup, PopMovesOn, popFrameQueueCleanup
  <2>3. \A j \in DOMAIN Tail(queue) : j + 1 \in DOMAIN queue /\ Tail(queue)[j] = queue[j + 1]
    BY <2>1, HeadTailProperties
  <2>4. CASE queue' = queue
    BY <2>4, SortedFrom
  <2>5. CASE queue' = <<>>
    BY <2>5, SortedFrom
  <2>6. CASE queue' = Tail(queue)
    BY <2>3, <2>6, SortedFrom
  <2>7. QED
    BY <2>2, <2>4, <2>5, <2>6
<1>3. ASSUME NEW p \in Packets, Receive(p) PROVE FramesSorted'
  BY <1>3, SortedAdd DEF Receive, NewBuffer
<1>4. QED
  BY <1>1, <1>2, <1>3 DEF Next, SetBehavior, vars

(* A frame is the packets of one timestamp by ascending sequence number:   *)
(* whatever the stream, its wraps of the number, the behavior and the      *)
(* order and number of arrivals, addToFrame finds the place of a packet    *)
(* and no other operation disturbs a frame.                                *)
THEOREM FramesStaySorted == Spec => []FramesSorted
<1>1. Init => FramesSorted
  BY DEF Init, FramesSorted
<1>2. ListType /\ HistoryType /\ FramesSorted /\ [Next]_vars
        => ListType' /\ HistoryType' /\ FramesSorted'
  BY TypeStep, SortedStep
<1>3. QED
  BY <1>1, <1>2, TypeInit, PTL DEF Spec
-----------------------------------------------------------------------------
(* Order, on any network and for any stream *)

(* While of each frame one packet at most has arrived.                     *)
SurvivalInv ==
    OnePacketFrames =>
        /\ detached = <<>>
        /\ Running
        /\ QueueSingle
        /\ length <= Len(queue)

OrderInv == BetweenWraps /\ LengthIsExact => ListOrdered

(* p has joined the list behind its k-th frame.                            *)
JoinsBehind(k, p) ==
    /\ length' = length + 1 \/ (length' = length /\ pktBufBehavior = -1)
    /\ detached' = detached
    /\ Len(queue') = Len(queue) + 1
    /\ DOMAIN queue' = 1 .. Len(queue) + 1
    /\ \A j \in 1 .. k : queue'[j] = queue[j]
    /\ queue'[k + 1] = NewNode(p)
    /\ \A j \in k + 2 .. Len(queue) + 1 : queue'[j] = queue[j - 1]

(* The place between the older and the younger.                            *)
Fits(k, p) ==
    /\ \A j \in 1 .. k : Waiting(j) < p
    /\ \A j \in k + 1 .. Len(queue) : p < Waiting(j)

LEMMA BetweenWrapsTells ==
    ASSUME NEW a, \A p, q \in Packets : a[p] > 0 /\ a[q] > 0 /\ p < q =>
                      TimeStamp(p) < TimeStamp(q) /\ SeqNum(p) < SeqNum(q)
    PROVE  \A p, q \in Packets : a[p] > 0 /\ a[q] > 0 /\ p # q => TimeStamp(p) # TimeStamp(q)
<1> SUFFICES ASSUME NEW p \in Packets, NEW q \in Packets, a[p] > 0, a[q] > 0, p # q
             PROVE  TimeStamp(p) # TimeStamp(q)
  OBVIOUS
<1>1. p < q \/ q < p
  BY DEF Packets
<1>2. TimeStamp(p) < TimeStamp(q) \/ TimeStamp(q) < TimeStamp(p)
  BY <1>1
<1>3. QED
  BY <1>2, StreamType

LEMMA BetweenWrapsNow == BetweenWraps => OnePacketFrames
BY BetweenWrapsTells DEF BetweenWraps, OnePacketFrames

LEMMA BetweenWrapsNext == BetweenWraps' => OnePacketFrames'
BY BetweenWrapsTells DEF BetweenWraps, OnePacketFrames, TimeStamp, SeqNum, Packets

(* What has arrived has arrived for good, p with it.                       *)
LEMMA ArrivalIsSeen ==
    ASSUME HistoryType, NEW p \in Packets, Receive(p)
    PROVE  /\ arrived'[p] > 0 /\ \A q : Seen(q) => arrived'[q] > 0
           /\ Seen(p)' /\ \A q : Seen(q) => Seen(q)'
           /\ OnePacketFrames' => OnePacketFrames
           /\ BetweenWraps' => BetweenWraps
<1>1. arrived' = [arrived EXCEPT ![p] = @ + 1] /\ arrived \in [Packets -> 0 .. Copies]
  BY DEF Receive, HistoryType
<1>2. Seen(p)' /\ \A q \in Packets : arrived[q] > 0 => arrived'[q] > 0
  BY <1>1, ChannelAssumption DEF Seen, ChannelAssumption
<1>3. QED
  BY <1>2 DEF Seen, OnePacketFrames, BetweenWraps, TimeStamp, SeqNum

(* Timestamps and numbers tell the order of packets between two wraps.     *)
Grow(p, q) == p < q => TimeStamp(p) < TimeStamp(q) /\ SeqNum(p) < SeqNum(q)

LEMMA EarlierTimes ==
    ASSUME NEW p \in Packets, NEW q \in Packets, Grow(q, p)
    PROVE  /\ TimeStamp(p) < TimeStamp(q) => p < q \/ p = q
           /\ SeqNum(p) < SeqNum(q) => p < q \/ p = q
<1>1. p \in Int /\ q \in Int
  BY DEF Packets
<1>2. TimeStamp(p) \in Int /\ TimeStamp(q) \in Int /\ SeqNum(p) \in Int /\ SeqNum(q) \in Int
  BY StreamType, SeqNumsNatural
<1>3. q < p => TimeStamp(q) < TimeStamp(p) /\ SeqNum(q) < SeqNum(p)
  BY DEF Grow
<1>4. QED
  BY <1>1, <1>2, <1>3

LEMMA ArrivedGrow ==
    ASSUME BetweenWraps', NEW p \in Packets, NEW q \in Packets, arrived'[p] > 0, arrived'[q] > 0
    PROVE  /\ TimeStamp(p) < TimeStamp(q) => p < q
           /\ SeqNum(p) < SeqNum(q) => p < q
<1>1. p \in Packets /\ q \in Packets /\ arrived'[p] > 0 /\ arrived'[q] > 0
  OBVIOUS
<1>2. Grow(q, p)
  BY <1>1 DEF BetweenWraps, Grow, TimeStamp, SeqNum, Packets
<1>3. p = q => ~(TimeStamp(p) < TimeStamp(q)) /\ ~(SeqNum(p) < SeqNum(q))
  BY <1>1, StreamType, SeqNumsNatural
<1>4. QED
  BY <1>1, <1>2, <1>3, EarlierTimes

(* Where a packet that arrives goes, if anywhere.                          *)
LEMMA ArrivalFindsPlace ==
    ASSUME ListType, HistoryType, SurvivalInv, OrderInv,
           NEW p \in Packets, Receive(p), OnePacketFrames'
    PROVE  \/ UNCHANGED <<queue, length, detached>>
           \/ BecomeOnly(p)
           \/ \E k \in 0 .. Len(queue) :
                 /\ JoinsBehind(k, p)
                 /\ BetweenWraps' /\ LengthIsExact /\ length' = length + 1 => Fits(k, p)
<1>1. /\ queue \in Seq(Frames) /\ Len(queue) \in Nat /\ DOMAIN queue = 1 .. Len(queue)
      /\ length \in Nat /\ CountedOnList
      /\ detached = <<>>
      /\ \A k \in 1 .. Len(queue) : Seen(Waiting(k))
      /\ OnePacketFrames
  BY ArrivalIsSeen DEF ListType, SurvivalInv, QueueSingle
<1>2. arrived'[p] > 0 /\ \A k \in 1 .. Len(queue) : Waiting(k) \in Packets /\ arrived'[Waiting(k)] > 0
  BY <1>1, ArrivalIsSeen DEF Seen
<1>3. CASE NoBuffer
  BY <1>3 DEF Receive, NewBuffer
<1>4. CASE ~NoBuffer /\ pktBufBehavior = -1
  <2>1. queue' = <<NewNode(p)>> \o queue /\ length' = length /\ detached' = detached
    BY <1>1, <1>4 DEF Receive, addPkt, unfilteredAddPkt, Headless
  <2>2. /\ Len(queue') = Len(queue) + 1 /\ DOMAIN queue' = 1 .. Len(queue) + 1
        /\ queue'[0 + 1] = NewNode(p)
        /\ \A j \in 2 .. Len(queue) + 1 : queue'[j] = queue[j - 1]
    BY <1>1, <2>1, NewNodeType
  <2>3. 0 \in 0 .. Len(queue) /\ (\A j \in 1 .. 0 : FALSE) /\ 0 + 2 = 2 /\ length' # length + 1
    BY <1>1, <2>1
  <2>4. JoinsBehind(0, p)
    BY <1>4, <2>1, <2>2, <2>3 DEF JoinsBehind
  <2>5. QED
    BY <2>3, <2>4
<1>5. CASE ~NoBuffer /\ pktBufBehavior # -1
  <2>1. bufferedAddPkt(p) \/ filteredAddPkt(p)
    BY <1>5 DEF Receive, addPkt
  <2>2. ASSUME length # 0, Enqueue(Append(queue, NewNode(p))),
               TimeStamp(p) > TimeStamp(newest) \/ SeqNum(p) > SeqNum(newest)
        PROVE  \E k \in 0 .. Len(queue) :
                 /\ JoinsBehind(k, p)
                 /\ BetweenWraps' /\ LengthIsExact /\ length' = length + 1 => Fits(k, p)
    <3> DEFINE n == Len(queue)
    <3>1. n \in 1 .. n /\ newest = Waiting(n) /\ n \in 0 .. n
      <4>1. queue # <<>>
        BY <1>1, <2>2 DEF CountedOnList
      <4>2. n >= 1
        BY <1>1, <4>1
      <4>3. QED
        BY <1>1, <4>2 DEF newest, Waiting
    <3>2. queue' = Append(queue, NewNode(p)) /\ length' = length + 1 /\ detached' = detached
      BY <2>2 DEF Enqueue
    <3>3. /\ Len(queue') = n + 1 /\ DOMAIN queue' = 1 .. n + 1
          /\ \A j \in 1 .. n : queue'[j] = queue[j]
          /\ queue'[n + 1] = NewNode(p)
      BY <1>1, <3>2
    <3>4. /\ \A j \in n + 2 .. n + 1 : FALSE
          /\ \A j \in n + 1 .. n : FALSE
      BY <1>1
    <3>5. JoinsBehind(n, p)
      BY <3>2, <3>3, <3>4 DEF JoinsBehind
    <3>6. ASSUME BetweenWraps', LengthIsExact PROVE Fits(n, p)
      <4>1. newest \in Packets /\ arrived'[newest] > 0
        BY <1>2, <3>1
      <4>2. newest < p
        <5>1. TimeStamp(newest) < TimeStamp(p) \/ SeqNum(newest) < SeqNum(p)
          BY <2>2, <4>1, StreamType, SeqNumsNatural
        <5>2. QED
          BY <1>2, <3>6, <4>1, <5>1, ArrivedGrow
      <4>3. ListOrdered
        BY <3>6, ArrivalIsSeen DEF OrderInv
      <4>4. ASSUME NEW j \in 1 .. n PROVE Waiting(j) < p
        <5>1. j < n => Waiting(j) < Waiting(n)
          BY <1>1, <3>1, <4>3 DEF ListOrdered, Waiting
        <5>2. Waiting(j) \in Int /\ newest \in Int /\ p \in Int
          BY <1>2, <4>1 DEF Packets
        <5>3. n \in Nat
          BY <1>1
        <5>4. j < n \/ j = n
          BY <5>3
        <5>5. QED
          BY <3>1, <4>2, <5>1, <5>2, <5>4
      <4>5. QED
        BY <3>4, <4>4 DEF Fits
    <3>7. QED
      BY <3>1, <3>5, <3>6
  <2>3. ASSUME NEW k \in Place(p)
        PROVE  /\ k \in 1 .. Len(queue)
               /\ TimeStamp(Waiting(k)) <= TimeStamp(p)
               /\ \A j \in k + 1 .. Len(queue) : TimeStamp(p) < TimeStamp(Waiting(j))
    <3>1. \A j \in 1 .. Len(queue) : TimeStamp(Waiting(j)) \in Nat
      BY <1>2, StreamType
    <3>2. TimeStamp(p) \in Nat
      BY StreamType
    <3>3. /\ k \in 1 .. Len(queue)
          /\ TimeStamp(Waiting(k)) <= TimeStamp(p)
          /\ \A j \in 1 .. Len(queue) : j > k => TimeStamp(Waiting(j)) > TimeStamp(p)
      BY <1>1 DEF Place, Waiting
    <3>4. \A j \in k + 1 .. Len(queue) : j \in 1 .. Len(queue) /\ j > k
      BY <1>1, <3>3
    <3>5. QED
      BY <3>1, <3>2, <3>3, <3>4
  <2>4. ASSUME NEW k \in Place(p), TimeStamp(Waiting(k)) = TimeStamp(p)
        PROVE  SeqNum(Waiting(k)) = SeqNum(p)
    <3>1. k \in 1 .. Len(queue)
      BY <2>3
    <3>2. Waiting(k) \in Packets /\ arrived'[Waiting(k)] > 0 /\ arrived'[p] > 0
      BY <1>2, <3>1
    <3>3. \A a, b \in Packets : arrived'[a] > 0 /\ arrived'[b] > 0 /\ a # b
                => TimeStamp(a) # TimeStamp(b)
      BY DEF OnePacketFrames, TimeStamp, Packets
    <3>4. Waiting(k) = p
      BY <2>4, <3>2, <3>3
    <3>5. QED
      BY <3>4
  <2>5. ASSUME NEW k \in Place(p), TimeStamp(Waiting(k)) # TimeStamp(p),
               Enqueue(InsertAt(queue, k + 1, NewNode(p)))
        PROVE  \E i \in 0 .. Len(queue) :
                 /\ JoinsBehind(i, p)
                 /\ BetweenWraps' /\ LengthIsExact /\ length' = length + 1 => Fits(i, p)
    <3>1. k \in 1 .. Len(queue) /\ k \in 0 .. Len(queue)
      BY <2>3
    <3>2. /\ queue' = InsertAt(queue, k + 1, NewNode(p))
          /\ length' = length + 1 /\ detached' = detached
      BY <2>5 DEF Enqueue
    <3>3. JoinsBehind(k, p)
      BY <3>1, <3>2, LinkedBehind DEF JoinsBehind
    <3>4. ASSUME BetweenWraps', LengthIsExact PROVE Fits(k, p)
      <4>1. ListOrdered
        BY <3>4, ArrivalIsSeen DEF OrderInv
      <4>2. TimeStamp(Waiting(k)) < TimeStamp(p)
        BY <1>2, <2>3, <2>5, <3>1, StreamType
      <4>3. Waiting(k) < p
        BY <1>2, <3>1, <3>4, <4>2, ArrivedGrow
      <4>4. ASSUME NEW j \in 1 .. k PROVE Waiting(j) < p
        <5>1. j \in 1 .. Len(queue) /\ (j < k \/ j = k)
          BY <1>1, <3>1
        <5>2. j < k => Waiting(j) < Waiting(k)
          BY <1>1, <3>1, <4>1, <5>1 DEF ListOrdered, Waiting
        <5>3. Waiting(j) \in Int /\ Waiting(k) \in Int /\ p \in Int
          BY <1>2, <3>1, <5>1 DEF Packets
        <5>4. QED
          BY <4>3, <5>1, <5>2, <5>3
      <4>5. ASSUME NEW j \in k + 1 .. Len(queue) PROVE p < Waiting(j)
        <5>1. j \in 1 .. Len(queue)
          BY <1>1, <3>1
        <5>2. TimeStamp(p) < TimeStamp(Waiting(j))
          BY <2>3
        <5>3. QED
          BY <1>2, <3>4, <5>1, <5>2, ArrivedGrow
      <4>6. QED
        BY <4>4, <4>5 DEF Fits
    <3>5. QED
      BY <3>1, <3>3, <3>4
  <2>6. CASE Insert(p)
    <3>1. \/ UNCHANGED <<queue, detached, length>>
          \/ \E k \in Place(p) : /\ TimeStamp(Waiting(k)) # TimeStamp(p)
                                 /\ Enqueue(InsertAt(queue, k + 1, NewNode(p)))
          \/ \E k \in Place(p) : /\ TimeStamp(Waiting(k)) = TimeStamp(p)
                                 /\ SeqNum(Waiting(k)) # SeqNum(p)
      BY <2>6 DEF Insert, Discard, Waiting
    <3>2. QED
      BY <2>4, <2>5, <3>1
  <2>7. \/ BecomeOnly(p)
        \/ Discard
        \/ Insert(p)
        \/ /\ length # 0
           /\ Enqueue(Append(queue, NewNode(p)))
           /\ TimeStamp(p) > TimeStamp(newest) \/ SeqNum(p) > SeqNum(newest)
    BY <2>1 DEF bufferedAddPkt, filteredAddPkt
  <2>8. QED
    BY <2>2, <2>6, <2>7 DEF Discard
<1>6. QED
  BY <1>3, <1>4, <1>5

LEMMA ArrivalSurvived ==
    ASSUME ListType, HistoryType, SurvivalInv, OrderInv, NEW p \in Packets, Receive(p)
    PROVE  SurvivalInv' /\ OrderInv'
<1> SUFFICES ASSUME OnePacketFrames'
             PROVE  SurvivalInv' /\ OrderInv'
  <2>1. BetweenWraps' => OnePacketFrames'
    BY BetweenWrapsNext
  <2>2. QED
    BY <2>1 DEF SurvivalInv, OrderInv
<1> DEFINE n == Len(queue)
<1>1. /\ n \in Nat /\ DOMAIN queue = 1 .. n /\ length \in Nat
      /\ detached = <<>> /\ appCaller = "running" /\ length <= n
      /\ QueueSingle
      /\ \A j \in 1 .. n : Waiting(j) \in Packets /\ Waiting(j) \in Int
      /\ p \in Int /\ appCaller' = appCaller
  <2>1. OnePacketFrames
    BY ArrivalIsSeen
  <2>2. QED
    BY <2>1 DEF ListType, SurvivalInv, QueueSingle, Seen, Running, Receive, Packets
<1>2. /\ arrived'[p] > 0 /\ \A q : Seen(q) => arrived'[q] > 0
      /\ BetweenWraps' => BetweenWraps
  BY ArrivalIsSeen
<1>3. ASSUME NEW q \in Packets, arrived'[q] > 0, NEW j, Waiting(j)' = q
      PROVE  Seen(Waiting(j))'
  BY <1>3 DEF Seen, Packets
<1>4. CASE UNCHANGED <<queue, length, detached>>
  <2>1. QueueSingle'
    <3> SUFFICES ASSUME NEW j \in 1 .. n
                 PROVE  queue'[j].pktCount = 1 /\ Len(queue'[j].pkts) = 1 /\ Seen(Waiting(j))'
      BY <1>1, <1>4 DEF QueueSingle
    <3>1. queue[j].pktCount = 1 /\ Len(queue[j].pkts) = 1 /\ Seen(Waiting(j))
      BY <1>1 DEF QueueSingle
    <3>2. Waiting(j)' = Waiting(j)
      BY <1>4 DEF Waiting
    <3>3. QED
      BY <1>1, <1>2, <1>3, <1>4, <3>1, <3>2
  <2>2. QED
    BY <1>1, <1>2, <1>4, <2>1
    DEF SurvivalInv, OrderInv, LengthIsExact, ListOrdered, Running
<1>5. CASE BecomeOnly(p)
  <2>1. /\ DOMAIN queue' = {1} /\ Len(queue') = 1 /\ queue'[1] = NewNode(p)
        /\ length' = 1 /\ detached' = <<>>
    BY <1>5 DEF BecomeOnly
  <2>2. Waiting(1)' = p
    BY <2>1 DEF Waiting, HeadPkt, NewNode
  <2>3. Seen(Waiting(1))'
    BY <1>2, <1>3, <2>2
  <2>4. QueueSingle'
    BY <2>1, <2>3 DEF QueueSingle, NewNode
  <2>5. ListOrdered'
    BY <2>1 DEF ListOrdered
  <2>6. QED
    BY <1>1, <2>1, <2>4, <2>5 DEF SurvivalInv, OrderInv, Running
<1>6. ASSUME NEW k \in 0 .. n, JoinsBehind(k, p),
             BetweenWraps' /\ LengthIsExact /\ length' = length + 1 => Fits(k, p)
      PROVE  SurvivalInv' /\ OrderInv'
  <2>1. /\ length' \in {length, length + 1}
        /\ detached' = detached
        /\ Len(queue') = n + 1 /\ DOMAIN queue' = 1 .. n + 1
        /\ \A j \in 1 .. k : queue'[j] = queue[j]
        /\ queue'[k + 1] = NewNode(p)
        /\ \A j \in k + 2 .. n + 1 : queue'[j] = queue[j - 1]
    BY <1>6 DEF JoinsBehind
  <2>2. Fits(k, p) => /\ \A j \in 1 .. k : Waiting(j) < p
                      /\ \A j \in k + 1 .. n : p < Waiting(j)
    BY DEF Fits
  <2>3. LengthIsExact <=> length = n
    BY DEF LengthIsExact
  <2>4. LengthIsExact' <=> length' = n + 1
    BY <2>1 DEF LengthIsExact
  <2> HIDE DEF n
  <2>5. /\ \A j \in 1 .. k : j \in 1 .. n
        /\ \A j \in k + 2 .. n + 1 : j - 1 \in 1 .. n /\ j - 1 \in k + 1 .. n
        /\ \A j \in 1 .. n + 1 : j \in 1 .. k \/ j = k + 1 \/ j \in k + 2 .. n + 1
    BY <1>1
  <2>6. /\ \A j \in 1 .. k : Waiting(j)' = Waiting(j)
        /\ \A j : j = k + 1 => Waiting(j)' = p
        /\ \A j \in k + 2 .. n + 1 : Waiting(j)' = Waiting(j - 1)
    BY <2>1 DEF Waiting, HeadPkt, NewNode
  <2>7. QueueSingle'
    <3> SUFFICES ASSUME NEW j \in 1 .. n + 1
                 PROVE  queue'[j].pktCount = 1 /\ Len(queue'[j].pkts) = 1 /\ Seen(Waiting(j))'
      BY <2>1 DEF QueueSingle
    <3>1. \A i \in 1 .. n : queue[i].pktCount = 1 /\ Len(queue[i].pkts) = 1 /\ arrived'[Waiting(i)] > 0
      BY <1>1, <1>2 DEF QueueSingle
    <3>2. CASE j \in 1 .. k
      <4>1. queue'[j] = queue[j] /\ j \in 1 .. n /\ Waiting(j)' = Waiting(j)
        BY <2>1, <2>5, <2>6, <3>2
      <4>2. Seen(Waiting(j))'
        BY <1>1, <1>3, <3>1, <4>1
      <4>3. QED
        BY <3>1, <4>1, <4>2
    <3>3. CASE j = k + 1
      <4>1. Waiting(j)' = p /\ queue'[j] = NewNode(p)
        BY <2>1, <2>6, <3>3
      <4>2. Seen(Waiting(j))'
        BY <1>2, <1>3, <4>1
      <4>3. QED
        BY <4>1, <4>2 DEF NewNode
    <3>4. CASE j \in k + 2 .. n + 1
      <4>1. queue'[j] = queue[j - 1] /\ j - 1 \in 1 .. n /\ Waiting(j)' = Waiting(j - 1)
        BY <2>1, <2>5, <2>6, <3>4
      <4>2. Seen(Waiting(j))'
        BY <1>1, <1>3, <3>1, <4>1
      <4>3. QED
        BY <3>1, <4>1, <4>2
    <3>5. QED
      BY <2>5, <3>2, <3>3, <3>4
  <2>8. SurvivalInv'
    BY <1>1, <2>1, <2>7 DEF SurvivalInv, Running
  <2>9. ASSUME BetweenWraps', LengthIsExact' PROVE ListOrdered'
    <3>1. LengthIsExact /\ length' = length + 1
      BY <1>1, <2>1, <2>3, <2>4, <2>9
    <3>2. /\ \A j \in 1 .. k : Waiting(j) < p
          /\ \A j \in k + 1 .. n : p < Waiting(j)
      BY <1>6, <2>2, <2>9, <3>1
    <3>3. \A a, b \in 1 .. n : a < b => Waiting(a) < Waiting(b)
      BY <1>1, <1>2, <2>9, <3>1 DEF OrderInv, ListOrdered, Waiting
    <3> SUFFICES ASSUME NEW i \in 1 .. n + 1, NEW j \in 1 .. n + 1, i < j
                 PROVE  Waiting(i)' < Waiting(j)'
      BY <2>1 DEF ListOrdered, Waiting
    <3>4. CASE i \in 1 .. k /\ j \in 1 .. k
      BY <2>5, <2>6, <3>3, <3>4
    <3>5. CASE i \in 1 .. k /\ j = k + 1
      BY <2>6, <3>2, <3>5
    <3>6. CASE i \in 1 .. k /\ j \in k + 2 .. n + 1
      <4>1. Waiting(i)' = Waiting(i) /\ Waiting(j)' = Waiting(j - 1) /\ i \in 1 .. n /\ j - 1 \in 1 .. n
        BY <2>5, <2>6, <3>6
      <4>2. i < j - 1
        BY <1>1, <3>6
      <4>3. QED
        BY <3>3, <4>1, <4>2
    <3>7. CASE i = k + 1 /\ j \in k + 2 .. n + 1
      BY <2>5, <2>6, <3>2, <3>7
    <3>8. CASE i \in k + 2 .. n + 1 /\ j \in k + 2 .. n + 1
      <4>1. /\ Waiting(i)' = Waiting(i - 1) /\ Waiting(j)' = Waiting(j - 1)
            /\ i - 1 \in 1 .. n /\ j - 1 \in 1 .. n
        BY <2>5, <2>6, <3>8
      <4>2. i - 1 < j - 1
        BY <1>1, <3>8
      <4>3. QED
        BY <3>3, <4>1, <4>2
    <3>9. ~(i = k + 1 /\ j \in 1 .. k) /\ ~(i = k + 1 /\ j = k + 1)
      BY <1>1
    <3>10. ~(i \in k + 2 .. n + 1 /\ j \in 1 .. k) /\ ~(i \in k + 2 .. n + 1 /\ j = k + 1)
      BY <1>1
    <3>11. QED
      BY <2>5, <3>4, <3>5, <3>6, <3>7, <3>8, <3>9, <3>10
  <2>10. QED
    BY <2>8, <2>9 DEF OrderInv
<1>7. QED
  BY <1>4, <1>5, <1>6, ArrivalFindsPlace

LEMMA PopSurvived ==
    ASSUME ListType, SurvivalInv, OrderInv, PopOldestFrame
    PROVE  SurvivalInv' /\ OrderInv'
<1> USE DEF Running
<1>0. arrived' = arrived
  BY DEF PopOldestFrame
<1> SUFFICES ASSUME OnePacketFrames
             PROVE  SurvivalInv' /\ OrderInv'
  BY <1>0, BetweenWrapsNow DEF SurvivalInv, OrderInv, OnePacketFrames, BetweenWraps
<1> DEFINE n == Len(queue)
<1>1. /\ queue \in Seq(Frames) /\ n \in Nat /\ n >= 1 /\ queue # <<>> /\ DOMAIN queue = 1 .. n
      /\ length \in Nat /\ length > 0 /\ length <= n
  BY DEF ListType, SurvivalInv, CountedOnList, PopOldestFrame, FrameAvailable
<1>2. QueueSingle /\ detached = <<>> /\ appCaller = "running"
  BY DEF SurvivalInv
<1>3. queue[1].pktCount = 1 /\ Len(queue[1].pkts) = 1
  BY <1>1, <1>2 DEF QueueSingle
<1>4. length # 1 => Len(queue) >= 2
  BY <1>1
<1>5. /\ queue' = IF length = 1 THEN <<>> ELSE Tail(queue)
      /\ length' = length - 1
      /\ UNCHANGED <<detached, appCaller>>
  BY <1>2, <1>3, <1>4, PopSingle
<1>6. CASE length = 1
  <2>1. queue' = <<>> /\ length' = 0 /\ Len(queue') = 0 /\ DOMAIN queue' = {}
    BY <1>5, <1>6
  <2>2. QED
    BY <1>2, <1>5, <2>1 DEF SurvivalInv, OrderInv, QueueSingle, ListOrdered
<1>7. CASE length # 1
  <2>1. /\ Len(queue') = n - 1
        /\ DOMAIN queue' = 1 .. n - 1
        /\ \A k \in 1 .. n - 1 : queue'[k] = queue[k + 1]
    BY <1>1, <1>5, <1>7, HeadTailProperties
  <2>2. \A k \in 1 .. n - 1 : k + 1 \in 1 .. n /\ Waiting(k)' = Waiting(k + 1)
    BY <1>1, <2>1 DEF Waiting
  <2>3. QueueSingle'
    <3> SUFFICES ASSUME NEW k \in 1 .. n - 1
                 PROVE  queue'[k].pktCount = 1 /\ Len(queue'[k].pkts) = 1 /\ Seen(Waiting(k))'
      BY <2>1 DEF QueueSingle
    <3>1. k + 1 \in DOMAIN queue /\ Waiting(k)' = Waiting(k + 1) /\ queue'[k] = queue[k + 1]
      BY <1>1, <2>1, <2>2
    <3>2. Seen(Waiting(k + 1)) /\ queue[k + 1].pktCount = 1 /\ Len(queue[k + 1].pkts) = 1
      BY <1>2, <3>1 DEF QueueSingle
    <3>3. QED
      BY <1>0, <3>1, <3>2 DEF Seen
  <2>4. ASSUME BetweenWraps', LengthIsExact' PROVE ListOrdered'
    <3>1. BetweenWraps /\ LengthIsExact
      <4>1. BetweenWraps
        BY <1>0, <2>4 DEF BetweenWraps
      <4>2. length' = n - 1
        BY <2>1, <2>4 DEF LengthIsExact
      <4>3. length' = length - 1 /\ length \in Nat /\ n \in Nat
        BY <1>1, <1>5
      <4>4. length = n
        BY <4>2, <4>3
      <4>5. QED
        BY <4>1, <4>4 DEF LengthIsExact
    <3> SUFFICES ASSUME NEW j \in 1 .. n - 1, NEW k \in 1 .. n - 1, j < k
                 PROVE  Waiting(j)' < Waiting(k)'
      BY <2>1 DEF ListOrdered, Waiting
    <3>2. j + 1 < k + 1 /\ j + 1 \in DOMAIN queue /\ k + 1 \in DOMAIN queue
      BY <1>1, <2>2
    <3>3. Waiting(j + 1) < Waiting(k + 1)
      BY <3>1, <3>2 DEF OrderInv, ListOrdered, Waiting
    <3>4. QED
      BY <2>2, <3>3
  <2>5. QED
    BY <1>1, <1>2, <1>5, <2>1, <2>3, <2>4 DEF SurvivalInv, OrderInv
<1>8. QED
  BY <1>6, <1>7

LEMMA SurvivalStep ==
    ASSUME ListType, HistoryType, SurvivalInv, OrderInv, [Next]_vars
    PROVE  SurvivalInv' /\ OrderInv'
<1>1. CASE PopOldestFrame
  BY <1>1, PopSurvived
<1>2. ASSUME NEW p \in Packets, Receive(p) PROVE SurvivalInv' /\ OrderInv'
  BY <1>2, ArrivalSurvived
<1>3. CASE UNCHANGED vars \/ \E b \in Behaviors : SetBehavior(b)
  <2>1. UNCHANGED <<queue, detached, length, appCaller, arrived>>
    BY <1>3 DEF vars, SetBehavior
  <2>2. SurvivalInv'
    BY <2>1 DEF SurvivalInv, OnePacketFrames, QueueSingle, Seen, Waiting, Running
  <2>3. OrderInv'
    BY <2>1 DEF OrderInv, BetweenWraps, LengthIsExact, ListOrdered
  <2>4. QED
    BY <2>2, <2>3
<1>4. QED
  BY <1>1, <1>2, <1>3 DEF Next

LEMMA SurvivalIsInvariant == Spec => [](ListType /\ HistoryType /\ SurvivalInv /\ OrderInv)
<1>1. Init => SurvivalInv /\ OrderInv
  BY DEF Init, SurvivalInv, OrderInv, ListOrdered, QueueSingle, Running
<1>2. ListType /\ HistoryType /\ SurvivalInv /\ OrderInv /\ [Next]_vars
        => ListType' /\ HistoryType' /\ SurvivalInv' /\ OrderInv'
  BY TypeStep, SurvivalStep
<1>3. QED
  BY <1>1, <1>2, TypeInit, PTL DEF Spec

(* The list is in the order of time, whatever the network overtakes,       *)
(* repeats or loses and whichever behavior is asked for when: Insert links *)
(* every late packet behind all that are older and before all that are     *)
(* younger, as long as none is on the other side of a wrap.                *)
THEOREM ListStaysOrdered == Spec => []QueueOrdered
<1>1. OrderInv => QueueOrdered
  BY DEF OrderInv, QueueOrdered
<1>2. QED
  BY <1>1, SurvivalIsInvariant, PTL

(* popOldestFrame never fails in AppCallerThread as long as no two packets *)
(* are of one frame, with wraps as well: the list is never shorter than    *)
(* its count, and no node hangs on it by one link only.                    *)
THEOREM PoppingNeverFails == Spec => []AppCallerSurvives
<1>1. SurvivalInv => AppCallerSurvives
  BY DEF SurvivalInv, AppCallerSurvives, Running
<1>2. QED
  BY <1>1, SurvivalIsInvariant, PTL

Counted == OnePacketFrames => LengthIsExact

LEMMA CountedStep ==
    ASSUME Behaviors \subseteq Nat,
           ListType, HistoryType, SurvivalInv, OrderInv, Counted, [Next]_vars
    PROVE  Counted'
<1>1. CASE PopOldestFrame
  <2>0. arrived' = arrived
    BY <1>1 DEF PopOldestFrame
  <2> SUFFICES ASSUME OnePacketFrames PROVE LengthIsExact'
    BY <2>0 DEF Counted, OnePacketFrames
  <2>1. /\ queue \in Seq(Frames) /\ Len(queue) \in Nat /\ queue # <<>>
        /\ length = Len(queue) /\ length > 0
    BY <1>1 DEF ListType, Counted, LengthIsExact, CountedOnList, PopOldestFrame, FrameAvailable
  <2>2. QueueSingle /\ detached = <<>> /\ 1 \in DOMAIN queue
    BY <2>1 DEF SurvivalInv
  <2>a. queue[1].pktCount = 1 /\ Len(queue[1].pkts) = 1
    BY <2>2 DEF QueueSingle
  <2>3. length # 1 => Len(queue) >= 2
    BY <2>1
  <2>4. /\ queue' = IF length = 1 THEN <<>> ELSE Tail(queue)
        /\ length' = length - 1
    BY <1>1, <2>2, <2>a, <2>3, PopSingle
  <2>5. QED
    BY <2>1, <2>4, HeadTailProperties DEF LengthIsExact
<1>2. ASSUME NEW p \in Packets, Receive(p) PROVE Counted'
  <2> SUFFICES ASSUME OnePacketFrames' PROVE LengthIsExact'
    BY DEF Counted
  <2>1. length = Len(queue) /\ pktBufBehavior # -1
    BY <1>2, ArrivalIsSeen DEF Counted, LengthIsExact, HistoryType
  <2>2. CASE UNCHANGED <<queue, length, detached>>
    BY <2>1, <2>2 DEF LengthIsExact
  <2>3. CASE BecomeOnly(p)
    BY <2>3 DEF BecomeOnly, LengthIsExact
  <2>4. ASSUME NEW k \in 0 .. Len(queue), JoinsBehind(k, p) PROVE LengthIsExact'
    BY <2>1, <2>4 DEF JoinsBehind, LengthIsExact
  <2>5. QED
    BY <1>2, <2>2, <2>3, <2>4, ArrivalFindsPlace
<1>3. CASE UNCHANGED vars \/ \E b \in Behaviors : SetBehavior(b)
  BY <1>3 DEF vars, SetBehavior, Counted, OnePacketFrames, LengthIsExact
<1>4. QED
  BY <1>1, <1>2, <1>3 DEF Next

(* If nobody asks for raw packets, length counts the frames exactly, on    *)
(* any network, as long as no two packets are of one frame.                *)
THEOREM ListStaysCounted ==
    ASSUME Behaviors \subseteq Nat
    PROVE  Spec => [](OnePacketFrames => LengthIsExact)
<1> DEFINE IInv == ListType /\ HistoryType /\ SurvivalInv /\ OrderInv
<1>1. Init => Counted
  BY DEF Init, Counted, LengthIsExact
<1>2. IInv /\ Counted /\ [Next]_vars => Counted'
  BY CountedStep
<1>3. Spec => []IInv
  BY SurvivalIsInvariant
<1>4. Counted <=> (OnePacketFrames => LengthIsExact)
  BY DEF Counted
<1>5. QED
  BY <1>1, <1>2, <1>3, <1>4, PTL DEF Spec

-----------------------------------------------------------------------------
(* What the list and the deliveries may hold, on any network *)

OnList(x) == \E k \in DOMAIN queue : \E a \in DOMAIN queue[k].pkts : queue[k].pkts[a] = x

(* Nothing is put together of packets that never came, and what was given  *)
(* to the application were frames, also of several packets.                *)
OnlyArrived ==
    /\ \A k \in DOMAIN queue : \A a \in DOMAIN queue[k].pkts : Seen(queue[k].pkts[a])
    /\ \A j \in DOMAIN delivered : \A a \in DOMAIN delivered[j] : Seen(delivered[j][a])

(* The nodes off the list before the last are raw packets.                 *)
RawNodes ==
    \A i \in DOMAIN detached :
        i < Len(detached) => Len(detached[i].pkts) = 1 /\ Seen(detached[i].pkts[1])

WholeFrames == \A j \in DOMAIN delivered : Sorted(delivered[j])

(* A frame of packets of the list, and of p.                               *)
MadeOf(f, p) == \A a \in DOMAIN f.pkts : f.pkts[a] = p \/ OnList(f.pkts[a])

LEMMA MadeOfOld ==
    ASSUME NEW p, NEW k \in DOMAIN queue
    PROVE  MadeOf(queue[k], p)
BY DEF MadeOf, OnList

LEMMA MadeOfNew == ASSUME NEW p PROVE MadeOf(NewNode(p), p)
BY DEF MadeOf, NewNode

(* InsertAt puts nothing in but the element.                               *)
LEMMA InsertAtMakes ==
    ASSUME NEW S, NEW s \in Seq(S), NEW e \in S, NEW i \in 1 .. Len(s) + 1,
           NEW j \in DOMAIN InsertAt(s, i, e)
    PROVE  InsertAt(s, i, e)[j] = e \/ \E k \in DOMAIN s : InsertAt(s, i, e)[j] = s[k]
<1> DEFINE t == InsertAt(s, i, e)
<1>1. /\ t \in Seq(S)
      /\ Len(t) = Len(s) + 1
      /\ \A m \in 1 .. i - 1 : t[m] = s[m]
      /\ t[i] = e
      /\ \A m \in i .. Len(s) : t[m + 1] = s[m]
  BY InsertAtElements
<1>2. j \in DOMAIN t
  OBVIOUS
<1> HIDE DEF t
<1>3. Len(s) \in Nat /\ DOMAIN s = 1 .. Len(s) /\ i \in Int /\ 1 <= i /\ i <= Len(s) + 1
  OBVIOUS
<1>4. j \in 1 .. Len(s) + 1
  BY <1>1, <1>2, <1>3
<1>5. CASE j < i
  BY <1>1, <1>3, <1>4, <1>5 DEF t
<1>6. CASE j = i
  BY <1>1, <1>6 DEF t
<1>7. CASE j > i
  <2>1. j - 1 \in i .. Len(s) /\ (j - 1) + 1 = j /\ j - 1 \in DOMAIN s
    BY <1>3, <1>4, <1>7
  <2>2. t[j] = s[j - 1]
    BY <1>1, <2>1
  <2>3. QED
    BY <2>1, <2>2 DEF t
<1>8. QED
  BY <1>3, <1>4, <1>5, <1>6, <1>7

(* The chain addToFrame makes.                                             *)
LEMMA ChainMadeOf ==
    ASSUME ListType, NEW p \in Packets, NEW k \in DOMAIN queue, addToFrame(k, p)
    PROVE  \A j \in DOMAIN queue' : MadeOf(queue'[j], p)
<1> DEFINE c == queue[k].pkts
           smaller == {j \in DOMAIN c : SeqNum(c[j]) < SeqNum(p)}
           twin == \E j \in DOMAIN c : SeqNum(c[j]) = SeqNum(p)
           m == Cardinality(smaller) + 1
           chain == IF twin THEN c ELSE InsertAt(c, m, p)
<1>1. queue \in Seq(Frames) /\ queue[k] \in Frames
  BY DEF ListType
<1>2. c \in Seq(Packets) /\ c # <<>> /\ 1 \in DOMAIN c
  BY <1>1 DEF Frames
<1>3. m \in 1 .. Len(c) + 1
  <2>1. IsFiniteSet(1 .. Len(c)) /\ Cardinality(1 .. Len(c)) = Len(c)
    BY <1>2, FS_Interval
  <2>2. IsFiniteSet(smaller) /\ Cardinality(smaller) <= Len(c)
    BY <1>2, <2>1, FS_Subset
  <2>3. Cardinality(smaller) \in Nat
    BY <2>2, FS_CardinalityType
  <2>4. QED
    BY <1>2, <2>2, <2>3
<1>4. \A a \in DOMAIN chain : chain[a] = p \/ OnList(chain[a])
  <2> SUFFICES ASSUME NEW a \in DOMAIN chain PROVE chain[a] = p \/ OnList(chain[a])
    OBVIOUS
  <2>1. CASE twin
    BY <2>1 DEF OnList
  <2>2. CASE ~twin
    <3>1. chain = InsertAt(c, m, p)
      BY <2>2
    <3> HIDE DEF chain, m, twin
    <3>2. chain[a] = p \/ \E b \in DOMAIN c : chain[a] = c[b]
      BY <1>2, <1>3, <3>1, InsertAtMakes
    <3>3. QED
      BY <3>2 DEF OnList
  <2>3. QED
    BY <2>1, <2>2
<1>5. queue' = [queue EXCEPT ![k] = [pkts |-> chain, pktCount |-> queue[k].pktCount + 1]]
  BY DEF addToFrame
<1> HIDE DEF chain
<1>6. ASSUME NEW j \in DOMAIN queue' PROVE MadeOf(queue'[j], p)
  <2>1. j \in DOMAIN queue
    BY <1>5
  <2>2. CASE j = k
    <3>1. queue'[j].pkts = chain
      BY <1>5, <2>1, <2>2
    <3>2. QED
      BY <1>4, <3>1 DEF MadeOf
  <2>3. CASE j # k
    BY <1>5, <2>1, <2>3, MadeOfOld
  <2>4. QED
    BY <2>2, <2>3
<1>7. QED
  BY <1>6

LEMMA AddedMadeOf ==
    ASSUME ListType, NEW p \in Packets, BecomeOnly(p) \/ addPkt(p)
    PROVE  \A j \in DOMAIN queue' : MadeOf(queue'[j], p)
<1> DEFINE Goal == \A j \in DOMAIN queue' : MadeOf(queue'[j], p)
<1>0. queue \in Seq(Frames) /\ Len(queue) \in Nat /\ DOMAIN queue = 1 .. Len(queue)
  BY DEF ListType
<1>1. CASE queue' = <<NewNode(p)>>
  <2>1. DOMAIN queue' = {1} /\ queue'[1] = NewNode(p)
    BY <1>1
  <2>2. QED
    BY <2>1, MadeOfNew
<1>2. CASE UNCHANGED queue
  BY <1>2, MadeOfOld
<1>3. CASE Enqueue(Append(queue, NewNode(p)))
  <2>2. queue' = Append(queue, NewNode(p))
    BY <1>3 DEF Enqueue
  <2>3. /\ DOMAIN queue' = 1 .. Len(queue) + 1
        /\ \A j \in 1 .. Len(queue) : queue'[j] = queue[j]
        /\ queue'[Len(queue) + 1] = NewNode(p)
    BY <1>0, <2>2
  <2>4. \A j \in 1 .. Len(queue) + 1 : j \in 1 .. Len(queue) \/ j = Len(queue) + 1
    BY <1>0
  <2>5. QED
    BY <1>0, <2>2, <2>3, <2>4, MadeOfOld, MadeOfNew
<1>4. CASE queue' = <<NewNode(p)>> \o queue
  <2>2. queue' = <<NewNode(p)>> \o queue
    BY <1>4
  <2>3. /\ DOMAIN queue' = 1 .. Len(queue) + 1
        /\ queue'[1] = NewNode(p)
        /\ \A j \in 2 .. Len(queue) + 1 : queue'[j] = queue[j - 1]
    BY <1>0, <2>2, NewNodeType
  <2>4. \A j \in 1 .. Len(queue) + 1 : j = 1 \/ (j \in 2 .. Len(queue) + 1 /\ j - 1 \in DOMAIN queue)
    BY <1>0
  <2>5. QED
    BY <2>2, <2>3, <2>4, MadeOfOld, MadeOfNew
<1>5. ASSUME NEW k \in Place(p), Enqueue(InsertAt(queue, k + 1, NewNode(p))) PROVE Goal
  <2>1. k \in 1 .. Len(queue)
    BY <1>0 DEF Place
  <2>2. queue' = InsertAt(queue, k + 1, NewNode(p))
    BY <1>5 DEF Enqueue
  <2>4. /\ DOMAIN queue' = 1 .. Len(queue) + 1
        /\ \A j \in 1 .. k : queue'[j] = queue[j]
        /\ queue'[k + 1] = NewNode(p)
        /\ \A j \in k + 2 .. Len(queue) + 1 : queue'[j] = queue[j - 1]
    BY <2>1, <2>2, LinkedBehind
  <2>5. ASSUME NEW j \in DOMAIN queue' PROVE MadeOf(queue'[j], p)
    <3>1. j \in 1 .. Len(queue) + 1
      BY <2>4
    <3>2. CASE j <= k
      BY <1>0, <2>1, <2>4, <3>1, <3>2, MadeOfOld
    <3>3. CASE j = k + 1
      BY <2>4, <3>3, MadeOfNew
    <3>4. CASE j > k + 1
      <4>1. j \in k + 2 .. Len(queue) + 1 /\ j - 1 \in DOMAIN queue
        BY <1>0, <2>1, <3>1, <3>4
      <4>2. QED
        BY <2>4, <4>1, MadeOfOld
    <3>5. QED
      BY <2>1, <3>1, <3>2, <3>3, <3>4
  <2>6. QED
    BY <2>2, <2>5
<1>6. ASSUME NEW k \in Place(p), addToFrame(k, p) PROVE Goal
  <2>1. k \in DOMAIN queue
    BY DEF Place
  <2>2. QED
    BY <1>6, <2>1, ChainMadeOf
<1>7. CASE Insert(p)
  BY <1>2, <1>5, <1>6, <1>7 DEF Insert, Discard
<1>8. QED
  BY <1>1, <1>2, <1>3, <1>4, <1>7
  DEF addPkt, bufferedAddPkt, filteredAddPkt, unfilteredAddPkt, BecomeOnly, Discard

(* What a packet that arrives does to the nodes off the list.              *)
LEMMA AddedOffList ==
    ASSUME NEW p \in Packets, BecomeOnly(p) \/ addPkt(p)
    PROVE  \/ detached' = detached
           \/ detached' = <<>>
           \/ Len(detached') = 1 /\ DOMAIN detached' = {1}
           \/ detached # <<>> /\ ~Headless /\ detached' = <<NewNode(p)>> \o detached
<1>1. ASSUME NEW k, addToFrame(k, p)
      PROVE  detached' = detached \/ (Len(detached') = 1 /\ DOMAIN detached' = {1})
  <2>1. detached' = detached \/ detached' = <<queue[k]>>
    BY <1>1 DEF addToFrame
  <2>2. Len(<<queue[k]>>) = 1 /\ DOMAIN <<queue[k]>> = {1}
    OBVIOUS
  <2>3. QED
    BY <2>1, <2>2
<1>2. QED
  BY <1>1 DEF addPkt, bufferedAddPkt, filteredAddPkt, unfilteredAddPkt, BecomeOnly, Discard, Enqueue,
              Insert

LEMMA RawNodesStep ==
    ASSUME ListType, HistoryType, RawNodes, [Next]_vars
    PROVE  RawNodes'
<1>1. CASE PopOldestFrame
  <2>1. arrived' = arrived /\ ~Headless /\ length > 0
    BY <1>1, PopEnds DEF HistoryType
  <2>2. detached \in Seq(Frames)
    BY <2>1, OldestTyped
  <2>3. \/ detached' = detached
        \/ Len(detached') = 1 /\ DOMAIN detached' = {1}
        \/ detached' = <<>>
        \/ detached # <<>> /\ detached' = Tail(detached)
    BY <1>1, PopEnds DEF PopAborted, PopFailsInCleanup, PopMovesOn, popFrameQueueCleanup
  <2>4. CASE detached' = detached
    BY <2>1, <2>4 DEF RawNodes, Seen
  <2>5. CASE Len(detached') = 1 /\ DOMAIN detached' = {1}
    BY <2>5 DEF RawNodes
  <2>6. CASE detached' = <<>>
    BY <2>6 DEF RawNodes
  <2>7. CASE detached # <<>> /\ detached' = Tail(detached)
    <3>1. /\ Len(detached') = Len(detached) - 1
          /\ \A i \in DOMAIN detached' : i + 1 \in DOMAIN detached /\ detached'[i] = detached[i + 1]
      BY <2>2, <2>7, HeadTailProperties
    <3>2. ASSUME NEW i \in DOMAIN detached', i < Len(detached')
          PROVE  Len(detached'[i].pkts) = 1 /\ Seen(detached[i].pkts[1])'
      <4>1. i + 1 \in DOMAIN detached /\ i + 1 < Len(detached) /\ detached'[i] = detached[i + 1]
        BY <2>2, <3>1, <3>2
      <4>2. QED
        BY <2>1, <4>1 DEF RawNodes, Seen
    <3>3. QED
      BY <3>2 DEF RawNodes
  <2>8. QED
    BY <2>3, <2>4, <2>5, <2>6, <2>7
<1>2. ASSUME NEW p \in Packets, Receive(p) PROVE RawNodes'
  <2>1. Seen(p)' /\ \A q : Seen(q) => Seen(q)'
    BY <1>2, ArrivalIsSeen
  <2>2. \/ detached' = detached
        \/ detached' = <<>>
        \/ Len(detached') = 1 /\ DOMAIN detached' = {1}
        \/ detached # <<>> /\ ~Headless /\ detached' = <<NewNode(p)>> \o detached
    BY <1>2, AddedOffList DEF Receive, NewBuffer
  <2>3. CASE detached' = detached
    BY <2>1, <2>3 DEF RawNodes, Seen
  <2>4. CASE detached' = <<>>
    BY <2>4 DEF RawNodes
  <2>5. CASE Len(detached') = 1 /\ DOMAIN detached' = {1}
    BY <2>5 DEF RawNodes
  <2>6. CASE detached # <<>> /\ ~Headless /\ detached' = <<NewNode(p)>> \o detached
    <3>1. detached \in Seq(Frames) /\ NewNode(p) \in Frames
      BY <2>6, NewNodeType DEF ListType, OffList
    <3>2. /\ Len(detached') = Len(detached) + 1
          /\ detached'[1] = NewNode(p)
          /\ \A i \in DOMAIN detached' :
                i = 1 \/ (i - 1 \in DOMAIN detached /\ detached'[i] = detached[i - 1])
      BY <2>6, <3>1
    <3>3. ASSUME NEW i \in DOMAIN detached', i < Len(detached')
          PROVE  Len(detached'[i].pkts) = 1 /\ Seen(detached[i].pkts[1])'
      <4>1. CASE i = 1
        BY <2>1, <3>2, <4>1 DEF NewNode
      <4>2. CASE i # 1
        <5>1. i - 1 \in DOMAIN detached /\ i - 1 < Len(detached) /\ detached'[i] = detached[i - 1]
          BY <3>1, <3>2, <3>3, <4>2
        <5>2. QED
          BY <2>1, <5>1 DEF RawNodes, Seen
      <4>3. QED
        BY <4>1, <4>2
    <3>4. QED
      BY <3>3 DEF RawNodes
  <2>7. QED
    BY <2>2, <2>3, <2>4, <2>5, <2>6
<1>3. CASE UNCHANGED vars \/ \E b \in Behaviors : SetBehavior(b)
  BY <1>3 DEF vars, SetBehavior, RawNodes, Seen
<1>4. QED
  BY <1>1, <1>2, <1>3 DEF Next

(* The frame popped is a raw packet or a stretch of the oldest chain.      *)
LEMMA OldestIsStretch ==
    ASSUME ListType, ~Headless, length > 0, RawNodes
    PROVE  /\ queue \in Seq(Frames) /\ 1 \in DOMAIN queue
           /\ OldestFrame.pkts \in Seq(Packets)
           /\ \/ Len(OldestFrame.pkts) = 1 /\ Seen(OldestFrame.pkts[1])
              \/ \E from \in DOMAIN queue[1].pkts : \A i \in DOMAIN OldestFrame.pkts :
                    /\ from + i - 1 \in DOMAIN queue[1].pkts
                    /\ OldestFrame.pkts[i] = queue[1].pkts[from + i - 1]
<1>1. /\ OldestFrame \in Frames /\ OldestFrame.pkts \in Seq(Packets)
      /\ queue \in Seq(Frames) /\ queue # <<>> /\ 1 \in DOMAIN queue
      /\ detached \in Seq(Frames) /\ Len(detached) \in Nat
  BY OldestTyped DEF Frames
<1>2. CASE detached = <<>>
  <2>1. OldestFrame = queue[1]
    BY <1>2 DEF OldestFrame
  <2>2. /\ 1 \in DOMAIN queue[1].pkts
        /\ \A i \in DOMAIN queue[1].pkts : 1 + i - 1 = i
    BY <1>1, <2>1 DEF Frames
  <2>3. QED
    BY <1>1, <2>1, <2>2
<1>3. CASE detached # <<>> /\ Len(detached) = 1
  <2>1. OldestFrame = RestOf(detached[1])
    BY <1>3 DEF OldestFrame
  <2>2. QED
    BY <1>1, <1>3, <2>1, RestIsStretch
<1>4. CASE detached # <<>> /\ Len(detached) # 1
  <2>1. OldestFrame = detached[1]
    BY <1>4 DEF OldestFrame
  <2>2. Len(detached) # 0
    BY <1>1, <1>4
  <2>a. Len(detached) \in Nat /\ DOMAIN detached = 1 .. Len(detached)
    BY <1>1
  <2>3. 1 \in DOMAIN detached /\ 1 < Len(detached)
    BY <1>4, <2>2, <2>a
  <2>4. QED
    BY <1>1, <2>1, <2>3 DEF RawNodes
<1>5. QED
  BY <1>1, <1>2, <1>3, <1>4

LEMMA ArrivedStep ==
    ASSUME ListType, HistoryType, OnlyArrived, RawNodes, [Next]_vars
    PROVE  OnlyArrived'
<1>1. CASE PopOldestFrame
  <2> DEFINE f == OldestFrame.pkts
  <2>1. length > 0 /\ ~Headless /\ arrived' = arrived
    BY <1>1, PopEnds DEF HistoryType
  <2>2. /\ queue \in Seq(Frames) /\ queue # <<>> /\ f \in Seq(Packets)
        /\ delivered \in Seq(Seq(Packets))
    BY <2>1, OldestIsStretch DEF HistoryType
  <2>3. /\ queue' \in {queue, <<>>, Tail(queue)}
        /\ delivered' = delivered \/ delivered' = Append(delivered, f)
    BY <1>1, PopEnds
    DEF PopAborted, PopFailsInCleanup, PopMovesOn, popFrameQueueCleanup, PopFails, HandOver
  <2>4. \A j \in DOMAIN queue' : \E k \in DOMAIN queue : queue'[j] = queue[k]
    <3>1. \A j \in DOMAIN Tail(queue) : j + 1 \in DOMAIN queue /\ Tail(queue)[j] = queue[j + 1]
      BY <2>2, HeadTailProperties
    <3>2. CASE queue' = queue \/ queue' = <<>>
      BY <3>2
    <3>3. CASE queue' = Tail(queue)
      BY <3>1, <3>3
    <3>4. QED
      BY <2>3, <3>2, <3>3
  <2>5. \A a \in DOMAIN f : Seen(f[a])
    <3>1. CASE Len(f) = 1 /\ Seen(f[1])
      BY <2>2, <3>1
    <3>2. CASE \E from \in DOMAIN queue[1].pkts : \A i \in DOMAIN f :
                 /\ from + i - 1 \in DOMAIN queue[1].pkts
                 /\ f[i] = queue[1].pkts[from + i - 1]
      BY <2>1, <3>2, OldestIsStretch DEF OnlyArrived
    <3>3. QED
      BY <2>1, <3>1, <3>2, OldestIsStretch
  <2> HIDE DEF f
  <2>6. \A j \in DOMAIN delivered' :
          delivered'[j] = f \/ (j \in DOMAIN delivered /\ delivered'[j] = delivered[j])
    <3>1. CASE delivered' = delivered
      BY <3>1
    <3>2. CASE delivered' = Append(delivered, f)
      BY <2>2, <3>2
    <3>3. QED
      BY <2>3, <3>1, <3>2
  <2>7. QED
    BY <2>1, <2>4, <2>5, <2>6 DEF OnlyArrived, Seen
<1>2. ASSUME NEW p \in Packets, Receive(p) PROVE OnlyArrived'
  <2>1. Seen(p)' /\ \A q : Seen(q) => Seen(q)'
    BY <1>2, ArrivalIsSeen
  <2>2. /\ \A j \in DOMAIN queue' : MadeOf(queue'[j], p)
        /\ delivered' = delivered
    BY <1>2, AddedMadeOf DEF Receive, NewBuffer
  <2>3. \A x : OnList(x) => Seen(x)'
    BY <2>1 DEF OnlyArrived, OnList
  <2>4. QED
    BY <2>1, <2>2, <2>3 DEF OnlyArrived, MadeOf, Seen
<1>3. CASE UNCHANGED vars \/ \E b \in Behaviors : SetBehavior(b)
  BY <1>3 DEF vars, SetBehavior, OnlyArrived, Seen
<1>4. QED
  BY <1>1, <1>2, <1>3 DEF Next

LEMMA WholeStep ==
    ASSUME ListType, HistoryType, FramesSorted, RawNodes, WholeFrames, [Next]_vars
    PROVE  WholeFrames'
<1>1. CASE UNCHANGED delivered
  BY <1>1 DEF WholeFrames, Sorted, TimeStamp, SeqNum
<1>2. CASE HandOver(OldestFrame) /\ PopOldestFrame
  <2> DEFINE f == OldestFrame.pkts
  <2>1. length > 0 /\ ~Headless
    BY <1>2, PopEnds DEF HistoryType
  <2>2. queue \in Seq(Frames) /\ 1 \in DOMAIN queue /\ f \in Seq(Packets)
    BY <2>1, OldestIsStretch
  <2>3. Sorted(queue[1].pkts) /\ queue[1].pkts \in Seq(Packets)
    <3>1. queue[1] \in Frames
      BY <2>2
    <3>2. QED
      BY <2>2, <3>1 DEF FramesSorted, Sorted, Frames
  <2>4. Sorted(f)
    <3>1. CASE Len(f) = 1
      BY <2>2, <3>1 DEF Sorted
    <3>2. CASE \E from \in DOMAIN queue[1].pkts : \A i \in DOMAIN f :
                 /\ from + i - 1 \in DOMAIN queue[1].pkts
                 /\ f[i] = queue[1].pkts[from + i - 1]
      <4>1. PICK from \in DOMAIN queue[1].pkts : \A i \in DOMAIN f :
                 /\ from + i - 1 \in DOMAIN queue[1].pkts
                 /\ f[i] = queue[1].pkts[from + i - 1]
        BY <3>2
      <4>2. \A a, b \in DOMAIN f : a < b => from + a - 1 < from + b - 1
        BY <2>2, <2>3
      <4>3. QED
        BY <2>3, <4>1, <4>2 DEF Sorted
    <3>3. QED
      BY <2>1, <3>1, <3>2, OldestIsStretch
  <2>5. delivered' = Append(delivered, f) /\ delivered \in Seq(Seq(Packets))
    BY <1>2 DEF HandOver, HistoryType
  <2> HIDE DEF f
  <2>6. \A j \in DOMAIN delivered' :
          delivered'[j] = f \/ (j \in DOMAIN delivered /\ delivered'[j] = delivered[j])
    BY <2>2, <2>5
  <2>7. \A j \in DOMAIN delivered' : Sorted(delivered'[j])
    BY <2>4, <2>6 DEF WholeFrames
  <2>8. QED
    BY <2>7 DEF WholeFrames, Sorted, TimeStamp, SeqNum
<1>3. PopOldestFrame => UNCHANGED delivered \/ HandOver(OldestFrame)
  BY PopEnds DEF PopAborted, PopFailsInCleanup, PopMovesOn, PopFails
<1>4. QED
  BY <1>1, <1>2, <1>3 DEF Next, Receive, SetBehavior, vars

AnyNetwork == ListType /\ HistoryType /\ FramesSorted /\ RawNodes /\ OnlyArrived /\ WholeFrames

LEMMA AnyNetworkInit == Init => AnyNetwork
BY TypeInit DEF Init, AnyNetwork, FramesSorted, RawNodes, OnlyArrived, WholeFrames

LEMMA AnyNetworkStep == AnyNetwork /\ [Next]_vars => AnyNetwork'
BY TypeStep, SortedStep, RawNodesStep, ArrivedStep, WholeStep DEF AnyNetwork

(* Whatever the network does, and also when the list and its count have    *)
(* come apart, PktBuffer makes nothing up: each packet on the list or in   *)
(* the application's hands came over the network, and each frame handed    *)
(* over is packets of one timestamp by ascending number, none twice.       *)
THEOREM NothingMadeUp == Spec => [](OnlyArrived /\ WholeFrames)
<1>1. AnyNetwork => OnlyArrived /\ WholeFrames
  BY DEF AnyNetwork
<1>2. QED
  BY AnyNetworkInit, AnyNetworkStep, <1>1, PTL DEF Spec

-----------------------------------------------------------------------------
(* The receiver thread *)

TimestampsNeverFall == \A p, q \in Packets : p < q => TimeStamp(p) <= TimeStamp(q)

(* The packet that ends it is older than every frame on a list that is not *)
(* empty, and not late by what was popped last.                            *)
OlderThanAll(p) ==
    /\ queue # <<>>
    /\ \A k \in DOMAIN queue : TimeStamp(p) < TimeStamp(Waiting(k))
    /\ pktOnTime(p)

KilledByTheOldest ==
    receiver' # receiver => \E p \in Packets : Receive(p) /\ OlderThanAll(p)

LEMMA WaitingTyped ==
    ASSUME ListType, NEW k \in DOMAIN queue
    PROVE  Waiting(k) \in Packets /\ Waiting(k) = queue[k].pkts[1] /\ 1 \in DOMAIN queue[k].pkts
<1>1. queue[k] \in Frames
  BY DEF ListType
<1>2. QED
  BY <1>1 DEF Frames, Waiting, HeadPkt

(* Whichever frames are not younger than a packet, one of them is last.    *)
LEMMA PlaceExists ==
    ASSUME ListType, NEW p \in Packets, NEW k \in DOMAIN queue,
           TimeStamp(Waiting(k)) <= TimeStamp(p)
    PROVE  Place(p) # {}
<1> DEFINE Behind == {n \in Nat : \E j \in DOMAIN queue :
                                    n = Len(queue) - j /\ TimeStamp(Waiting(j)) <= TimeStamp(p)}
<1>1. /\ Len(queue) \in Nat /\ DOMAIN queue = 1 .. Len(queue)
      /\ \A j \in DOMAIN queue : Waiting(j) \in Packets
  BY WaitingTyped DEF ListType
<1>2. Len(queue) - k \in Behind
  BY <1>1
<1>3. PICK x \in Behind : \A y \in Behind : ~(<<y, x>> \in OpToRel(<, Nat))
  BY <1>2, NatLessThanWellFounded, WFMin, Zenon
<1>4. \A y \in Behind : ~(y < x)
  BY <1>3 DEF OpToRel
<1>5. PICK last \in DOMAIN queue : x = Len(queue) - last /\ TimeStamp(Waiting(last)) <= TimeStamp(p)
  OBVIOUS
<1>6. ASSUME NEW j \in DOMAIN queue, j > last PROVE TimeStamp(Waiting(j)) > TimeStamp(p)
  <2>1. Len(queue) - j \in Nat /\ Len(queue) - j < x
    BY <1>1, <1>5, <1>6
  <2>2. ~(TimeStamp(Waiting(j)) <= TimeStamp(p))
    BY <1>4, <2>1
  <2>3. TimeStamp(Waiting(j)) \in Nat /\ TimeStamp(p) \in Nat
    BY <1>1, StreamType
  <2>4. QED
    BY <2>2, <2>3
<1>7. last \in Place(p)
  BY <1>5, <1>6 DEF Place, Waiting
<1>8. QED
  BY <1>7

LEMMA ReceiverStep ==
    ASSUME ListType, HistoryType, [Next]_vars
    PROVE  KilledByTheOldest
<1> SUFFICES ASSUME receiver' # receiver PROVE \E p \in Packets : Receive(p) /\ OlderThanAll(p)
  BY DEF KilledByTheOldest
<1>1. PICK p \in Packets : Receive(p)
  BY DEF Next, vars, PopOldestFrame, SetBehavior
<1>2. ~NoBuffer /\ addPkt(p)
  BY <1>1 DEF Receive, NewBuffer, BecomeOnly
<1>3. bufferedAddPkt(p) /\ length # 0 /\ pktOnTime(p) /\ Insert(p)
  BY <1>2 DEF addPkt, bufferedAddPkt, filteredAddPkt, unfilteredAddPkt, BecomeOnly, Enqueue, Discard
<1>4. Place(p) = {}
  BY <1>3 DEF Insert, Enqueue, addToFrame, Discard
<1>5. queue # <<>> /\ \A k \in DOMAIN queue : Waiting(k) \in Packets
  BY <1>3, WaitingTyped DEF ListType, CountedOnList
<1>6. ASSUME NEW k \in DOMAIN queue PROVE TimeStamp(p) < TimeStamp(Waiting(k))
  <2>1. ~(TimeStamp(Waiting(k)) <= TimeStamp(p))
    BY <1>4, PlaceExists
  <2>2. QED
    BY <1>5, <2>1, StreamType
<1>7. QED
  BY <1>1, <1>3, <1>5, <1>6 DEF OlderThanAll

(* RTPReceiverThread is ended by one thing only (PktBuffer.java:214): a    *)
(* packet that every frame on the list has overtaken and that is not yet   *)
(* too late by the last frame popped.                                      *)
THEOREM OnlyTheOldestKills == Spec => [][KilledByTheOldest]_vars
<1>1. ListType /\ HistoryType /\ [Next]_vars => ListType' /\ HistoryType'
  BY TypeStep
<1>2. ListType /\ HistoryType /\ [Next]_vars => [KilledByTheOldest]_vars
  BY ReceiverStep
<1>3. QED
  BY <1>1, <1>2, TypeInit, PTL DEF Spec

Receiving == receiver = "running"

(* On a network that keeps the order of packets, although it loses and     *)
(* repeats them, the receiver thread is never ended, with frames of any    *)
(* number of packets and under every behavior, as long as the timestamp    *)
(* does not wrap.                                                          *)
THEOREM ReceiverOutlivesLoss ==
    ASSUME Window = 0, TimestampsNeverFall
    PROVE  Spec => [](receiver = "running")
<1>1. ASSUME AnyNetwork, [Next]_vars, receiver = "running", receiver' # receiver
      PROVE  FALSE
  <2>1. PICK p \in Packets : Receive(p) /\ OlderThanAll(p)
    BY <1>1, ReceiverStep DEF AnyNetwork, KilledByTheOldest
  <2>2. 1 \in DOMAIN queue
    BY <1>1, <2>1 DEF AnyNetwork, ListType, OlderThanAll
  <2>3. Waiting(1) \in Packets /\ arrived[Waiting(1)] > 0
    BY <1>1, <2>2, WaitingTyped DEF AnyNetwork, OnlyArrived, Seen
  <2>4. Waiting(1) <= p
    BY <2>1, <2>3 DEF Receive, Packets
  <2>5. TimeStamp(Waiting(1)) <= TimeStamp(p)
    BY <2>3, <2>4, StreamType DEF TimestampsNeverFall, Packets
  <2>6. TimeStamp(p) < TimeStamp(Waiting(1))
    BY <2>1, <2>2 DEF OlderThanAll
  <2>7. QED
    BY <2>3, <2>5, <2>6, StreamType
<1>2. Init => Receiving
  BY DEF Init, Receiving
<1>3. AnyNetwork /\ Receiving /\ [Next]_vars => Receiving'
  BY <1>1 DEF Receiving
<1>4. Receiving <=> receiver = "running"
  BY DEF Receiving
<1>5. QED
  BY AnyNetworkInit, AnyNetworkStep, <1>2, <1>3, <1>4, PTL DEF Spec

=============================================================================
