------------------------- MODULE ReceptionStatsProofs -------------------------
(* Theorems about ReceptionStats, for any stream and any network.          *)
EXTENDS ReceptionStats, FiniteSetTheorems, TLAPS

(* The code never sees a wrap, so lastSeqNumber only grows, and what was   *)
(* reported is not above it.                                               *)
ReportBelowLast ==
    /\ seqRollOverCount = 0
    /\ report.high <= lastSeqNumber

IInv == TypeOK /\ ReportBelowLast

USE DEF counters, receiving, sending, Packets

LEMMA StreamNumbers ==
    /\ NumPkts \in Nat /\ SeqMod \in Nat /\ SeqMod > 0 /\ StartSeq \in 0 .. SeqMod - 1
    /\ Copies \in Nat
BY StreamAssumption, NetworkAssumption DEF StreamAssumption, NetworkAssumption

LEMMA SeqNumberTyped == ASSUME NEW k \in Nat PROVE SeqNumber(k) \in 0 .. SeqMod - 1
BY StreamNumbers DEF SeqNumber

LEMMA QuotientTyped == ASSUME NEW n \in Int, NEW d \in Nat, d > 0 PROVE Quotient(n, d) \in Int
BY DEF Quotient

LEMMA MissingFinite == IsFiniteSet(Missing)
<1>1. IsFiniteSet(0 .. NumPkts - 1)
  BY StreamNumbers, FS_Interval
<1>2. QED
  BY <1>1, FS_Subset DEF Missing

LEMMA StatsInit == Init => IInv
<1> SUFFICES ASSUME Init PROVE IInv
  OBVIOUS
<1>1. delivered \in [Packets -> 0 .. Copies]
  BY StreamNumbers DEF Init
<1>2. report \in [lost : Nat, missing : Nat, fraction : Int, high : Nat] /\ report.high = 0
  BY DEF Init
<1>3. TypeOK
  BY <1>1, <1>2, StreamNumbers DEF Init, TypeOK
<1>4. QED
  BY <1>2, <1>3 DEF Init, IInv, ReportBelowLast

LEMMA ReceiverStep ==
    ASSUME IInv, Receiver
    PROVE  /\ IInv'
           /\ report' = report
<1> USE DEF IInv, TypeOK, ReportBelowLast
<1>1. ASSUME NEW k \in Packets, Receive(k) PROVE IInv' /\ report' = report
  <2>1. SeqNumber(k) \in 0 .. SeqMod - 1
    BY SeqNumberTyped
  <2>2. delivered' \in [Packets -> 0 .. Copies]
    BY <1>1, StreamNumbers DEF Receive
  <2>3. firstSeqNumber' \in -1 .. SeqMod - 1
    BY <1>1, <2>1, StreamNumbers DEF Receive
  <2>4. QED
    BY <1>1, <2>2, <2>3, StreamNumbers DEF Receive
<1>2. CASE SinceReads
  BY <1>2 DEF SinceReads
<1>3. CASE SinceWrites
  BY <1>3 DEF SinceWrites
<1>4. CASE Counts
  BY <1>4 DEF Counts
<1>5. CASE UpdatesLast
  <2>1. SeqNumber(pkt) \in 0 .. SeqMod - 1
    BY SeqNumberTyped
  <2>2. PICK n \in 0 .. SeqMod - 1 : lastSeqNumber' = n /\ lastSeqNumber <= n
    BY <1>5, <2>1, StreamNumbers DEF UpdatesLast
  <2>3. report.high \in Nat /\ report.high <= n
    BY <2>2, StreamNumbers
  <2>4. QED
    BY <1>5, <2>2, <2>3 DEF UpdatesLast
<1>6. QED
  BY <1>1, <1>2, <1>3, <1>4, <1>5 DEF Receiver

LEMMA SenderStep ==
    ASSUME IInv, Sender
    PROVE  /\ IInv'
           /\ report'.high >= report.high
<1> USE DEF IInv, TypeOK, ReportBelowLast
<1>0. SeqMod * seqRollOverCount + lastSeqNumber = lastSeqNumber
  BY StreamNumbers
<1>a. report.high \in Nat /\ report.high >= report.high
  OBVIOUS
<1>1. CASE BeginsBlock
  BY <1>0, <1>1, <1>a DEF BeginsBlock
<1>2. CASE ReportsLost
  <2>1. PICK l \in Nat : report' = [report EXCEPT !.lost = l, !.missing = Cardinality(Missing)]
    <3> DEFINE lost == last - firstSeqNumber - receivedPkts
               l == IF lost < 0 THEN 0 ELSE lost
    <3>1. l \in Nat
      BY StreamNumbers
    <3>2. report' = [report EXCEPT !.lost = l, !.missing = Cardinality(Missing)]
      BY <1>2 DEF ReportsLost
    <3>3. QED
      BY <3>1, <3>2, Zenon
  <2>2. Cardinality(Missing) \in Nat
    BY MissingFinite, FS_CardinalityType
  <2>3. report' \in [lost : Nat, missing : Nat, fraction : Int, high : Nat]
        /\ report'.high = report.high
    BY <2>1, <2>2
  <2>4. QED
    BY <1>2, <1>a, <2>3 DEF ReportsLost
<1>3. CASE ReckonsExpected
  <2>1. expected' \in Nat
    BY <1>3, StreamNumbers DEF ReckonsExpected
  <2>2. QED
    BY <1>3, <1>a, <2>1 DEF ReckonsExpected
<1>4. CASE ReportsFraction
  <2>1. PICK f \in Int : report' = [report EXCEPT !.fraction = f]
    <3>1. CASE expected > 0
      <4>1. 256 * (expected - receivedSinceLastSR) \in Int
        OBVIOUS
      <4>2. Quotient(256 * (expected - receivedSinceLastSR), expected) \in Int
        BY <3>1, <4>1, QuotientTyped
      <4>3. QED
        BY <1>4, <3>1, <4>2 DEF ReportsFraction
    <3>2. CASE ~(expected > 0)
      BY <1>4, <3>2 DEF ReportsFraction
    <3>3. QED
      BY <3>1, <3>2
  <2>2. report' \in [lost : Nat, missing : Nat, fraction : Int, high : Nat]
        /\ report'.high = report.high
    BY <2>1
  <2>3. QED
    BY <1>4, <1>a, <2>2 DEF ReportsFraction
<1>5. CASE ClearsSince
  BY <1>5, <1>a DEF ClearsSince
<1>6. CASE MarksLast
  BY <1>6, <1>a DEF MarksLast
<1>7. CASE ReportsHigh
  <2>1. report' = [report EXCEPT !.high = lastSeqNumber]
    BY <1>0, <1>7 DEF ReportsHigh
  <2>2. lastSeqNumber \in Nat /\ lastSeqNumber >= report.high
    BY StreamNumbers
  <2>3. report' \in [lost : Nat, missing : Nat, fraction : Int, high : Nat]
        /\ report'.high = lastSeqNumber
    BY <2>1, <2>2
  <2>4. sender' = "sleep" /\ UNCHANGED <<counters, receiving, last, expected>>
    BY <1>7, Zenon DEF ReportsHigh
  <2>5. TypeOK'
    BY <2>3, <2>4
  <2>6. ReportBelowLast'
    BY <2>2, <2>3, <2>4
  <2>7. QED
    BY <2>2, <2>3, <2>5, <2>6
<1>8. QED
  BY <1>1, <1>2, <1>3, <1>4, <1>5, <1>6, <1>7 DEF Sender

LEMMA StatsNext == IInv /\ [Next]_vars => IInv' /\ (report'.high >= report.high \/ report' = report)
<1> SUFFICES ASSUME IInv, [Next]_vars
             PROVE  IInv' /\ (report'.high >= report.high \/ report' = report)
  OBVIOUS
<1>1. CASE Receiver
  BY <1>1, ReceiverStep
<1>2. CASE Sender
  BY <1>2, SenderStep
<1>3. CASE UNCHANGED vars
  BY <1>3 DEF IInv, TypeOK, ReportBelowLast, vars
<1>4. QED
  BY <1>1, <1>2, <1>3 DEF Next

LEMMA StatsInvariant == Spec => []IInv
<1>1. QED
  BY StatsInit, StatsNext, PTL DEF Spec

(* Every counter and every field of a report keeps its range.              *)
THEOREM TypeCorrect == Spec => []TypeOK
<1>1. IInv => TypeOK
  BY DEF IInv
<1>2. QED
  BY <1>1, StatsInvariant, PTL

(* Whatever the wraps, losses and repetitions, the extended highest        *)
(* sequence number of the reports never goes down.                         *)
THEOREM HighestMonotone == Spec => HighestNeverFalls
<1>1. IInv /\ [Next]_vars => [report'.high >= report.high]_report
  BY StatsNext
<1>2. QED
  BY <1>1, StatsInvariant, PTL DEF Spec, HighestNeverFalls
-----------------------------------------------------------------------------
(* The cumulative loss *)

(* The first packet to arrive had overtaken none that arrived later.       *)
FirstIsOldest == \A k \in Arrived : k >= firstPkt

(* The distance of a number from the first is not that of a newer packet   *)
(* than some that arrived: a wrap only makes it smaller.                   *)
Reached(number) == \E j \in Arrived : number - firstSeqNumber <= j - firstPkt

(* The packet the receiver has at hand and has not counted yet.            *)
AtHand == IF receiver \in {"since", "store", "count"} THEN 1 ELSE 0

LossInv ==
    /\ firstPkt = -1 => Arrived = {} /\ firstSeqNumber = -1 /\ receivedPkts = 0
                     /\ lastSeqNumber = 0
    /\ firstPkt # -1 => firstPkt \in Arrived /\ firstSeqNumber = SeqNumber(firstPkt)
    /\ receiver # "receive" => pkt \in Arrived
    /\ Cardinality(Arrived) <= receivedPkts + AtHand
    /\ FirstIsOldest /\ firstPkt # -1 => Reached(lastSeqNumber)
    /\ sender = "lost" => firstPkt # -1 /\ (FirstIsOldest => Reached(last))
    /\ LossNeverOverstated

LEMMA Multiples == ASSUME NEW m \in Nat, NEW x \in Int, NEW y \in Int, x <= y
                   PROVE  m * x <= m * y
<1>1. m * (y - x) >= 0
  OBVIOUS
<1>2. m * (y - x) = m * y - m * x /\ m * x \in Int /\ m * y \in Int
  OBVIOUS
<1>3. QED
  BY <1>1, <1>2

LEMMA Division == ASSUME NEW a \in Nat, NEW m \in Nat, m > 0
                  PROVE  /\ a \div m \in Int /\ a % m \in Int
                         /\ a = m * (a \div m) + (a % m)
OBVIOUS

LEMMA RemainderShortens ==
    ASSUME NEW a \in Nat, NEW b \in Nat, NEW m \in Nat, m > 0, a <= b
    PROVE  (b % m) - (a % m) <= b - a
<1>1. a \div m \in Int /\ b \div m \in Int /\ a % m \in Int /\ b % m \in Int
  BY Division
<1>2. a \div m <= b \div m
  OBVIOUS
<1>3. m * (a \div m) <= m * (b \div m)
  BY <1>1, <1>2, Multiples
<1>4. a = m * (a \div m) + (a % m) /\ b = m * (b \div m) + (b % m)
  BY Division
<1> DEFINE q == m * (a \div m)
           r == m * (b \div m)
<1>5. q \in Int /\ r \in Int
  BY <1>1
<1> HIDE DEF q, r
<1>6. q <= r /\ a = q + (a % m) /\ b = r + (b % m)
  BY <1>3, <1>4 DEF q, r
<1>7. QED
  BY <1>1, <1>5, <1>6

(* Over a wrap the numbers of two packets only come closer.                *)
LEMMA WrapShortens == ASSUME NEW f \in Nat, NEW j \in Nat, f <= j
                      PROVE  SeqNumber(j) - SeqNumber(f) <= j - f
<1>1. StartSeq + f \in Nat /\ StartSeq + j \in Nat /\ StartSeq + f <= StartSeq + j
      /\ (StartSeq + j) - (StartSeq + f) = j - f
  BY StreamNumbers
<1>2. ((StartSeq + j) % SeqMod) - ((StartSeq + f) % SeqMod) <= (StartSeq + j) - (StartSeq + f)
  BY <1>1, RemainderShortens, StreamNumbers
<1>3. QED
  BY <1>1, <1>2 DEF SeqNumber

LEMMA ArrivedFinite == IsFiniteSet(Arrived)
<1>1. IsFiniteSet(0 .. NumPkts - 1)
  BY StreamNumbers, FS_Interval
<1>2. QED
  BY <1>1, FS_Subset DEF Arrived

(* What lies between the first packet and another one that arrived has     *)
(* arrived or is missing.                                                  *)
LEMMA Between ==
    ASSUME FirstIsOldest, firstPkt \in Arrived, NEW j \in Arrived
    PROVE  j - firstPkt <= Cardinality(Missing) + Cardinality(Arrived) - 1
<1> DEFINE Later == Arrived \ {firstPkt}
           Span == firstPkt + 1 .. j
<1>1. firstPkt \in Nat /\ j \in Nat /\ firstPkt <= j /\ j < NumPkts
  BY StreamNumbers DEF FirstIsOldest, Arrived
<1>2. Span \subseteq Missing \cup Later
  <2> SUFFICES ASSUME NEW k \in Span, k \notin Arrived PROVE k \in Missing
    BY <1>1 DEF Later
  <2>1. k \in Nat /\ firstPkt < k /\ k <= j /\ k # j
    BY <1>1
  <2>2. QED
    BY <1>1, <2>1, StreamNumbers DEF Missing
<1>3. IsFiniteSet(Later) /\ Cardinality(Later) = Cardinality(Arrived) - 1
  BY ArrivedFinite, FS_RemoveElement
<1>4. IsFiniteSet(Missing \cup Later)
      /\ Cardinality(Missing \cup Later) <= Cardinality(Missing) + Cardinality(Later)
  <2>1. IsFiniteSet(Missing \cap Later) /\ Cardinality(Missing \cap Later) \in Nat
    BY <1>3, FS_Intersection, FS_CardinalityType
  <2>2. IsFiniteSet(Missing \cup Later)
        /\ Cardinality(Missing \cup Later)
             = Cardinality(Missing) + Cardinality(Later) - Cardinality(Missing \cap Later)
    BY <1>3, MissingFinite, FS_Union
  <2>3. Cardinality(Missing) \in Nat /\ Cardinality(Later) \in Nat
    BY <1>3, MissingFinite, FS_CardinalityType
  <2>4. QED
    BY <2>1, <2>2, <2>3
<1>5. Cardinality(Span) = j - firstPkt
  <2>1. Cardinality(Span) = IF firstPkt + 1 <= j THEN j - (firstPkt + 1) + 1 ELSE 0
    BY <1>1, FS_Interval
  <2>2. QED
    BY <1>1, <2>1
<1>6. Cardinality(Span) <= Cardinality(Missing \cup Later)
  BY <1>2, <1>4, FS_Subset
<1>7. Cardinality(Missing) \in Nat /\ Cardinality(Arrived) \in Nat
      /\ Cardinality(Missing \cup Later) \in Nat
  BY <1>4, ArrivedFinite, MissingFinite, FS_CardinalityType
<1> HIDE DEF Later, Span
<1>8. QED
  BY <1>1, <1>3, <1>4, <1>5, <1>6, <1>7

LEMMA LossInit == Init => LossInv
<1> SUFFICES ASSUME Init PROVE LossInv
  OBVIOUS
<1>1. Arrived = {}
  BY DEF Init, Arrived
<1>2. Cardinality(Arrived) = 0
  BY <1>1, FS_EmptySet
<1>3. report.lost <= report.missing
  BY DEF Init
<1>4. QED
  BY <1>1, <1>2, <1>3 DEF Init, LossInv, LossNeverOverstated, AtHand

(* A step that receives nothing leaves all but the counters it writes.     *)
LEMMA NothingReceived ==
    ASSUME UNCHANGED <<delivered, firstPkt>>
    PROVE  Arrived' = Arrived /\ Missing' = Missing /\ FirstIsOldest' = FirstIsOldest
<1>1. Arrived' = Arrived
  BY Zenon DEF Arrived
<1>2. Missing' = Missing
  BY <1>1, Zenon DEF Missing
<1>3. QED
  BY <1>1, <1>2, Zenon DEF FirstIsOldest

LEMMA LossReceive ==
    ASSUME IInv, LossInv, NEW k \in Packets, Receive(k)
    PROVE  LossInv'
<1> USE DEF IInv, TypeOK, AtHand
<1>1. k \in Nat /\ k < NumPkts
  BY StreamNumbers
<1>2. \A p \in Packets : delivered[p] \in Nat /\ delivered'[p] = IF p = k THEN delivered[k] + 1 ELSE delivered[p]
  BY StreamNumbers DEF Receive
<1>3. Arrived' = Arrived \cup {k}
  BY <1>2 DEF Arrived
<1>4. Cardinality(Arrived') <= Cardinality(Arrived) + 1
  <2>1. Cardinality(Arrived \cup {k})
          = IF k \in Arrived THEN Cardinality(Arrived) ELSE Cardinality(Arrived) + 1
    BY ArrivedFinite, FS_AddElement
  <2>2. Cardinality(Arrived) \in Nat
    BY ArrivedFinite, FS_CardinalityType
  <2>3. QED
    BY <1>3, <2>1, <2>2
<1>5. Cardinality(Arrived') <= receivedPkts' + AtHand'
  <2>1. Cardinality(Arrived) <= receivedPkts
    BY DEF LossInv, Receive
  <2>2. Cardinality(Arrived) \in Nat /\ Cardinality(Arrived') \in Nat
    <3>1. IsFiniteSet(Arrived \cup {k})
      BY ArrivedFinite, FS_AddElement
    <3>2. QED
      BY <1>3, <3>1, ArrivedFinite, FS_CardinalityType
  <2>3. receiver' = "since" /\ receivedPkts' = receivedPkts
    BY DEF Receive
  <2>4. QED
    BY <1>4, <2>1, <2>2, <2>3
<1>6. firstPkt' # -1 /\ firstPkt' \in Arrived' /\ firstSeqNumber' = SeqNumber(firstPkt')
  <2>1. CASE firstPkt = -1
    BY <1>1, <1>3, <2>1 DEF Receive, LossInv
  <2>2. CASE firstPkt # -1
    <3>1. firstSeqNumber \in 0 .. SeqMod - 1
      BY <2>2, SeqNumberTyped DEF LossInv, Arrived
    <3>2. QED
      BY <1>1, <1>3, <2>2, <3>1, StreamNumbers DEF Receive, LossInv
  <2>3. QED
    BY <2>1, <2>2
<1>7. pkt' \in Arrived' /\ UNCHANGED <<sender, last, report, lastSeqNumber>>
  BY <1>3 DEF Receive
<1>8. FirstIsOldest' => FirstIsOldest
  <2>1. CASE firstPkt = -1
    BY <2>1 DEF LossInv, FirstIsOldest
  <2>2. CASE firstPkt # -1
    BY <1>3, <2>2 DEF FirstIsOldest, Receive
  <2>3. QED
    BY <2>1, <2>2
<1>9. ASSUME FirstIsOldest'
      PROVE  Reached(lastSeqNumber)'
  <2>1. CASE firstPkt = -1
    <3>1. firstPkt' = k /\ firstSeqNumber' = SeqNumber(k) /\ SeqNumber(k) \in 0 .. SeqMod - 1
      BY <1>1, <2>1, SeqNumberTyped DEF Receive, LossInv
    <3>2. lastSeqNumber' = 0 /\ lastSeqNumber' - firstSeqNumber' <= k - firstPkt'
      BY <1>1, <1>7, <2>1, <3>1, StreamNumbers DEF LossInv
    <3>3. QED
      BY <1>3, <3>2 DEF Reached
  <2>2. CASE firstPkt # -1
    <3>1. firstPkt' = firstPkt /\ firstSeqNumber' = firstSeqNumber
      <4>1. firstSeqNumber \in 0 .. SeqMod - 1
        BY <2>2, SeqNumberTyped DEF LossInv, Arrived
      <4>2. QED
        BY <2>2, <4>1, StreamNumbers DEF Receive
    <3>2. Reached(lastSeqNumber)
      BY <1>8, <1>9, <2>2 DEF LossInv
    <3>3. QED
      BY <1>3, <1>7, <3>1, <3>2 DEF Reached
  <2>3. QED
    BY <2>1, <2>2
<1>10. ASSUME FirstIsOldest', sender' = "lost"
       PROVE  Reached(last)'
  <2>1. sender = "lost" /\ firstPkt # -1 /\ Reached(last)
    BY <1>7, <1>8, <1>10 DEF LossInv
  <2>2. firstPkt' = firstPkt /\ firstSeqNumber' = firstSeqNumber
    <3>1. firstSeqNumber \in 0 .. SeqMod - 1
      BY <2>1, SeqNumberTyped DEF LossInv, Arrived
    <3>2. QED
      BY <2>1, <3>1, StreamNumbers DEF Receive
  <2>3. QED
    BY <1>3, <1>7, <2>1, <2>2 DEF Reached
<1>11. LossNeverOverstated'
  BY <1>7, <1>8 DEF LossInv, LossNeverOverstated, FirstIsOldest
<1>12. QED
  BY <1>5, <1>6, <1>7, <1>9, <1>10, <1>11 DEF LossInv

LEMMA LossReceiver ==
    ASSUME IInv, LossInv, Receiver
    PROVE  LossInv'
<1> USE DEF IInv, TypeOK, AtHand
<1>0. Cardinality(Arrived) \in Nat
  BY ArrivedFinite, FS_CardinalityType
<1>1. ASSUME NEW k \in Packets, Receive(k) PROVE LossInv'
  BY <1>1, LossReceive
<1>2. CASE SinceReads
  <2>1. UNCHANGED <<delivered, firstPkt, counters, pkt, sender, last, report>>
        /\ receiver = "since" /\ receiver' = "store"
    BY <1>2 DEF SinceReads
  <2>2. Arrived' = Arrived /\ Missing' = Missing /\ FirstIsOldest' = FirstIsOldest
    BY <2>1, NothingReceived
  <2>3. QED
    BY <2>1, <2>2 DEF LossInv, LossNeverOverstated, Reached
<1>3. CASE SinceWrites
  <2>1. UNCHANGED <<delivered, firstPkt, firstSeqNumber, lastSeqNumber, receivedPkts, pkt, sender, last, report>>
        /\ receiver = "store" /\ receiver' = "count"
    BY <1>3 DEF SinceWrites
  <2>2. Arrived' = Arrived /\ Missing' = Missing /\ FirstIsOldest' = FirstIsOldest
    BY <2>1, NothingReceived
  <2>3. QED
    BY <2>1, <2>2 DEF LossInv, LossNeverOverstated, Reached
<1>4. CASE Counts
  <2>1. UNCHANGED <<delivered, firstPkt, firstSeqNumber, lastSeqNumber, pkt, sender, last, report>>
        /\ receiver = "count" /\ receiver' = "last" /\ receivedPkts' = receivedPkts + 1
    BY <1>4 DEF Counts
  <2>2. Arrived' = Arrived /\ Missing' = Missing /\ FirstIsOldest' = FirstIsOldest
    BY <2>1, NothingReceived
  <2>3. pkt \in Arrived /\ firstPkt # -1
    BY <2>1 DEF LossInv
  <2>4. Cardinality(Arrived) <= receivedPkts' + 0
    BY <1>0, <2>1 DEF LossInv
  <2>5. QED
    BY <2>1, <2>2, <2>3, <2>4 DEF LossInv, LossNeverOverstated, Reached
<1>5. CASE UpdatesLast
  <2>1. UNCHANGED <<delivered, firstPkt, firstSeqNumber, receivedPkts, pkt, sender, last, report>>
        /\ receiver = "last" /\ receiver' = "receive"
        /\ lastSeqNumber' \in {lastSeqNumber, SeqNumber(pkt)}
    BY <1>5 DEF UpdatesLast
  <2>2. Arrived' = Arrived /\ Missing' = Missing /\ FirstIsOldest' = FirstIsOldest
    BY <2>1, NothingReceived
  <2>3. pkt \in Arrived /\ firstPkt # -1 /\ firstPkt \in Arrived /\ firstSeqNumber = SeqNumber(firstPkt)
    BY <2>1 DEF LossInv
  <2>4. ASSUME FirstIsOldest PROVE SeqNumber(pkt) - firstSeqNumber <= pkt - firstPkt
    <3>1. pkt \in Nat /\ firstPkt \in Nat /\ firstPkt <= pkt
      BY <2>3, <2>4 DEF FirstIsOldest, Arrived
    <3>2. QED
      BY <2>3, <3>1, WrapShortens
  <2>5. FirstIsOldest' => Reached(lastSeqNumber)'
    <3>1. CASE lastSeqNumber' = lastSeqNumber
      BY <2>1, <2>2, <2>3, <3>1 DEF LossInv, Reached
    <3>2. CASE lastSeqNumber' = SeqNumber(pkt)
      BY <2>1, <2>2, <2>3, <2>4, <3>2 DEF Reached
    <3>3. QED
      BY <2>1, <3>1, <3>2
  <2>6. sender' = "lost" => firstPkt' # -1 /\ (FirstIsOldest' => Reached(last)')
    BY <2>1, <2>2 DEF LossInv, Reached
  <2>7. LossNeverOverstated'
    BY <2>1, <2>2 DEF LossInv, LossNeverOverstated
  <2>8. Cardinality(Arrived') <= receivedPkts' + AtHand'
    BY <2>1, <2>2 DEF LossInv
  <2>9. QED
    BY <2>1, <2>2, <2>3, <2>5, <2>6, <2>7, <2>8 DEF LossInv
<1>6. QED
  BY <1>1, <1>2, <1>3, <1>4, <1>5 DEF Receiver

LEMMA LossSender ==
    ASSUME IInv, LossInv, Sender
    PROVE  LossInv'
<1> USE DEF IInv, TypeOK, AtHand
<1>0. UNCHANGED <<delivered, firstPkt, firstSeqNumber, lastSeqNumber, receivedPkts, pkt, receiver>>
  BY DEF Sender, BeginsBlock, ReportsLost, ReckonsExpected, ReportsFraction, ClearsSince,
         MarksLast, ReportsHigh, receiving
<1>a. Arrived' = Arrived /\ Missing' = Missing /\ FirstIsOldest' = FirstIsOldest
  BY <1>0, NothingReceived
<1>b. Reached(lastSeqNumber)' = Reached(lastSeqNumber)
  BY <1>0, <1>a DEF Reached
<1>c. SUFFICES /\ sender' = "lost" => firstPkt # -1 /\ (FirstIsOldest => Reached(last'))
               /\ FirstIsOldest => report'.lost <= report'.missing
  BY <1>0, <1>a, <1>b DEF LossInv, LossNeverOverstated, FirstIsOldest, Reached
<1>1. CASE BeginsBlock
  <2>1. last' = lastSeqNumber
    BY <1>1, StreamNumbers DEF BeginsBlock, ReportBelowLast
  <2>2. firstPkt # -1 /\ report' = report
    BY <1>1 DEF BeginsBlock, LossInv
  <2>3. QED
    BY <2>1, <2>2 DEF LossInv, LossNeverOverstated, FirstIsOldest
<1>2. CASE ReportsLost
  <2>0. sender' = "expected"
    BY <1>2 DEF ReportsLost
  <2>1. SUFFICES ASSUME FirstIsOldest PROVE report'.lost <= report'.missing
    BY <2>0
  <2>2. PICK j \in Arrived : last - firstSeqNumber <= j - firstPkt
    BY <1>2, <2>1 DEF LossInv, ReportsLost, Reached
  <2>3. firstPkt \in Arrived
    BY <1>2 DEF LossInv, ReportsLost
  <2>4. j - firstPkt <= Cardinality(Missing) + Cardinality(Arrived) - 1
    BY <2>1, <2>3, Between
  <2>5. Cardinality(Arrived) <= receivedPkts + 1
    BY ArrivedFinite, FS_CardinalityType DEF LossInv
  <2>6. Cardinality(Missing) \in Nat /\ Cardinality(Arrived) \in Nat /\ j \in Nat /\ firstPkt \in Nat
    BY <2>3, ArrivedFinite, MissingFinite, FS_CardinalityType, StreamNumbers DEF Arrived
  <2> DEFINE lost == last - firstSeqNumber - receivedPkts
             l == IF lost < 0 THEN 0 ELSE lost
  <2>7. l <= Cardinality(Missing)
    BY <2>2, <2>4, <2>5, <2>6
  <2>8. report' = [report EXCEPT !.lost = l, !.missing = Cardinality(Missing)]
    BY <1>2, Zenon DEF ReportsLost
  <2> HIDE DEF l
  <2>9. report'.lost = l /\ report'.missing = Cardinality(Missing)
    BY <2>8
  <2>10. QED
    BY <2>7, <2>9
<1>3. CASE ReckonsExpected
  BY <1>3 DEF ReckonsExpected, LossInv, LossNeverOverstated, FirstIsOldest
<1>4. CASE ReportsFraction
  <2>1. report'.lost = report.lost /\ report'.missing = report.missing /\ sender' = "clear"
    BY <1>4 DEF ReportsFraction
  <2>2. QED
    BY <2>1 DEF LossInv, LossNeverOverstated, FirstIsOldest
<1>5. CASE ClearsSince
  BY <1>5 DEF ClearsSince, LossInv, LossNeverOverstated, FirstIsOldest
<1>6. CASE MarksLast
  BY <1>6 DEF MarksLast, LossInv, LossNeverOverstated, FirstIsOldest
<1>7. CASE ReportsHigh
  <2>1. report'.lost = report.lost /\ report'.missing = report.missing /\ sender' = "sleep"
    BY <1>7 DEF ReportsHigh
  <2>2. QED
    BY <2>1 DEF LossInv, LossNeverOverstated, FirstIsOldest
<1>8. QED
  BY <1>1, <1>2, <1>3, <1>4, <1>5, <1>6, <1>7 DEF Sender

LEMMA LossNext == IInv /\ LossInv /\ [Next]_vars => LossInv'
<1> SUFFICES ASSUME IInv, LossInv, [Next]_vars PROVE LossInv'
  OBVIOUS
<1>1. CASE UNCHANGED vars
  <2>1. UNCHANGED <<delivered, firstPkt, firstSeqNumber, lastSeqNumber, receivedPkts, pkt, receiver,
                    sender, last, report>>
    BY <1>1 DEF vars, receiving, sending
  <2>2. Arrived' = Arrived /\ Missing' = Missing /\ FirstIsOldest' = FirstIsOldest
    BY <2>1, NothingReceived
  <2>3. QED
    BY <2>1, <2>2 DEF LossInv, LossNeverOverstated, Reached, AtHand
<1>2. QED
  BY <1>1, LossReceiver, LossSender DEF Next

(* However packets are lost, repeated, delayed and counted while a report  *)
(* is made, the cumulative loss it gives is at most what is missing, if    *)
(* the first packet to arrive had overtaken none that arrived later.       *)
THEOREM LossIsBounded == Spec => []LossNeverOverstated
<1>1. IInv /\ IInv' /\ LossInv /\ [Next]_vars => LossInv'
  BY LossNext
<1>2. Spec => []LossInv
  BY <1>1, LossInit, StatsInvariant, PTL DEF Spec
<1>3. LossInv => LossNeverOverstated
  BY DEF LossInv
<1>4. QED
  BY <1>2, <1>3, PTL

=============================================================================
