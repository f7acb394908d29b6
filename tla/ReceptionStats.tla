------------------------------ MODULE ReceptionStats ------------------------------
(***************************************************************************)
(* What a receiver report says of one sender (rtp/Participant.java).       *)
(* RTPReceiverThread counts each packet in updateRRStats; the RTCP sender  *)
(* thread computes and clears the counters while it encodes a report block *)
(* (RtcpPktRR.encodeRR).  No lock protects them: a step is what a thread   *)
(* does between two accesses to a counter the other one uses.              *)
(*                                                                         *)
(* Packets are numbered as they are sent, 0 .. NumPkts - 1; on the wire    *)
(* packet k has the 16-bit sequence number SeqNumber(k).  Jitter, octets   *)
(* and times are left out.                                                 *)
(***************************************************************************)
EXTENDS Integers, FiniteSets

CONSTANTS
    NumPkts,    (* bound: the packets of the sender                           *)
    StartSeq,   (* the sequence number of the first                           *)
    SeqMod,     (* 65536                                                      *)
    Window,     (* bound: how many places a packet may come late              *)
    Copies      (* bound: how often a packet may arrive                       *)

ASSUME StreamAssumption ==
    /\ NumPkts \in Nat
    /\ SeqMod \in Nat \ {0}
    /\ StartSeq \in 0 .. SeqMod - 1
ASSUME NetworkAssumption == Window \in Nat /\ Copies \in Nat \ {0}

Packets == 0 .. NumPkts - 1
SeqNumber(k) == (StartSeq + k) % SeqMod

VARIABLES
    firstSeqNumber, lastSeqNumber, seqRollOverCount,
    receivedPkts, receivedSinceLastSR, lastSRRseqNumber,
                  (* the fields of Participant                               *)
    receiver,     (* where the receiver thread is in updateRRStats           *)
    pkt,          (* the packet it has at hand                               *)
    sum,          (* what it read of receivedSinceLastSR                     *)
    sender,       (* where the sender thread is in encodeRR                  *)
    last,         (* what it read of lastSeqNumber                           *)
    expected,     (* the packets since the last report, as it reckons        *)
    report,       (* history: the fields of the report block as far as they  *)
                  (* are known, and the truth at that time                   *)
    delivered,    (* history: how often each packet has arrived              *)
    firstPkt      (* history: the packet that arrived first, or -1           *)

counters == <<firstSeqNumber, lastSeqNumber, seqRollOverCount, receivedPkts,
              receivedSinceLastSR, lastSRRseqNumber>>
receiving == <<receiver, pkt, sum, delivered, firstPkt>>
sending == <<sender, last, expected, report>>
vars == <<counters, receiving, sending>>

Arrived == {k \in Packets : delivered[k] > 0}

(* The packets from the first to the newest that never arrived.            *)
Missing == {k \in Packets \ Arrived : firstPkt < k /\ \E j \in Arrived : k < j}

Init ==
    /\ firstSeqNumber = -1 /\ lastSeqNumber = 0 /\ seqRollOverCount = 0
    /\ receivedPkts = 0 /\ receivedSinceLastSR = 0 /\ lastSRRseqNumber = 0
    /\ receiver = "receive" /\ pkt = 0 /\ sum = 0
    /\ sender = "sleep" /\ last = 0 /\ expected = 0
    /\ report = [lost |-> 0, missing |-> 0, fraction |-> 0, high |-> 0]
    /\ delivered = [k \in Packets |-> 0]
    /\ firstPkt = -1

-----------------------------------------------------------------------------
(* RTPReceiverThread: updateRRStats *)

(* The network loses, repeats and delays packets.                          *)
Receive(k) ==
    /\ receiver = "receive"
    /\ delivered[k] < Copies
    /\ \A j \in Arrived : j <= k + Window
    /\ delivered' = [delivered EXCEPT ![k] = @ + 1]
    /\ firstPkt' = IF firstPkt = -1 THEN k ELSE firstPkt
    /\ firstSeqNumber' = IF firstSeqNumber < 0 THEN SeqNumber(k) ELSE firstSeqNumber
    /\ pkt' = k
    /\ receiver' = "since"
    /\ UNCHANGED <<lastSeqNumber, seqRollOverCount, receivedPkts, receivedSinceLastSR,
                   lastSRRseqNumber, sum, sending>>

(* receivedSinceLastSR++ *)
SinceReads ==
    /\ receiver = "since"
    /\ sum' = receivedSinceLastSR
    /\ receiver' = "store"
    /\ UNCHANGED <<counters, pkt, delivered, firstPkt, sending>>

SinceWrites ==
    /\ receiver = "store"
    /\ receivedSinceLastSR' = sum + 1
    /\ sum' = 0
    /\ receiver' = "count"
    /\ UNCHANGED <<firstSeqNumber, lastSeqNumber, seqRollOverCount, receivedPkts,
                   lastSRRseqNumber, pkt, delivered, firstPkt, sending>>

(* receivedPkts++: no other thread writes it.                              *)
Counts ==
    /\ receiver = "count"
    /\ receivedPkts' = receivedPkts + 1
    /\ receiver' = "last"
    /\ UNCHANGED <<firstSeqNumber, lastSeqNumber, seqRollOverCount, receivedSinceLastSR,
                   lastSRRseqNumber, pkt, sum, delivered, firstPkt, sending>>

(* (A plausible error.) What the code means: a number far below the last   *)
(* is one after the wrap, and the number is stored before the count.       *)
UpdatesLastOverWrap ==
    \/ /\ receiver = "last"
       /\ IF SeqNumber(pkt) < lastSeqNumber - SeqMod \div 2
          THEN lastSeqNumber' = SeqNumber(pkt) /\ receiver' = "rollOver"
          ELSE /\ lastSeqNumber' = IF lastSeqNumber < SeqNumber(pkt) THEN SeqNumber(pkt)
                                   ELSE lastSeqNumber
               /\ receiver' = "receive"
       /\ UNCHANGED <<firstSeqNumber, seqRollOverCount, receivedPkts, receivedSinceLastSR,
                      lastSRRseqNumber, pkt, sum, delivered, firstPkt, sending>>
    \/ /\ receiver = "rollOver"
       /\ seqRollOverCount' = seqRollOverCount + 1
       /\ receiver' = "receive"
       /\ UNCHANGED <<firstSeqNumber, lastSeqNumber, receivedPkts, receivedSinceLastSR,
                      lastSRRseqNumber, pkt, sum, delivered, firstPkt, sending>>

(* The test for a wrap subtracts lastSeqNumber from itself and is never    *)
(* true, so seqRollOverCount stays 0 and lastSeqNumber at its maximum.     *)
UpdatesLast ==
    /\ receiver = "last"
    /\ lastSeqNumber' = IF lastSeqNumber < SeqNumber(pkt) THEN SeqNumber(pkt) ELSE lastSeqNumber
    /\ receiver' = "receive"
    /\ UNCHANGED <<firstSeqNumber, seqRollOverCount, receivedPkts, receivedSinceLastSR,
                   lastSRRseqNumber, pkt, sum, delivered, firstPkt, sending>>

Receiver ==
    \/ \E k \in Packets : Receive(k)
    \/ SinceReads \/ SinceWrites \/ Counts \/ UpdatesLast

-----------------------------------------------------------------------------
(* RTCPSenderThread: RtcpPktRR.encodeRR *)

(* A sender nothing was received from has no report block.                 *)
BeginsBlock ==
    /\ sender = "sleep"
    /\ receivedPkts > 0
    /\ sender' = "lost"
    /\ last' = SeqMod * seqRollOverCount + lastSeqNumber
    /\ UNCHANGED <<counters, receiving, expected, report>>

(* (A plausible error.) Numbering is taken to begin at 0.                  *)
ReportsLostFromZero ==
    /\ sender = "lost"
    /\ LET lost == last - receivedPkts
       IN  report' = [report EXCEPT !.lost = IF lost < 0 THEN 0 ELSE lost,
                                    !.missing = Cardinality(Missing)]
    /\ last' = 0
    /\ sender' = "expected"
    /\ UNCHANGED <<counters, receiving, expected>>

(* getLostPktCount                                                         *)
ReportsLost ==
    /\ sender = "lost"
    /\ LET lost == last - firstSeqNumber - receivedPkts
       IN  report' = [report EXCEPT !.lost = IF lost < 0 THEN 0 ELSE lost,
                                    !.missing = Cardinality(Missing)]
    /\ last' = 0
    /\ sender' = "expected"
    /\ UNCHANGED <<counters, receiving, expected>>

(* getFractionLost: what was expected ...                                  *)
ReckonsExpected ==
    /\ sender = "expected"
    /\ LET diff == lastSeqNumber - lastSRRseqNumber
       IN  expected' = IF diff < 0 THEN SeqMod + diff ELSE diff
    /\ sender' = "fraction"
    /\ UNCHANGED <<counters, receiving, last, report>>

(* ... and what of it came, in 256ths; Java's division rounds to zero ...  *)
Quotient(n, d) == IF n < 0 THEN -((-n) \div d) ELSE n \div d

ReportsFraction ==
    /\ sender = "fraction"
    /\ report' = [report EXCEPT !.fraction =
                    IF expected > 0 THEN Quotient(256 * (expected - receivedSinceLastSR), expected)
                    ELSE 0]
    /\ expected' = 0
    /\ sender' = "clear"
    /\ UNCHANGED <<counters, receiving, last>>

(* ... and both counters start again, one after the other.                 *)
ClearsSince ==
    /\ sender = "clear"
    /\ receivedSinceLastSR' = 0
    /\ sender' = "mark"
    /\ UNCHANGED <<firstSeqNumber, lastSeqNumber, seqRollOverCount, receivedPkts,
                   lastSRRseqNumber, receiving, last, expected, report>>

MarksLast ==
    /\ sender = "mark"
    /\ lastSRRseqNumber' = lastSeqNumber
    /\ sender' = "high"
    /\ UNCHANGED <<firstSeqNumber, lastSeqNumber, seqRollOverCount, receivedPkts,
                   receivedSinceLastSR, receiving, last, expected, report>>

(* getExtHighSeqRecv                                                       *)
ReportsHigh ==
    /\ sender = "high"
    /\ report' = [report EXCEPT !.high = SeqMod * seqRollOverCount + lastSeqNumber]
    /\ sender' = "sleep"
    /\ UNCHANGED <<counters, receiving, last, expected>>

Sender ==
    \/ BeginsBlock \/ ReportsLost \/ ReckonsExpected \/ ReportsFraction
    \/ ClearsSince \/ MarksLast \/ ReportsHigh

Next == Receiver \/ Sender

Spec == Init /\ [][Next]_vars

-----------------------------------------------------------------------------
TypeOK ==
    /\ firstSeqNumber \in -1 .. SeqMod - 1
    /\ lastSeqNumber \in 0 .. SeqMod - 1
    /\ seqRollOverCount \in Nat
    /\ receivedPkts \in Nat
    /\ receivedSinceLastSR \in Nat
    /\ lastSRRseqNumber \in 0 .. SeqMod - 1
    /\ receiver \in {"receive", "since", "store", "count", "last"}
    /\ pkt \in Nat
    /\ sum \in Nat
    /\ sender \in {"sleep", "lost", "expected", "fraction", "clear", "mark", "high"}
    /\ last \in Int
    /\ expected \in Nat
    /\ report \in [lost : Nat, missing : Nat, fraction : Int, high : Nat]
    /\ delivered \in [Packets -> 0 .. Copies]
    /\ firstPkt \in {-1} \cup Packets

(* The cumulative loss of a report never exceeds the packets that are      *)
(* missing from the first to the newest, although packets are counted      *)
(* while the report is made, come twice, come late, and the sequence       *)
(* number wraps.  The exception is a first packet that had overtaken an    *)
(* older one: across the wrap that one looks newer by a whole cycle.       *)
LossNeverOverstated ==
    (\A k \in Arrived : k >= firstPkt) => report.lost <= report.missing

(* The extended highest sequence number that reports give never goes down. *)
HighestNeverFalls == [][report'.high >= report.high]_report

=============================================================================
