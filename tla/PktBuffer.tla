------------------------------ MODULE PktBuffer ------------------------------
(***************************************************************************)
(* The packet buffer of one RTP participant (rtp/PktBuffer.java with its   *)
(* nodes, rtp/PktBufNode.java): RTPReceiverThread puts every datagram of   *)
(* the participant in, AppCallerThread takes frames out.  addPkt and       *)
(* popOldestFrame are synchronized, so each is one action.                 *)
(*                                                                         *)
(* The linked list of frames is the sequence queue, oldest frame first; a  *)
(* frame is the chain of its packets, by ascending sequence number, with   *)
(* the pktCount of the chain's head.  A packet is its position in Stream,  *)
(* the order in which its sender produced it.                              *)
(*                                                                         *)
(* An exception no code catches ends the thread that runs into it: the     *)
(* thread is then "dead" and takes no further step.                        *)
(***************************************************************************)
EXTENDS Integers, Sequences, FiniteSets, SequencesExt

CONSTANTS
    Stream,    (* the packets of one sender, each [seq, ts], as sent           *)
    Behaviors, (* what packetBufferBehavior may set: >0 buffered, 0 filtered,  *)
               (* -1 raw                                                       *)
    Window,    (* a packet arrives after at most Window younger ones ...       *)
    Copies     (* ... and at most Copies times; it may also never arrive       *)

SeqNums == 0 .. 2^16 - 1   (* 16 bits on the wire *)
RtpPkts == [seq : SeqNums, ts : Nat]

ASSUME StreamAssumption == Stream \in Seq(RtpPkts)
ASSUME BehaviorAssumption == Behaviors \subseteq Nat \cup {-1}
ASSUME ChannelAssumption == Window \in Nat /\ Copies \in Nat \ {0}

VARIABLES
    pktBufBehavior, (* RTPSession.pktBufBehavior                               *)
    queue,      (* the frames from oldest to newest                            *)
    detached,   (* the nodes off the list that oldest leads to, oldest first   *)
    length,     (* PktBuffer.length                                            *)
    lastSeq,    (* lastSeqNumber, -1 before the first frame                    *)
    lastTs,     (* lastTimestamp                                               *)
    receiver,   (* RTPReceiverThread: "running" or "dead"                      *)
    appCaller,  (* AppCallerThread: "running" or "dead"                        *)
    arrived,    (* how often the network has delivered each packet             *)
    delivered   (* the frames given to RTPAppIntf.receiveData, in order        *)

vars == <<pktBufBehavior, queue, detached, length, lastSeq, lastTs, receiver, appCaller,
          arrived, delivered>>

Packets == 1 .. Len(Stream)
SeqNum(p) == Stream[p].seq
TimeStamp(p) == Stream[p].ts

(* A new PktBufNode stands for a frame of one packet. *)
NewNode(p) == [pkts |-> <<p>>, pktCount |-> 1]

(* The node that represents a frame in the list is its first packet's. *)
HeadPkt(f) == f.pkts[1]
newest == HeadPkt(queue[Len(queue)])

(* oldest is null although there is a list: left so by a pop that failed.  *)
NoNode == [pkts |-> <<>>, pktCount |-> 0]
Headless == detached = <<NoNode>>

(* What a node that lost its place in the list heads: so much of the chain *)
(* of the frame, from this node on, as the node has counted.               *)
RestOf(node) ==
    LET chain == queue[1].pkts
        from  == CHOOSE j \in DOMAIN chain : chain[j] = HeadPkt(node)
        to    == from + node.pktCount - 1
    IN  [pkts |-> SubSeq(chain, from, IF to < Len(chain) THEN to ELSE Len(chain)),
         pktCount |-> node.pktCount]

OldestFrame ==
    IF detached = <<>> THEN queue[1]
    ELSE IF Len(detached) = 1 THEN RestOf(detached[1]) ELSE detached[1]

oldest == HeadPkt(OldestFrame)

Init ==
    /\ pktBufBehavior \in Behaviors
    /\ queue = <<>>
    /\ detached = <<>>
    /\ length = 0
    /\ lastSeq = -1
    /\ lastTs = -1
    /\ receiver = "running"
    /\ appCaller = "running"
    /\ arrived = [p \in Packets |-> 0]
    /\ delivered = <<>>
-----------------------------------------------------------------------------
(* Adding a packet *)

Discard == UNCHANGED <<queue, detached, length, receiver>>

Enqueue(q) ==
    /\ queue' = q
    /\ length' = length + 1
    /\ UNCHANGED <<detached, receiver>>

BecomeOnly(p) ==
    /\ queue' = <<NewNode(p)>>
    /\ detached' = <<>>
    /\ length' = 1
    /\ UNCHANGED receiver

(* PktBuffer(rtpSession, p, aPkt): the buffer is made for its first packet. *)
NewBuffer(p) == BecomeOnly(p)

pktOnTime(p) ==
    \/ lastSeq = -1
    \/ SeqNum(p) >= lastSeq /\ ~(lastSeq < 3 /\ TimeStamp(p) < lastTs)
    \/ SeqNum(p) < lastSeq /\ SeqNum(p) <= 3 /\ TimeStamp(p) >= lastTs

(* addToFrame: pktCount goes up before the search for a duplicate, and a   *)
(* packet that becomes the head of the frame takes the frame's place in    *)
(* the list but not in the field oldest.                                   *)
addToFrameAtEnd(k, p) ==
    /\ queue' = [queue EXCEPT ![k] = [pkts |-> Append(@.pkts, p), pktCount |-> @.pktCount + 1]]
    /\ length' = length + 1
    /\ UNCHANGED <<detached, receiver>>

addToFrame(k, p) ==
    LET frame   == queue[k]
        smaller == {j \in DOMAIN frame.pkts : SeqNum(frame.pkts[j]) < SeqNum(p)}
        twin    == \E j \in DOMAIN frame.pkts : SeqNum(frame.pkts[j]) = SeqNum(p)
        chain   == IF twin THEN frame.pkts
                   ELSE InsertAt(frame.pkts, Cardinality(smaller) + 1, p)
    IN  /\ queue' = [queue EXCEPT ![k] = [pkts |-> chain, pktCount |-> @.pktCount + 1]]
        /\ detached' = IF k = 1 /\ smaller = {} /\ detached = <<>>
                       THEN <<frame>> ELSE detached
        /\ length' = IF twin THEN length ELSE length + 1
        /\ UNCHANGED receiver

(* Where the search from newest towards oldest stops: at the first frame   *)
(* that is not younger than the packet.                                    *)
PlaceBySeq(p) ==
    {k \in DOMAIN queue : /\ SeqNum(HeadPkt(queue[k])) <= SeqNum(p) + 1
                          /\ \A j \in DOMAIN queue : j > k => SeqNum(HeadPkt(queue[j])) > SeqNum(p) + 1}

Place(p) ==
    {k \in DOMAIN queue : /\ TimeStamp(HeadPkt(queue[k])) <= TimeStamp(p)
                          /\ \A j \in DOMAIN queue :
                                j > k => TimeStamp(HeadPkt(queue[j])) > TimeStamp(p)}

(* The search runs off the end of the list when every frame is younger.    *)
Insert(p) ==
    \/ /\ Place(p) = {}
       /\ receiver' = "dead"
       /\ UNCHANGED <<queue, detached, length>>
    \/ \E k \in Place(p) :
          LET tmp == HeadPkt(queue[k])
          IN  \/ /\ TimeStamp(tmp) # TimeStamp(p)
                 /\ Enqueue(InsertAt(queue, k + 1, NewNode(p)))
              \/ /\ TimeStamp(tmp) = TimeStamp(p)
                 /\ SeqNum(tmp) # SeqNum(p)
                 /\ addToFrame(k, p)
              \/ /\ TimeStamp(tmp) = TimeStamp(p)
                 /\ SeqNum(tmp) = SeqNum(p)
                 /\ Discard

bufferedAddPktTsOnly(p) ==
    \/ length = 0 /\ BecomeOnly(p)
    \/ /\ length # 0
       /\ IF TimeStamp(p) > TimeStamp(newest)
          THEN Enqueue(Append(queue, NewNode(p)))
          ELSE IF pktOnTime(p) THEN Insert(p) ELSE Discard

bufferedAddPkt(p) ==
    \/ length = 0 /\ BecomeOnly(p)
    \/ /\ length # 0
       /\ LET inOrder == \/ TimeStamp(p) > TimeStamp(newest)
                         \/ SeqNum(p) > SeqNum(newest)
          IN  \/ inOrder /\ Enqueue(Append(queue, NewNode(p)))
              \/ ~inOrder /\ ~pktOnTime(p) /\ Discard
              \/ ~inOrder /\ pktOnTime(p) /\ Insert(p)

filteredAddPkt(p) ==
    \/ length = 0 /\ BecomeOnly(p)
    \/ /\ length # 0
       /\ LET inOrder == \/ TimeStamp(p) > TimeStamp(newest)
                         \/ /\ SeqNum(p) > SeqNum(newest)
                            /\ SeqNum(p) - SeqNum(newest) < 10
          IN  IF inOrder THEN Enqueue(Append(queue, NewNode(p))) ELSE Discard

(* unfilteredAddPkt links the packet behind oldest, on the list or off it, *)
(* and counts nothing.  Without an oldest it begins another list.          *)
unfilteredAddPkt(p) ==
    /\ \/ /\ detached = <<>>
          /\ queue' = <<NewNode(p)>> \o queue
          /\ UNCHANGED detached
       \/ /\ Headless
          /\ queue' = <<NewNode(p)>>
          /\ detached' = <<>>
       \/ /\ detached # <<>> /\ ~Headless
          /\ detached' = <<NewNode(p)>> \o detached
          /\ UNCHANGED queue
    /\ UNCHANGED <<length, receiver>>

addPkt(p) ==
    \/ pktBufBehavior > 0 /\ bufferedAddPkt(p)
    \/ pktBufBehavior = 0 /\ filteredAddPkt(p)
    \/ pktBufBehavior = -1 /\ unfilteredAddPkt(p)

NoBuffer == \A q \in Packets : arrived[q] = 0

(* RTPReceiverThread.run, for a datagram of this participant.              *)
Receive(p) ==
    /\ receiver = "running"
    /\ arrived[p] < Copies
    /\ \A q \in Packets : arrived[q] > 0 => q <= p + Window
    /\ arrived' = [arrived EXCEPT ![p] = @ + 1]
    /\ IF NoBuffer THEN NewBuffer(p) ELSE addPkt(p)
    /\ UNCHANGED <<pktBufBehavior, lastSeq, lastTs, appCaller, delivered>>
-----------------------------------------------------------------------------
(* Taking a frame out *)

(* popFrameQueueCleanup fails when the list ends before the count does:    *)
(* what oldest refers to has no newer node.                                *)
EndOfList == IF detached = <<>> THEN Len(queue) < 2 ELSE Len(detached) = 1
CleanupFailsOnLast == EndOfList
CleanupFails == length # 1 /\ EndOfList

(* DataFrame(PktBufNode ...) follows the chain for pktCount packets.       *)
FrameFails(f) == f.pktCount > Len(f.pkts)

CleanupKeepsFrame(f, highestSeq) ==
    /\ length' = length - 1
    /\ lastSeq' = highestSeq
    /\ lastTs' = TimeStamp(HeadPkt(f))
    /\ UNCHANGED <<queue, detached>>

popFrameQueueCleanup(f, highestSeq) ==
    /\ length' = length - 1
    /\ queue' = IF length = 1 THEN <<>> ELSE IF detached = <<>> THEN Tail(queue) ELSE queue
    /\ detached' = IF length = 1 \/ detached = <<>> THEN <<>> ELSE Tail(detached)
    /\ lastSeq' = highestSeq
    /\ lastTs' = TimeStamp(HeadPkt(f))

HandOver(f) == delivered' = Append(delivered, f.pkts) /\ UNCHANGED appCaller

(* The exceptions of a pop: the frame is not handed over.                  *)
PopFails == appCaller' = "dead" /\ UNCHANGED delivered

PopFailsInCleanup ==
    /\ PopFails
    /\ detached' = <<NoNode>>
    /\ UNCHANGED <<queue, length, lastSeq, lastTs>>

(* With a limit the frame is built before it leaves the list, and its last *)
(* number is kept; without one it leaves first, and its first is kept.     *)
bufferedPopFrame(f) ==
    \/ /\ FrameFails(f)
       /\ PopFails
       /\ UNCHANGED <<queue, detached, length, lastSeq, lastTs>>
    \/ ~FrameFails(f) /\ CleanupFails /\ PopFailsInCleanup
    \/ /\ ~FrameFails(f) /\ ~CleanupFails
       /\ popFrameQueueCleanup(f, SeqNum(f.pkts[Len(f.pkts)]))
       /\ HandOver(f)

unbufferedPopFrame(f) ==
    \/ CleanupFails /\ PopFailsInCleanup
    \/ /\ ~CleanupFails
       /\ popFrameQueueCleanup(f, SeqNum(HeadPkt(f)))
       /\ IF FrameFails(f) THEN PopFails ELSE HandOver(f)

ReadyToPopAtLimit ==
    \/ SeqNum(oldest) = lastSeq + 1
    \/ SeqNum(oldest) = 0
    \/ length >= pktBufBehavior
    \/ lastSeq < 0

ReadyToPop ==
    \/ SeqNum(oldest) = lastSeq + 1
    \/ SeqNum(oldest) = 0
    \/ length > pktBufBehavior
    \/ lastSeq < 0

FrameAvailable == length > 0

(* One round of the inner loop of AppCallerThread.run.                     *)
PopOldestFrame ==
    /\ appCaller = "running"
    /\ FrameAvailable
    /\ \/ pktBufBehavior > 0 /\ ReadyToPop /\ bufferedPopFrame(OldestFrame)
       \/ pktBufBehavior <= 0 /\ unbufferedPopFrame(OldestFrame)
    /\ UNCHANGED <<pktBufBehavior, receiver, arrived>>
-----------------------------------------------------------------------------
(* RTPSession.packetBufferBehavior(behavior), at any time of the session.  *)
SetBehavior(b) ==
    /\ b # pktBufBehavior
    /\ pktBufBehavior' = b
    /\ UNCHANGED <<queue, detached, length, lastSeq, lastTs, receiver, appCaller,
                   arrived, delivered>>

Next ==
    \/ PopOldestFrame
    \/ \E p \in Packets : Receive(p)
    \/ \E b \in Behaviors : SetBehavior(b)

Spec == Init /\ [][Next]_vars
-----------------------------------------------------------------------------
Frames == [pkts : Seq(Packets) \ {<<>>}, pktCount : Nat \ {0}]

TypeOK ==
    /\ pktBufBehavior \in Behaviors
    /\ queue \in Seq(Frames)
    /\ detached \in Seq(Frames) \cup {<<NoNode>>}
    /\ length \in Nat
    /\ (lastSeq \in SeqNums \/ lastSeq = -1)
    /\ lastTs \in Nat \cup {-1}
    /\ receiver \in {"running", "dead"}
    /\ appCaller \in {"running", "dead"}
    /\ arrived \in [Packets -> 0 .. Copies]
    /\ delivered \in Seq(Seq(Packets))

(* Of each frame one packet at most has arrived.                           *)
OnePacketFrames ==
    \A p, q \in Packets :
        arrived[p] > 0 /\ arrived[q] > 0 /\ p # q => TimeStamp(p) # TimeStamp(q)

(* All that have arrived were sent between two wraps.                      *)
BetweenWraps ==
    \A p, q \in Packets : arrived[p] > 0 /\ arrived[q] > 0 /\ p < q =>
        TimeStamp(p) < TimeStamp(q) /\ SeqNum(p) < SeqNum(q)

(* length counts the frames on the list.  popFrameQueueCleanup relies on   *)
(* it to know the last frame, AppCallerThread to know there is a frame.    *)
LengthIsExact == length = Len(queue)

ListOrdered ==
    \A j, k \in DOMAIN queue : j < k => HeadPkt(queue[j]) < HeadPkt(queue[k])

(* The list is in the order of time: whatever order the packets came in,   *)
(* the next frame popped is the oldest one buffered.  Packets on either    *)
(* side of a wrap are put in a wrong order, and a raw packet, which length *)
(* does not count, in none.                                                *)
QueueOrdered == BetweenWraps /\ LengthIsExact => ListOrdered

(* What addPkt accepted is on the list or was given to the application:    *)
(* adding, inserting and popping lose and duplicate nothing.               *)
NothingLost ==
    LET accepted == {p \in Packets : arrived[p] > 0}
        held == UNION {ToSet(queue[k].pkts) : k \in DOMAIN queue}
        given == UNION {ToSet(delivered[k]) : k \in DOMAIN delivered}
    IN  accepted = held \cup given

(* A frame is the packets of one timestamp by ascending sequence number:   *)
(* addToFrame finds the right place whatever order they came in.           *)
FramesSorted ==
    \A k \in DOMAIN queue : \A a, b \in DOMAIN queue[k].pkts :
        /\ TimeStamp(queue[k].pkts[a]) = TimeStamp(queue[k].pkts[b])
        /\ a < b => SeqNum(queue[k].pkts[a]) < SeqNum(queue[k].pkts[b])

(* No sequence of packets makes popOldestFrame throw in AppCallerThread,   *)
(* as long as no two are of one frame.                                     *)
AppCallerSurvives == OnePacketFrames => appCaller = "running"

(* Packets reach the application once and in the order they were sent      *)
(* (PktBuffer.java:176: "put in order, duplicate packets or late arrivals  *)
(* are discarded").                                                        *)
InOrderDelivery ==
    \A j, k \in DOMAIN delivered :
        /\ \A a, b \in DOMAIN delivered[j] : a < b => delivered[j][a] < delivered[j][b]
        /\ j < k => delivered[j][Len(delivered[j])] < delivered[k][1]

(* The promise of the class comment, see JitterBuffer: refined whenever    *)
(* the network only loses packets.                                         *)
Promise == INSTANCE JitterBuffer WITH
               Sent <- Len(Stream),
               depth <- IF pktBufBehavior < 0 THEN 0 ELSE pktBufBehavior,
               pending <- UNION {ToSet(queue[k].pkts) : k \in DOMAIN queue},
               released <- [k \in DOMAIN delivered |-> delivered[k][1]]
KeepsPromise == Promise!Spec
=============================================================================
