----------------------------- MODULE RtcpFeedback -----------------------------
(***************************************************************************)
(* When the RTCP sender thread reports, and what becomes of feedback and   *)
(* of application packets (rtp/RTCPSession.java, RTCPSenderThread.java,    *)
(* the fb... methods of RTPSession.java).  Feedback is queued and the      *)
(* sender interrupted in its sleep: depending on the size of the group it  *)
(* reports at once, once early, or sleeps on.                              *)
(*                                                                         *)
(* A tick is about fbMaxDelay, one second.  Delays are those of a session  *)
(* that knows four peers at most; how they grow with the bandwidth in a    *)
(* larger one is left out.  The sender thread works in no time and sleeps   *)
(* the ticks it asks for.  Every peer is a unicast         *)
(* receiver with an RTCP address; the application is one thread.  SSRC     *)
(* conflicts and the end of the session are left to SsrcConflict and       *)
(* RtpSession.                                                             *)
(***************************************************************************)
EXTENDS Integers, FiniteSets

CONSTANTS
    NumPeers,   (* the receivers, in the order of the list                     *)
    Formats,    (* the kinds of feedback                                       *)
    Groups,     (* the <<early, regular>> thresholds the application may set   *)
    MinDelay,   (* between two regular reports: 2500 to ...                    *)
    MaxDelay,   (* ... 6000 ms                                                 *)
    Room,       (* how many APP packets fit into a report's 1500 octets        *)
    MaxApps     (* bound: the APP packets of the application                   *)

ASSUME PeersAssumption == NumPeers \in Nat \ {0}
ASSUME GroupsAssumption == Groups \subseteq Nat \X Nat
ASSUME DelayAssumption == MinDelay \in Nat \ {0} /\ MaxDelay \in Nat /\ MinDelay <= MaxDelay
ASSUME AppsAssumption == Room \in Nat /\ MaxApps \in Nat

Peers == 1 .. NumPeers
Delays == MinDelay .. MaxDelay
NoOne == 0
Unregistered == <<-1, -1>>

VARIABLES
    thresholds,   (* fbEarlyThreshold and fbRegularThreshold                   *)
    ssrcTable,    (* the peers whose SSRC is known                             *)
    fbQueue,      (* the formats of the feedback waiting for each peer         *)
    appQueue,     (* the number of APP packets queued for each peer            *)
    fbWaiting,    (* the peer feedback was last asked for                      *)
    fbAllowEarly,
    caller,       (* the application's place in an fb... method and its peer   *)
    sender,       (* the sender thread: "asleep" or "dead"                     *)
    interrupted,  (* its interrupt flag                                        *)
    asleep,       (* how long its sleep has still to last                      *)
    nextDelay,
    sincePrev,    (* the time since prevTime                                   *)
    turn,         (* the next peer of its iterator                             *)
    sinceRegular, (* history: the time since it last came "the regular way"    *)
    useful        (* history: the feedback queued since the last tick          *)

queues == <<fbQueue, appQueue, useful>>
application == <<thresholds, ssrcTable, caller, fbWaiting>>
timing == <<asleep, nextDelay, sincePrev, sinceRegular>>
vars == <<queues, application, timing, fbAllowEarly, sender, interrupted, turn>>

(* RTCPSession.start *)
Init ==
    /\ thresholds = Unregistered
    /\ ssrcTable = {}
    /\ fbQueue = [p \in Peers |-> {}] /\ appQueue = [p \in Peers |-> 0]
    /\ fbWaiting = NoOne
    /\ fbAllowEarly = FALSE
    /\ caller = [at |-> "idle", peer |-> NoOne]
    /\ sender = "asleep" /\ interrupted = FALSE
    /\ nextDelay \in Delays /\ asleep = nextDelay
    /\ sincePrev = 0 /\ sinceRegular = 0
    /\ turn = 1
    /\ useful = {}

-----------------------------------------------------------------------------
(* The application and the peers *)

(* registerAVPFIntf and unregisterAVPFIntf                                 *)
Register(group) ==
    /\ caller.at = "idle"
    /\ thresholds' = group
    /\ UNCHANGED <<ssrcTable, caller, fbWaiting, queues, timing, fbAllowEarly, sender, interrupted,
                   turn>>

(* The first packet of a peer.                                             *)
Hears(p) ==
    /\ p \notin ssrcTable
    /\ ssrcTable' = ssrcTable \cup {p}
    /\ UNCHANGED <<thresholds, caller, fbWaiting, queues, timing, fbAllowEarly, sender, interrupted,
                   turn>>

(* sendRTCPAppPacket                                                       *)
QueueApp(p) ==
    /\ caller.at = "idle"
    /\ \A q \in Peers : appQueue[q] < MaxApps
    /\ appQueue' = [appQueue EXCEPT ![p] = @ + 1]
    /\ UNCHANGED <<fbQueue, useful, application, timing, fbAllowEarly, sender, interrupted, turn>>

(* An fb... method.  addToFbQueue takes any two packets of one format and  *)
(* media source for equivalent, whatever they ask for, and drops the new   *)
(* one (comparing two application layer messages even throws).             *)
QueueFeedback(p, f) ==
    /\ caller.at = "idle"
    /\ thresholds # Unregistered
    /\ f \notin fbQueue[p]
    /\ fbQueue' = [fbQueue EXCEPT ![p] = @ \cup {f}]
    /\ useful' = useful \cup {<<p, f>>}
    /\ caller' = [at |-> "names", peer |-> p]
    /\ UNCHANGED <<appQueue, thresholds, ssrcTable, fbWaiting, timing, fbAllowEarly, sender,
                   interrupted, turn>>

(* wakeSenderThread: there is room for one peer ...                        *)
NamesPeer ==
    /\ caller.at = "names"
    /\ fbWaiting' = caller.peer
    /\ caller' = [caller EXCEPT !.at = "interrupts"]
    /\ UNCHANGED <<thresholds, ssrcTable, queues, timing, fbAllowEarly, sender, interrupted, turn>>

(* ... and the interrupt reaches the thread now or at its next sleep.      *)
Interrupts ==
    /\ caller.at = "interrupts"
    /\ interrupted' = TRUE
    /\ caller' = [at |-> "idle", peer |-> NoOne]
    /\ UNCHANGED <<thresholds, ssrcTable, fbWaiting, queues, timing, fbAllowEarly, sender, turn>>

-----------------------------------------------------------------------------
(* The sender thread *)

GroupWithin(n) == Cardinality(ssrcTable) <= n \/ NumPeers <= n

fbSendImmediately == GroupWithin(thresholds[1])
fbSendEarly == GroupWithin(thresholds[2])

(* (A plausible error.)                                                    *)
NeverTooOld(p, f) == FALSE

(* Nothing sets the time of a feedback packet: it is still -1, long before *)
(* curTime - fbMaxDelay.                                                   *)
TooOld(p, f) == TRUE

(* getFromFbQueue removes what is too old; what it returns stays queued.   *)
FromFbQueue(p) == {f \in fbQueue[p] : ~TooOld(p, f)}

(* preparePacket and sending.  A report that is not regular has no APP     *)
(* packets; of them none is ever removed, and when they outgrow the buffer *)
(* of CompRtcpPkt.encode the exception ends the thread.                    *)
Report(p, regular) ==
    /\ fbQueue' = IF p \in ssrcTable THEN [fbQueue EXCEPT ![p] = FromFbQueue(p)] ELSE fbQueue
    /\ sender' = IF regular /\ p \in ssrcTable /\ appQueue[p] > Room THEN "dead" ELSE sender
    /\ UNCHANGED <<appQueue, useful>>

(* calculateDelay, and the sleep that follows                              *)
CalculateDelay ==
    /\ nextDelay' \in Delays
    /\ asleep' = nextDelay'
    /\ sincePrev' = 0

(* "Sleep for the remaining time": what has passed since prevTime goes off *)
(* nextDelay every time, as prevTime stays.                                *)
SleepOn ==
    /\ nextDelay' = IF nextDelay < sincePrev THEN 0 ELSE nextDelay - sincePrev
    /\ asleep' = nextDelay'
    /\ UNCHANGED sincePrev

SendsNow ==
    /\ fbWaiting \in ssrcTable
    /\ fbSendImmediately
    /\ Report(fbWaiting, FALSE)
    /\ SleepOn
    /\ UNCHANGED fbAllowEarly

(* (A plausible error.)                                                    *)
SendsEarlyAgain ==
    /\ fbWaiting \in ssrcTable
    /\ ~fbSendImmediately
    /\ fbAllowEarly /\ fbSendEarly
    /\ Report(fbWaiting, TRUE)
    /\ CalculateDelay
    /\ UNCHANGED fbAllowEarly

SendsEarly ==
    /\ fbWaiting \in ssrcTable
    /\ ~fbSendImmediately
    /\ fbAllowEarly /\ fbSendEarly
    /\ fbAllowEarly' = FALSE
    /\ Report(fbWaiting, TRUE)
    /\ CalculateDelay

OutOfLuck ==
    /\ \/ fbWaiting \notin ssrcTable
       \/ ~fbSendImmediately /\ ~(fbAllowEarly /\ fbSendEarly)
    /\ SleepOn
    /\ UNCHANGED <<queues, fbAllowEarly, sender>>

reconsiderTiming ==
    /\ sender = "asleep"
    /\ interrupted
    /\ SendsNow \/ SendsEarly \/ OutOfLuck
    /\ interrupted' = FALSE
    /\ UNCHANGED <<application, sinceRegular, turn>>

(* The regular way: the next peer of the list has its report.              *)
ReportsRegularly ==
    /\ sender = "asleep"
    /\ asleep = 0
    /\ fbAllowEarly' = TRUE
    /\ CalculateDelay
    /\ sinceRegular' = 0
    /\ Report(turn, TRUE)
    /\ turn' = (turn % NumPeers) + 1
    /\ UNCHANGED <<application, interrupted>>

Tick ==
    /\ sender = "asleep"
    /\ ~interrupted
    /\ asleep > 0
    /\ asleep' = asleep - 1
    /\ sincePrev' = sincePrev + 1
    /\ sinceRegular' = sinceRegular + 1
    /\ useful' = {}
    /\ UNCHANGED <<fbQueue, appQueue, application, nextDelay, fbAllowEarly, sender, interrupted,
                   turn>>

Next ==
    \/ \E group \in Groups \cup {Unregistered} : Register(group)
    \/ \E p \in Peers : Hears(p)
    \/ \E p \in Peers : QueueApp(p)
    \/ \E p \in Peers, f \in Formats : QueueFeedback(p, f)
    \/ NamesPeer
    \/ Interrupts
    \/ reconsiderTiming
    \/ ReportsRegularly
    \/ Tick

Spec == Init /\ [][Next]_vars

(* Time passes whatever feedback comes, and the sender thread runs.        *)
Fairness ==
    /\ SF_vars(Tick)
    /\ WF_vars(reconsiderTiming)
    /\ WF_vars(ReportsRegularly)

FairSpec == Spec /\ Fairness

-----------------------------------------------------------------------------
TypeOK ==
    /\ thresholds \in Groups \cup {Unregistered}
    /\ ssrcTable \subseteq Peers
    /\ fbQueue \in [Peers -> SUBSET Formats]
    /\ appQueue \in [Peers -> Nat]
    /\ fbWaiting \in Peers \cup {NoOne}
    /\ fbAllowEarly \in BOOLEAN
    /\ caller \in [at : {"idle", "names", "interrupts"}, peer : Peers \cup {NoOne}]
    /\ sender \in {"asleep", "dead"}
    /\ interrupted \in BOOLEAN
    /\ asleep \in Nat /\ nextDelay \in Nat
    /\ sincePrev \in Nat /\ sinceRegular \in Nat
    /\ turn \in Peers
    /\ useful \subseteq Peers \X Formats

(* However much feedback there is, and whatever the thresholds become: it  *)
(* postpones a regular report once, by one delay.  fbAllowEarly, the time  *)
(* taken off nextDelay and the new start of prevTime must play together.   *)
NotPostponedTwice == sinceRegular <= 2 * MaxDelay

(* No feedback for a peer that is known stays queued for ever and makes    *)
(* the application's further calls redundant, also when fbWaiting had been *)
(* overwritten before the sender woke, unless APP packets ended the thread.*)
QueueDrains ==
    \A p \in Peers, f \in Formats :
        f \in fbQueue[p] /\ p \in ssrcTable ~> f \notin fbQueue[p] \/ sender = "dead"

(* "all relevant feedback packets": what was queued less than fbMaxDelay   *)
(* ago ("how long the information is useful", RTPSession.java:151) is in   *)
(* the report that takes it out of the queue.                              *)
UsefulIsSent ==
    [][\A p \in Peers : \A f \in fbQueue[p] \ fbQueue'[p] :
          <<p, f>> \in useful => f \in FromFbQueue(p)]_vars

=============================================================================
