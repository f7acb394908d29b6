------------------------------ MODULE RtpSession ------------------------------
(***************************************************************************)
(* The threads of one RTP session (rtp/RTPSession.java) from               *)
(* RTPSessionRegister, which starts them, to endSession, which must stop   *)
(* them: RTPReceiverThread stores packets and signals, AppCallerThread     *)
(* waits for the signal and gives the packets to the application, and the  *)
(* two RTCP threads.  pc[t] says where thread t is in its run().           *)
(*                                                                         *)
(* A packet that can be popped is a count, stored[p]: PktBuffer has the    *)
(* order.  The threads that register and end the session are the           *)
(* application's.                                                          *)
(***************************************************************************)
EXTENDS Integers, FiniteSets

CONSTANTS
    Participants,  (* the senders                                         *)
    MaxPkts        (* bound: how many packets arrive in all               *)

ASSUME ParticipantsAssumption == IsFiniteSet(Participants)
ASSUME MaxPktsAssumption == MaxPkts \in Nat

Threads == {"receiver", "appCaller", "rtcpReceiver", "rtcpSender"}
NoThread == "none"

VARIABLES
    sharedSocket,  (* the RTCP socket given to RTPSession is the RTP socket      *)
    endSession,    (* RTPSession.endSession                                      *)
    open,          (* the sockets that are not closed                            *)
    lock,          (* who holds pktBufLock                                       *)
    interrupted,   (* the threads with a pending interrupt                       *)
    pc,            (* where each thread is                                       *)
    app,           (* where the call of endSession is                            *)
    stored,        (* the packets waiting in each participant's buffer           *)
    toVisit,       (* the participants AppCallerThread has yet to look at        *)
    arrivals,      (* how many packets have arrived                              *)
    bye            (* the BYE packets of the end: "unsent", "sent" or "failed"   *)

vars == <<sharedSocket, endSession, open, lock, interrupted, pc, app, stored,
          toVisit, arrivals, bye>>

data == <<stored, toVisit, arrivals, bye>>
session == <<sharedSocket, endSession, open>>

Goto(t, l) == pc' = [pc EXCEPT ![t] = l]

Init ==
    /\ sharedSocket \in BOOLEAN
    /\ endSession = FALSE
    /\ open = {"rtp", "rtcp"}
    /\ lock = NoThread
    /\ interrupted = {}
    /\ pc = [t \in Threads |-> "unborn"]
    /\ app = "running"
    /\ stored = [p \in Participants |-> 0]
    /\ toVisit = {}
    /\ arrivals = 0
    /\ bye = "unsent"

Lock(t) == lock = NoThread /\ lock' = t
Unlock(t) == lock = t /\ lock' = NoThread

(* pktBufDataReady.signalAll(): only AppCallerThread ever waits.           *)
signalAll ==
    IF pc["appCaller"] = "waiting" THEN [pc EXCEPT !["appCaller"] = "reacquire"] ELSE pc

(* while(!endSession): the loop of each thread either goes on or ends.     *)
Loop(t, body, end) ==
    /\ pc[t] = "check"
    /\ Goto(t, IF endSession THEN end ELSE body)
    /\ UNCHANGED <<session, lock, interrupted, app, data>>
-----------------------------------------------------------------------------
(* RTPSessionRegister *)

StartReceiver ==
    /\ pc["receiver"] = "unborn"
    /\ Goto("receiver", "check")
    /\ UNCHANGED <<session, lock, interrupted, app, data>>

StartAppCaller ==
    /\ pc["receiver"] # "unborn"
    /\ pc["appCaller"] = "unborn"
    /\ Goto("appCaller", "check")
    /\ UNCHANGED <<session, lock, interrupted, app, data>>

(* RTCPSession.start assigns both threads before it starts them.           *)
CreateRtcpThreads ==
    /\ pc["appCaller"] # "unborn"
    /\ pc["rtcpSender"] = "unborn"
    /\ pc' = [pc EXCEPT !["rtcpReceiver"] = "created", !["rtcpSender"] = "created"]
    /\ UNCHANGED <<session, lock, interrupted, app, data>>

StartRtcpReceiver ==
    /\ pc["rtcpReceiver"] = "created"
    /\ Goto("rtcpReceiver", "check")
    /\ UNCHANGED <<session, lock, interrupted, app, data>>

StartRtcpSender ==
    /\ pc["rtcpReceiver"] \notin {"unborn", "created"}
    /\ pc["rtcpSender"] = "created"
    /\ Goto("rtcpSender", "rest")
    /\ UNCHANGED <<session, lock, interrupted, app, data>>

Register ==
    StartReceiver \/ StartAppCaller \/ CreateRtcpThreads \/ StartRtcpReceiver \/ StartRtcpSender
-----------------------------------------------------------------------------
(* RTPReceiverThread *)

ReceiverLoop == Loop("receiver", "receive", "done")

ReceiverStores(p) ==
    /\ pc["receiver"] = "receive"
    /\ "rtp" \in open
    /\ arrivals < MaxPkts
    /\ arrivals' = arrivals + 1
    /\ stored' = [stored EXCEPT ![p] = @ + 1]
    /\ Goto("receiver", "lock")
    /\ UNCHANGED <<session, lock, interrupted, app, toVisit, bye>>

(* receive() throws once the socket is closed, and endSession is set then. *)
ReceiverSocketClosed ==
    /\ pc["receiver"] = "receive"
    /\ "rtp" \notin open
    /\ Goto("receiver", "check")
    /\ UNCHANGED <<session, lock, interrupted, app, data>>

ReceiverLocks ==
    /\ pc["receiver"] = "lock"
    /\ Lock("receiver")
    /\ Goto("receiver", "signal")
    /\ UNCHANGED <<session, interrupted, app, data>>

ReceiverSignalsNobody ==
    /\ pc["receiver"] = "signal"
    /\ Unlock("receiver")
    /\ Goto("receiver", "check")
    /\ UNCHANGED <<session, interrupted, app, data>>

ReceiverSignals ==
    /\ pc["receiver"] = "signal"
    /\ Unlock("receiver")
    /\ pc' = [signalAll EXCEPT !["receiver"] = "check"]
    /\ UNCHANGED <<session, interrupted, app, data>>
-----------------------------------------------------------------------------
(* AppCallerThread *)

CallerLoop == Loop("appCaller", "lock", "done")

CallerLocks ==
    /\ pc["appCaller"] = "lock"
    /\ Lock("appCaller")
    /\ Goto("appCaller", "await")
    /\ UNCHANGED <<session, interrupted, app, data>>

StartDrain == toVisit' = Participants /\ UNCHANGED <<stored, arrivals, bye>>

(* await() throws at once when an interrupt is pending; the exception is   *)
(* caught and the participants are looked at all the same.                 *)
CallerAwaitThrows ==
    /\ pc["appCaller"] = "await"
    /\ "appCaller" \in interrupted
    /\ interrupted' = interrupted \ {"appCaller"}
    /\ Goto("appCaller", "drain")
    /\ StartDrain
    /\ UNCHANGED <<session, lock, app>>

CallerAwaits ==
    /\ pc["appCaller"] = "await"
    /\ "appCaller" \notin interrupted
    /\ Unlock("appCaller")
    /\ Goto("appCaller", "waiting")
    /\ UNCHANGED <<session, interrupted, app, data>>

CallerInterrupted ==
    /\ pc["appCaller"] = "waiting"
    /\ "appCaller" \in interrupted
    /\ interrupted' = interrupted \ {"appCaller"}
    /\ Goto("appCaller", "reacquire")
    /\ UNCHANGED <<session, lock, app, data>>

CallerWakesSpuriously ==
    /\ pc["appCaller"] = "waiting"
    /\ Goto("appCaller", "reacquire")
    /\ UNCHANGED <<session, lock, interrupted, app, data>>

CallerReacquiresAnyway ==
    /\ pc["appCaller"] = "reacquire"
    /\ lock' = "appCaller"
    /\ Goto("appCaller", "drain")
    /\ StartDrain
    /\ UNCHANGED <<session, interrupted, app>>

CallerReacquires ==
    /\ pc["appCaller"] = "reacquire"
    /\ Lock("appCaller")
    /\ Goto("appCaller", "drain")
    /\ StartDrain
    /\ UNCHANGED <<session, interrupted, app>>

(* One callback: receiveData runs while pktBufLock is held.                *)
CallerDelivers(p) ==
    /\ pc["appCaller"] = "drain"
    /\ p \in toVisit
    /\ stored[p] > 0
    /\ stored' = [stored EXCEPT ![p] = @ - 1]
    /\ UNCHANGED <<session, lock, interrupted, pc, app, toVisit, arrivals, bye>>

CallerLeaves(p) ==
    /\ pc["appCaller"] = "drain"
    /\ p \in toVisit
    /\ stored[p] = 0
    /\ toVisit' = toVisit \ {p}
    /\ UNCHANGED <<session, lock, interrupted, pc, app, stored, arrivals, bye>>

CallerUnlocks ==
    /\ pc["appCaller"] = "drain"
    /\ toVisit = {}
    /\ Unlock("appCaller")
    /\ Goto("appCaller", "check")
    /\ UNCHANGED <<session, interrupted, app, data>>
-----------------------------------------------------------------------------
(* RTCPReceiverThread *)

RtcpReceiverLoop == Loop("rtcpReceiver", "receive", "done")

(* On a shared socket it may get an RTP packet, which is then lost.        *)
RtcpReceiverParses ==
    /\ pc["rtcpReceiver"] = "receive"
    /\ "rtcp" \in open
    /\ Goto("rtcpReceiver", "check")
    /\ UNCHANGED <<session, lock, interrupted, app, data>>

RtcpReceiverSocketClosed ==
    /\ pc["rtcpReceiver"] = "receive"
    /\ "rtcp" \notin open
    /\ Goto("rtcpReceiver", "check")
    /\ UNCHANGED <<session, lock, interrupted, app, data>>
-----------------------------------------------------------------------------
(* RTCPSenderThread *)

(* The first rest, and each wait for nextDelay: an interrupt ends it, but  *)
(* the report is only left out when the session has ended.                 *)
SenderSleeps(from, to) ==
    /\ pc["rtcpSender"] = from
    /\ interrupted' = interrupted \ {"rtcpSender"}
    /\ Goto("rtcpSender", to)
    /\ UNCHANGED <<session, lock, app, data>>

SenderRests == SenderSleeps("rest", "check")

SenderLoop == Loop("rtcpSender", "sleep", "bye")

SenderWakes == "rtcpSender" \notin interrupted /\ SenderSleeps("sleep", "report")

SenderInterrupted ==
    /\ "rtcpSender" \in interrupted
    /\ SenderSleeps("sleep", IF endSession THEN "check" ELSE "report")

(* A report that cannot be sent is only logged.                            *)
SenderReports ==
    /\ pc["rtcpSender"] = "report"
    /\ Goto("rtcpSender", "check")
    /\ UNCHANGED <<session, lock, interrupted, app, data>>

SendByes ==
    /\ pc["rtcpSender"] = "bye"
    /\ bye' = IF "rtcp" \in open THEN "sent" ELSE "failed"
    /\ Goto("rtcpSender", "done")
    /\ UNCHANGED <<session, lock, interrupted, app, stored, toVisit, arrivals>>
-----------------------------------------------------------------------------
(* endSession *)

Close(s) == open' = open \ (IF sharedSocket THEN {"rtp", "rtcp"} ELSE {s})

(* interrupt() on a thread that has not started or has ended does nothing. *)
Interrupt(t) ==
    interrupted' = IF pc[t] \in {"unborn", "created", "done"} THEN interrupted
                   ELSE interrupted \cup {t}

EndBegins ==
    /\ app = "running"
    /\ endSession' = TRUE
    /\ app' = "close"
    /\ UNCHANGED <<sharedSocket, open, lock, interrupted, pc, data>>

EndClosesRtp ==
    /\ app = "close"
    /\ Close("rtp")
    /\ app' = "lock"
    /\ UNCHANGED <<sharedSocket, endSession, lock, interrupted, pc, data>>

EndLocks ==
    /\ app = "lock"
    /\ Lock("app")
    /\ app' = "signal"
    /\ UNCHANGED <<session, interrupted, pc, data>>

EndSignals ==
    /\ app = "signal"
    /\ Unlock("app")
    /\ pc' = signalAll
    /\ app' = "interruptSender"
    /\ UNCHANGED <<session, interrupted, data>>

EndInterruptsSender ==
    /\ app = "interruptSender"
    /\ pc["rtcpSender"] # "unborn"
    /\ Interrupt("rtcpSender")
    /\ app' = "interruptCaller"
    /\ UNCHANGED <<session, lock, pc, data>>

(* rtcpSession.senderThrd is null until RTPSessionRegister has got there:  *)
(* endSession throws and does no more.                                     *)
EndThrows ==
    /\ app = "interruptSender"
    /\ pc["rtcpSender"] = "unborn"
    /\ app' = "threw"
    /\ UNCHANGED <<session, lock, interrupted, pc, data>>

EndSkipsCaller ==
    /\ app = "interruptCaller"
    /\ app' = "closeRtcp"
    /\ UNCHANGED <<session, lock, interrupted, pc, data>>

EndInterruptsCaller ==
    /\ app = "interruptCaller"
    /\ Interrupt("appCaller")
    /\ app' = "closeRtcp"
    /\ UNCHANGED <<session, lock, pc, data>>

EndClosesRtcp ==
    /\ app = "closeRtcp"
    /\ Close("rtcp")
    /\ app' = "returned"
    /\ UNCHANGED <<sharedSocket, endSession, lock, interrupted, pc, data>>
-----------------------------------------------------------------------------
Receiver ==
    \/ ReceiverLoop \/ ReceiverSocketClosed \/ ReceiverLocks \/ ReceiverSignals
    \/ \E p \in Participants : ReceiverStores(p)
AppCaller ==
    \/ CallerLoop \/ CallerLocks \/ CallerAwaitThrows \/ CallerAwaits \/ CallerInterrupted
    \/ CallerReacquires \/ CallerUnlocks
    \/ \E p \in Participants : CallerDelivers(p) \/ CallerLeaves(p)
RtcpReceiver == RtcpReceiverLoop \/ RtcpReceiverParses \/ RtcpReceiverSocketClosed
RtcpSender ==
    SenderRests \/ SenderLoop \/ SenderWakes \/ SenderInterrupted \/ SenderReports \/ SendByes
EndSession ==
    \/ EndClosesRtp \/ EndLocks \/ EndSignals \/ EndInterruptsSender \/ EndThrows
    \/ EndInterruptsCaller \/ EndClosesRtcp

(* All threads have ended and endSession is over.                          *)
Terminated ==
    /\ app \in {"returned", "threw"}
    /\ \A t \in Threads : pc[t] = "done"
    /\ UNCHANGED vars

Next ==
    \/ Register \/ Receiver \/ AppCaller \/ RtcpReceiver \/ RtcpSender
    \/ EndBegins \/ EndSession \/ CallerWakesSpuriously \/ Terminated

Spec == Init /\ [][Next]_vars

(* Every thread runs whenever it can.  A lock is given to a thread that    *)
(* asks for it again and again: waiting threads queue.  Packets, the end   *)
(* of the session and spurious wake-ups are not promised.                  *)
FairSpec ==
    /\ Spec
    /\ WF_vars(Register)
    /\ WF_vars(ReceiverLoop \/ ReceiverSocketClosed \/ ReceiverSignals)
    /\ WF_vars(AppCaller)
    /\ WF_vars(RtcpReceiverLoop \/ RtcpReceiverSocketClosed)
    /\ WF_vars(RtcpSender)
    /\ WF_vars(EndSession)
    /\ SF_vars(ReceiverLocks) /\ SF_vars(CallerLocks) /\ SF_vars(CallerReacquires)
    /\ SF_vars(EndLocks)
-----------------------------------------------------------------------------
TypeOK ==
    /\ sharedSocket \in BOOLEAN
    /\ endSession \in BOOLEAN
    /\ open \subseteq {"rtp", "rtcp"}
    /\ lock \in Threads \cup {"app", NoThread}
    /\ interrupted \subseteq Threads
    /\ pc \in [Threads -> {"unborn", "created", "rest", "check", "receive", "lock", "signal",
                           "await", "waiting", "reacquire", "drain", "sleep", "report",
                           "bye", "done"}]
    /\ app \in {"running", "close", "lock", "signal", "interruptSender", "interruptCaller",
                "closeRtcp", "returned", "threw"}
    /\ stored \in [Participants -> Nat]
    /\ toVisit \subseteq Participants
    /\ arrivals \in Nat
    /\ bye \in {"unsent", "sent", "failed"}

(* pktBufLock is held exactly by the thread that is between its lock() and *)
(* its unlock() or await(): the callbacks of AppCallerThread never overlap *)
(* a signal, and no path leaves the lock behind.                           *)
LockMatchesCode ==
    /\ lock = "receiver" <=> pc["receiver"] = "signal"
    /\ lock = "appCaller" <=> pc["appCaller"] \in {"await", "drain"}
    /\ lock = "app" <=> app = "signal"

(* A signal is not lost on a caller that waits: what was stored by then is *)
(* handed over.                                                            *)
SignalledDrains ==
    \A p \in Participants :
        (stored[p] > 0 /\ pc["receiver"] = "lock" /\ pc["appCaller"] = "waiting")
            ~> stored[p] = 0

(* endSession comes back and "will halt all threads" (RTPSession.java:480), *)
(* unless it throws: it gets past pktBufLock, and no thread sleeps, waits   *)
(* or receives forever after it, whichever check of endSession it had just *)
(* passed.                                                                 *)
AllThreadsStop ==
    app = "close" ~> app = "threw" \/ (app = "returned" /\ \A t \in Threads : pc[t] = "done")

(* No interrupt is swallowed by the wrong wait: while the caller may still *)
(* sleep, either its interrupt is to come, or is pending.                  *)
InterruptStands ==
    app = "returned" /\ pc["appCaller"] \in {"lock", "await", "waiting"}
        => "appCaller" \in interrupted

(* "Whenever an RTP packet is received it will loop over the participants  *)
(* to check for packet buffers that have available frame"                  *)
(* (AppCallerThread.java:58).                                              *)
EveryPacketReachesApp ==
    \A p \in Participants : stored[p] > 0 ~> stored[p] = 0 \/ endSession
=============================================================================
