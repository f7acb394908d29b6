--------------------------- MODULE RtpSessionProofs ---------------------------
(* Theorems about RtpSession, for any number of participants and packets.  *)
EXTENDS RtpSession, TLAPS

(* What each thread's place says about the lock, and the end of session    *)
(* about the threads: a thread exists before endSession interrupts it, and *)
(* an AppCallerThread that may still sleep has its interrupt pending.      *)
EndOrder ==
    /\ endSession <=> app # "running"
    /\ pc["rtcpSender"] # "unborn" => pc["appCaller"] # "unborn"
    /\ pc["appCaller"] # "created"
    /\ app \in {"interruptCaller", "closeRtcp", "returned"} => pc["rtcpSender"] # "unborn"
    /\ app \in {"closeRtcp", "returned"} /\ pc["appCaller"] \in {"lock", "await", "waiting"}
          => "appCaller" \in interrupted

IInv == TypeOK /\ LockMatchesCode /\ EndOrder

USE DEF session, data, Threads, NoThread

LEMMA SessionInit == Init => IInv
<1> SUFFICES ASSUME Init PROVE IInv
  OBVIOUS
<1>1. TypeOK
  BY DEF Init, TypeOK
<1>2. LockMatchesCode
  BY DEF Init, LockMatchesCode
<1>3. EndOrder
  BY DEF Init, EndOrder
<1>4. QED
  BY <1>1, <1>2, <1>3 DEF IInv

LEMMA RegisterStep ==
    ASSUME IInv, Register
    PROVE  IInv'
<1>1. CASE StartReceiver
  BY <1>1 DEF IInv, TypeOK, LockMatchesCode, EndOrder, StartReceiver, Goto
<1>2. CASE StartAppCaller
  BY <1>2 DEF IInv, TypeOK, LockMatchesCode, EndOrder, StartAppCaller, Goto
<1>3. CASE CreateRtcpThreads
  BY <1>3 DEF IInv, TypeOK, LockMatchesCode, EndOrder, CreateRtcpThreads
<1>4. CASE StartRtcpReceiver
  BY <1>4 DEF IInv, TypeOK, LockMatchesCode, EndOrder, StartRtcpReceiver, Goto
<1>5. CASE StartRtcpSender
  BY <1>5 DEF IInv, TypeOK, LockMatchesCode, EndOrder, StartRtcpSender, Goto
<1>6. QED
  BY <1>1, <1>2, <1>3, <1>4, <1>5 DEF Register

LEMMA ReceiverStep ==
    ASSUME IInv, Receiver
    PROVE  IInv'
<1>1. CASE ReceiverLoop
  BY <1>1 DEF IInv, TypeOK, LockMatchesCode, EndOrder, ReceiverLoop, Loop, Goto
<1>2. CASE ReceiverSocketClosed
  BY <1>2 DEF IInv, TypeOK, LockMatchesCode, EndOrder, ReceiverSocketClosed, Goto
<1>3. CASE ReceiverLocks
  BY <1>3 DEF IInv, TypeOK, LockMatchesCode, EndOrder, ReceiverLocks, Lock, Goto
<1>4. CASE ReceiverSignals
  BY <1>4 DEF IInv, TypeOK, LockMatchesCode, EndOrder, ReceiverSignals, Unlock, signalAll
<1>5. ASSUME NEW p \in Participants, ReceiverStores(p)
      PROVE  IInv'
  BY <1>5 DEF IInv, TypeOK, LockMatchesCode, EndOrder, ReceiverStores, Goto
<1>6. QED
  BY <1>1, <1>2, <1>3, <1>4, <1>5 DEF Receiver

LEMMA AppCallerStep ==
    ASSUME IInv, AppCaller \/ CallerWakesSpuriously
    PROVE  IInv'
<1>1. CASE CallerLoop
  BY <1>1 DEF IInv, TypeOK, LockMatchesCode, EndOrder, CallerLoop, Loop, Goto
<1>2. CASE CallerLocks
  BY <1>2 DEF IInv, TypeOK, LockMatchesCode, EndOrder, CallerLocks, Lock, Goto
<1>3. CASE CallerAwaitThrows
  BY <1>3 DEF IInv, TypeOK, LockMatchesCode, EndOrder, CallerAwaitThrows, StartDrain, Goto
<1>4. CASE CallerAwaits
  BY <1>4 DEF IInv, TypeOK, LockMatchesCode, EndOrder, CallerAwaits, Unlock, Goto
<1>5. CASE CallerInterrupted
  BY <1>5 DEF IInv, TypeOK, LockMatchesCode, EndOrder, CallerInterrupted, Goto
<1>6. CASE CallerReacquires
  BY <1>6 DEF IInv, TypeOK, LockMatchesCode, EndOrder, CallerReacquires, StartDrain, Lock, Goto
<1>7. CASE CallerUnlocks
  BY <1>7 DEF IInv, TypeOK, LockMatchesCode, EndOrder, CallerUnlocks, Unlock, Goto
<1>8. ASSUME NEW p \in Participants, CallerDelivers(p)
      PROVE  IInv'
  BY <1>8 DEF IInv, TypeOK, LockMatchesCode, EndOrder, CallerDelivers
<1>9. ASSUME NEW p \in Participants, CallerLeaves(p)
      PROVE  IInv'
  BY <1>9 DEF IInv, TypeOK, LockMatchesCode, EndOrder, CallerLeaves
<1>10. CASE CallerWakesSpuriously
  BY <1>10 DEF IInv, TypeOK, LockMatchesCode, EndOrder, CallerWakesSpuriously, Goto
<1>11. QED
  BY <1>1, <1>2, <1>3, <1>4, <1>5, <1>6, <1>7, <1>8, <1>9, <1>10 DEF AppCaller

LEMMA RtcpStep ==
    ASSUME IInv, RtcpReceiver \/ RtcpSender
    PROVE  IInv'
<1>1. CASE RtcpReceiverLoop
  BY <1>1 DEF IInv, TypeOK, LockMatchesCode, EndOrder, RtcpReceiverLoop, Loop, Goto
<1>2. ASSUME pc["rtcpReceiver"] = "receive", Goto("rtcpReceiver", "check"),
             UNCHANGED <<session, lock, interrupted, app, data>>
      PROVE  IInv'
  BY <1>2 DEF IInv, TypeOK, LockMatchesCode, EndOrder, Goto
<1>3. ASSUME NEW to \in {"check", "report"}, NEW from \in {"rest", "sleep"},
             SenderSleeps(from, to)
      PROVE  IInv'
  BY <1>3 DEF IInv, TypeOK, LockMatchesCode, EndOrder, SenderSleeps, Goto
<1>4. CASE SenderLoop
  BY <1>4 DEF IInv, TypeOK, LockMatchesCode, EndOrder, SenderLoop, Loop, Goto
<1>5. CASE SenderReports
  BY <1>5 DEF IInv, TypeOK, LockMatchesCode, EndOrder, SenderReports, Goto
<1>6. CASE SendByes
  BY <1>6 DEF IInv, TypeOK, LockMatchesCode, EndOrder, SendByes, Goto
<1>7. QED
  BY <1>1, <1>2, <1>3, <1>4, <1>5, <1>6
  DEF RtcpReceiver, RtcpReceiverParses, RtcpReceiverSocketClosed, RtcpSender, SenderRests, SenderWakes, SenderInterrupted

LEMMA EndStep ==
    ASSUME IInv, EndBegins \/ EndSession
    PROVE  IInv'
<1>1. CASE EndBegins
  BY <1>1 DEF IInv, TypeOK, LockMatchesCode, EndOrder, EndBegins
<1>2. CASE EndClosesRtp \/ EndClosesRtcp
  <2>1. open' \subseteq {"rtp", "rtcp"}
    BY <1>2 DEF IInv, TypeOK, EndClosesRtp, EndClosesRtcp, Close
  <2>2. QED
    BY <1>2, <2>1 DEF IInv, TypeOK, LockMatchesCode, EndOrder, EndClosesRtp, EndClosesRtcp
<1>3. CASE EndLocks
  BY <1>3 DEF IInv, TypeOK, LockMatchesCode, EndOrder, EndLocks, Lock
<1>4. CASE EndSignals
  BY <1>4 DEF IInv, TypeOK, LockMatchesCode, EndOrder, EndSignals, Unlock, signalAll
<1>5. CASE EndInterruptsSender \/ EndInterruptsCaller
  BY <1>5 DEF IInv, TypeOK, LockMatchesCode, EndOrder, EndInterruptsSender,
              EndInterruptsCaller, Interrupt
<1>6. CASE EndThrows
  BY <1>6 DEF IInv, TypeOK, LockMatchesCode, EndOrder, EndThrows
<1>7. QED
  BY <1>1, <1>2, <1>3, <1>4, <1>5, <1>6 DEF EndSession

LEMMA SessionStep ==
    ASSUME IInv, [Next]_vars
    PROVE  IInv'
<1>1. CASE UNCHANGED vars
  <2>1. TypeOK'
    BY <1>1 DEF IInv, TypeOK, vars
  <2>2. LockMatchesCode' /\ EndOrder'
    BY <1>1 DEF IInv, LockMatchesCode, EndOrder, vars
  <2>3. QED
    BY <2>1, <2>2 DEF IInv
<1>2. Terminated => UNCHANGED vars
  BY DEF Terminated
<1>3. QED
  BY <1>1, <1>2, RegisterStep, ReceiverStep, AppCallerStep, RtcpStep, EndStep DEF Next

(* pktBufLock is held exactly where the code says, by one thread, and      *)
(* every variable keeps its type, for any participants and traffic.        *)
THEOREM LockSafe == Spec => [](TypeOK /\ LockMatchesCode)
BY SessionInit, SessionStep, PTL DEF Spec, IInv

(* endSession never returns with an AppCallerThread that could sleep on    *)
(* unnoticed: wherever it was, its interrupt is still pending.             *)
THEOREM InterruptNotLost == Spec => []InterruptStands
<1>1. IInv => InterruptStands
  BY DEF IInv, EndOrder, InterruptStands
<1>2. QED
  BY <1>1, SessionInit, SessionStep, PTL DEF Spec
-----------------------------------------------------------------------------
(* The end of the session is reached: a variant for AllThreadsStop, and    *)
(* nobody left without a way on.                                           *)

(* How far a thread is from its end once endSession is set: every while    *)
(* loop is left at its next test.                                          *)
ToGo(l) ==
    CASE l = "unborn" -> 10
      [] l = "created" -> 9
      [] l \in {"receive", "rest", "sleep"} -> 8
      [] l = "lock" -> 7
      [] l = "await" -> 6
      [] l = "waiting" -> 5
      [] l = "reacquire" -> 4
      [] l \in {"drain", "signal", "report"} -> 3
      [] l = "check" -> 2
      [] l = "bye" -> 1
      [] OTHER -> 0

AppToGo ==
    CASE app = "running" -> 7
      [] app = "close" -> 6
      [] app = "lock" -> 5
      [] app = "signal" -> 4
      [] app = "interruptSender" -> 3
      [] app = "interruptCaller" -> 2
      [] app = "closeRtcp" -> 1
      [] OTHER -> 0

Distance ==
    AppToGo + ToGo(pc["receiver"]) + ToGo(pc["appCaller"])
        + ToGo(pc["rtcpReceiver"]) + ToGo(pc["rtcpSender"])

(* A step brings a thread or endSession on, or is the caller's on its way  *)
(* through what was stored.                                                *)
Closer ==
    \/ Distance' < Distance
    \/ /\ Distance' = Distance
       /\ toVisit' \subseteq toVisit /\ toVisit' # toVisit
    \/ /\ Distance' = Distance /\ toVisit' = toVisit
       /\ \E p \in Participants : stored[p] > 0 /\ stored' = [stored EXCEPT ![p] = @ - 1]

(* The places of each thread: no RTCP thread has one where it is given     *)
(* pktBufLock.                                                             *)
Places ==
    /\ lock \in {"receiver", "appCaller", "app", NoThread}
    /\ pc["receiver"] \in {"unborn", "check", "receive", "lock", "signal", "done"}
    /\ pc["appCaller"] \in {"unborn", "check", "lock", "await", "waiting", "reacquire",
                            "drain", "done"}
    /\ pc["rtcpReceiver"] \in {"unborn", "created", "check", "receive", "done"}
    /\ pc["rtcpSender"] \in {"unborn", "created", "rest", "check", "sleep", "report", "bye",
                             "done"}

(* endSession closes the RTP socket first and the RTCP socket last, and a  *)
(* socket once closed stays closed.                                        *)
SocketsClosed ==
    /\ app \notin {"running", "close"} => "rtp" \notin open
    /\ app = "returned" => "rtcp" \notin open

(* The threads are born in the order of RTPSessionRegister.                *)
BirthOrder ==
    /\ pc["appCaller"] # "unborn" => pc["receiver"] # "unborn"
    /\ pc["rtcpReceiver"] = "unborn" <=> pc["rtcpSender"] = "unborn"
    /\ pc["rtcpReceiver"] = "created" => pc["rtcpSender"] = "created"

EndInv == IInv /\ Places /\ SocketsClosed /\ BirthOrder

(* The guards of a thread's next step, whatever that is.                   *)
SocketOf(t) == IF t = "receiver" THEN "rtp" ELSE "rtcp"
CanGoOn(t) ==
    \/ pc[t] \in {"rest", "check", "signal", "await", "drain", "sleep", "report", "bye"}
    \/ pc[t] = "created" /\ (t = "rtcpSender" => pc["rtcpReceiver"] # "created")
    \/ pc[t] = "receive" /\ SocketOf(t) \notin open
    \/ pc[t] \in {"lock", "reacquire"} /\ lock = NoThread
    \/ pc[t] = "waiting" /\ t \in interrupted

(* Who can let a thread go on that cannot by itself.                       *)
LetsGoOn(t, u) ==
    \/ pc[t] \in {"lock", "reacquire"} /\ lock = u
    \/ pc[t] = "created" /\ pc[u] = "created"

NobodyStuck ==
    /\ app = "lock" => lock = NoThread \/ \E u \in Threads : lock = u /\ CanGoOn(u)
    /\ app = "returned" =>
          \A t \in Threads : \/ pc[t] = "done" \/ CanGoOn(t)
                             \/ \E u \in Threads : LetsGoOn(t, u) /\ CanGoOn(u)

LEMMA EndInit == Init => EndInv
<1> SUFFICES ASSUME Init PROVE EndInv
  OBVIOUS
<1>1. IInv
  BY SessionInit
<1>2. Places /\ SocketsClosed /\ BirthOrder
  BY DEF Init, Places, SocketsClosed, BirthOrder
<1>3. QED
  BY <1>1, <1>2 DEF EndInv

LEMMA EndRegister ==
    ASSUME EndInv, Register
    PROVE  Places' /\ SocketsClosed' /\ BirthOrder'
<1> USE DEF EndInv, IInv, TypeOK, Places, SocketsClosed, BirthOrder, Goto
<1>1. CASE StartReceiver
  BY <1>1 DEF StartReceiver
<1>2. CASE StartAppCaller
  BY <1>2 DEF StartAppCaller
<1>3. CASE CreateRtcpThreads
  BY <1>3 DEF CreateRtcpThreads
<1>4. CASE StartRtcpReceiver
  BY <1>4 DEF StartRtcpReceiver
<1>5. CASE StartRtcpSender
  BY <1>5 DEF StartRtcpSender
<1>6. QED
  BY <1>1, <1>2, <1>3, <1>4, <1>5 DEF Register

LEMMA EndReceiver ==
    ASSUME EndInv, Receiver
    PROVE  Places' /\ SocketsClosed' /\ BirthOrder'
<1> USE DEF EndInv, IInv, TypeOK, Places, SocketsClosed, BirthOrder, Goto
<1>1. CASE ReceiverLoop
  BY <1>1 DEF ReceiverLoop, Loop
<1>2. CASE ReceiverSocketClosed
  BY <1>2 DEF ReceiverSocketClosed
<1>3. CASE ReceiverLocks
  BY <1>3 DEF ReceiverLocks, Lock
<1>4. CASE ReceiverSignals
  BY <1>4 DEF ReceiverSignals, Unlock, signalAll
<1>5. ASSUME NEW p \in Participants, ReceiverStores(p)
      PROVE  Places' /\ SocketsClosed' /\ BirthOrder'
  BY <1>5 DEF ReceiverStores
<1>6. QED
  BY <1>1, <1>2, <1>3, <1>4, <1>5 DEF Receiver

LEMMA EndCaller ==
    ASSUME EndInv, AppCaller \/ CallerWakesSpuriously
    PROVE  Places' /\ SocketsClosed' /\ BirthOrder'
<1> USE DEF EndInv, IInv, TypeOK, Places, SocketsClosed, BirthOrder, Goto
<1>1. CASE CallerLoop \/ CallerLocks \/ CallerAwaitThrows \/ CallerAwaits
  BY <1>1 DEF CallerLoop, Loop, CallerLocks, Lock, CallerAwaitThrows, CallerAwaits, Unlock
<1>2. CASE CallerInterrupted \/ CallerReacquires \/ CallerUnlocks \/ CallerWakesSpuriously
  BY <1>2 DEF CallerInterrupted, CallerReacquires, Lock, CallerUnlocks, Unlock, CallerWakesSpuriously
<1>3. ASSUME NEW p \in Participants, CallerDelivers(p) \/ CallerLeaves(p)
      PROVE  Places' /\ SocketsClosed' /\ BirthOrder'
  BY <1>3 DEF CallerDelivers, CallerLeaves
<1>4. QED
  BY <1>1, <1>2, <1>3 DEF AppCaller

LEMMA EndRtcp ==
    ASSUME EndInv, RtcpReceiver \/ RtcpSender
    PROVE  Places' /\ SocketsClosed' /\ BirthOrder'
<1> USE DEF EndInv, IInv, TypeOK, Places, SocketsClosed, BirthOrder, Goto
<1>1. CASE RtcpReceiver
  BY <1>1 DEF RtcpReceiver, RtcpReceiverLoop, Loop, RtcpReceiverParses, RtcpReceiverSocketClosed
<1>2. CASE SenderRests \/ SenderWakes \/ SenderInterrupted
  BY <1>2 DEF SenderRests, SenderWakes, SenderInterrupted, SenderSleeps
<1>3. CASE SenderLoop \/ SenderReports \/ SendByes
  BY <1>3 DEF SenderLoop, Loop, SenderReports, SendByes
<1>4. QED
  BY <1>1, <1>2, <1>3 DEF RtcpSender

LEMMA EndEnds ==
    ASSUME EndInv, EndBegins \/ EndSession
    PROVE  Places' /\ SocketsClosed' /\ BirthOrder'
<1> USE DEF EndInv, IInv, TypeOK, Places, SocketsClosed, BirthOrder
<1>1. CASE EndBegins \/ EndLocks \/ EndInterruptsSender \/ EndThrows \/ EndInterruptsCaller
  BY <1>1 DEF EndBegins, EndLocks, Lock, EndInterruptsSender, EndThrows, EndInterruptsCaller
<1>2. CASE EndClosesRtp \/ EndClosesRtcp
  BY <1>2 DEF EndClosesRtp, EndClosesRtcp, Close
<1>3. CASE EndSignals
  BY <1>3 DEF EndSignals, Unlock, signalAll
<1>4. QED
  BY <1>1, <1>2, <1>3 DEF EndSession

(* Places, sockets and births go with IInv into one inductive invariant.   *)
LEMMA EndNext == EndInv /\ [Next]_vars => EndInv'
<1> SUFFICES ASSUME EndInv, [Next]_vars PROVE EndInv'
  OBVIOUS
<1>1. IInv'
  BY SessionStep DEF EndInv
<1>2. CASE UNCHANGED vars \/ Terminated
  <2>1. UNCHANGED vars
    BY <1>2 DEF Terminated
  <2>2. Places' /\ SocketsClosed' /\ BirthOrder'
    BY <2>1 DEF EndInv, Places, SocketsClosed, BirthOrder, vars
  <2>3. QED
    BY <1>1, <2>2 DEF EndInv
<1>3. QED
  BY <1>1, <1>2, EndRegister, EndReceiver, EndCaller, EndRtcp, EndEnds DEF Next, EndInv

LEMMA EndInvariant == Spec => []EndInv
<1>1. QED
  BY EndInit, EndNext, PTL DEF Spec

LEMMA ToGoTyped ==
    /\ \A l : ToGo(l) \in 0 .. 10
    /\ AppToGo \in 0 .. 7
BY DEF ToGo, AppToGo

LEMMA ToGoTable ==
    /\ ToGo("unborn") = 10 /\ ToGo("created") = 9
    /\ ToGo("receive") = 8 /\ ToGo("rest") = 8 /\ ToGo("sleep") = 8
    /\ ToGo("lock") = 7 /\ ToGo("await") = 6 /\ ToGo("waiting") = 5 /\ ToGo("reacquire") = 4
    /\ ToGo("drain") = 3 /\ ToGo("signal") = 3 /\ ToGo("report") = 3
    /\ ToGo("check") = 2 /\ ToGo("bye") = 1 /\ ToGo("done") = 0
BY DEF ToGo

(* A thread that goes where it is nearer to its end, alone ...             *)
LEMMA ThreadCloser ==
    ASSUME EndInv, NEW t \in Threads, NEW l, Goto(t, l), app' = app, ToGo(l) < ToGo(pc[t])
    PROVE  Closer
<1>1. AppToGo' = AppToGo
  BY DEF AppToGo
<1>2. /\ pc'[t] = l
      /\ \A u \in Threads \ {t} : pc'[u] = pc[u]
  BY DEF EndInv, IInv, TypeOK, Goto
<1>3. \A k : ToGo(k) \in Nat
  BY ToGoTyped
<1>4. AppToGo \in Nat
  BY ToGoTyped
<1>5. Distance' < Distance
  <2>1. CASE t = "receiver"
    BY <1>1, <1>2, <1>3, <1>4, <2>1 DEF Distance
  <2>2. CASE t = "appCaller"
    BY <1>1, <1>2, <1>3, <1>4, <2>2 DEF Distance
  <2>3. CASE t = "rtcpReceiver"
    BY <1>1, <1>2, <1>3, <1>4, <2>3 DEF Distance
  <2>4. CASE t = "rtcpSender"
    BY <1>1, <1>2, <1>3, <1>4, <2>4 DEF Distance
  <2>5. QED
    BY <2>1, <2>2, <2>3, <2>4
<1>6. QED
  BY <1>5 DEF Closer

(* ... a signal, which may move the caller as well ...                     *)
LEMMA SignalNearer ==
    ASSUME EndInv
    PROVE  /\ signalAll \in [Threads -> {pc[t] : t \in Threads} \cup {"reacquire"}]
           /\ \A t \in Threads : ToGo(signalAll[t]) <= ToGo(pc[t])
BY ToGoTable, ToGoTyped DEF EndInv, IInv, TypeOK, signalAll

LEMMA SignalCloser ==
    ASSUME EndInv, ReceiverSignals
    PROVE  Closer
<1>1. AppToGo' = AppToGo
  BY DEF AppToGo, ReceiverSignals
<1>2. /\ pc["receiver"] = "signal" /\ pc'["receiver"] = "check"
      /\ \A u \in Threads \ {"receiver"} : pc'[u] = signalAll[u]
  BY SignalNearer DEF ReceiverSignals
<1>3. /\ ToGo(pc'["receiver"]) < ToGo(pc["receiver"])
      /\ ToGo(pc'["appCaller"]) <= ToGo(pc["appCaller"])
      /\ ToGo(pc'["rtcpReceiver"]) <= ToGo(pc["rtcpReceiver"])
      /\ ToGo(pc'["rtcpSender"]) <= ToGo(pc["rtcpSender"])
  BY <1>2, SignalNearer, ToGoTable
<1>4. \A l : ToGo(l) \in Nat
  BY ToGoTyped
<1>5. AppToGo \in Nat
  BY ToGoTyped
<1>6. Distance' < Distance
  BY <1>1, <1>3, <1>4, <1>5 DEF Distance
<1>7. QED
  BY <1>6 DEF Closer

(* ... and endSession, which signals too.                                  *)
LEMMA AppCloser ==
    ASSUME EndInv, AppToGo' < AppToGo, \A t \in Threads : ToGo(pc'[t]) <= ToGo(pc[t])
    PROVE  Closer
<1>1. \A l : ToGo(l) \in Nat
  BY ToGoTyped
<1>2. AppToGo \in Nat /\ AppToGo' \in Nat
  BY DEF AppToGo
<1>3. Distance' < Distance
  BY <1>1, <1>2 DEF Distance
<1>4. QED
  BY <1>3 DEF Closer

LEMMA CallerCloser ==
    ASSUME EndInv, endSession, AppCaller \/ CallerWakesSpuriously
    PROVE  Closer
<1> USE ToGoTable
<1>1. CASE CallerLoop
  BY <1>1, ThreadCloser DEF CallerLoop, Loop
<1>2. CASE CallerLocks
  BY <1>2, ThreadCloser DEF CallerLocks
<1>3. CASE CallerAwaitThrows
  BY <1>3, ThreadCloser DEF CallerAwaitThrows
<1>4. CASE CallerAwaits
  BY <1>4, ThreadCloser DEF CallerAwaits
<1>5. CASE CallerInterrupted
  BY <1>5, ThreadCloser DEF CallerInterrupted
<1>6. CASE CallerReacquires
  BY <1>6, ThreadCloser DEF CallerReacquires
<1>7. CASE CallerUnlocks
  BY <1>7, ThreadCloser DEF CallerUnlocks
<1>8. CASE CallerWakesSpuriously
  BY <1>8, ThreadCloser DEF CallerWakesSpuriously
<1>9. ASSUME NEW p \in Participants, CallerDelivers(p) PROVE Closer
  <2>1. Distance' = Distance /\ toVisit' = toVisit
    BY <1>9 DEF CallerDelivers, Distance, AppToGo
  <2>2. stored[p] > 0 /\ stored' = [stored EXCEPT ![p] = @ - 1]
    BY <1>9 DEF CallerDelivers
  <2>3. QED
    BY <2>1, <2>2 DEF Closer
<1>10. ASSUME NEW p \in Participants, CallerLeaves(p) PROVE Closer
  <2>1. Distance' = Distance
    BY <1>10 DEF CallerLeaves, Distance, AppToGo
  <2>2. toVisit' \subseteq toVisit /\ toVisit' # toVisit
    BY <1>10 DEF CallerLeaves
  <2>3. QED
    BY <2>1, <2>2 DEF Closer
<1>11. QED
  BY <1>1, <1>2, <1>3, <1>4, <1>5, <1>6, <1>7, <1>8, <1>9, <1>10 DEF AppCaller

LEMMA RtcpCloser ==
    ASSUME EndInv, endSession, RtcpReceiver \/ RtcpSender
    PROVE  Closer
<1> USE ToGoTable
<1>1. CASE RtcpReceiverLoop
  BY <1>1, ThreadCloser DEF RtcpReceiverLoop, Loop
<1>2. CASE RtcpReceiverParses \/ RtcpReceiverSocketClosed
  <2>1. /\ pc["rtcpReceiver"] = "receive" /\ Goto("rtcpReceiver", "check")
        /\ app' = app
    BY <1>2 DEF RtcpReceiverParses, RtcpReceiverSocketClosed
  <2>2. QED
    BY <2>1, ThreadCloser
<1>3. CASE SenderRests
  BY <1>3, ThreadCloser DEF SenderRests, SenderSleeps
<1>4. CASE SenderLoop
  BY <1>4, ThreadCloser DEF SenderLoop, Loop
<1>5. CASE SenderWakes
  BY <1>5, ThreadCloser DEF SenderWakes, SenderSleeps
<1>6. CASE SenderInterrupted
  BY <1>6, ThreadCloser DEF SenderInterrupted, SenderSleeps
<1>7. CASE SenderReports
  BY <1>7, ThreadCloser DEF SenderReports
<1>8. CASE SendByes
  BY <1>8, ThreadCloser DEF SendByes
<1>9. QED
  BY <1>1, <1>2, <1>3, <1>4, <1>5, <1>6, <1>7, <1>8 DEF RtcpReceiver, RtcpSender

LEMMA ReceiverCloser ==
    ASSUME EndInv, endSession, Receiver
    PROVE  Closer
<1> USE ToGoTable
<1>1. CASE ReceiverLoop
  BY <1>1, ThreadCloser DEF ReceiverLoop, Loop
<1>2. CASE ReceiverSocketClosed
  BY <1>2, ThreadCloser DEF ReceiverSocketClosed
<1>3. CASE ReceiverLocks
  BY <1>3, ThreadCloser DEF ReceiverLocks
<1>4. ASSUME NEW p \in Participants, ReceiverStores(p) PROVE Closer
  BY <1>4, ThreadCloser DEF ReceiverStores
<1>5. QED
  BY <1>1, <1>2, <1>3, <1>4, SignalCloser DEF Receiver

LEMMA RegisterCloser ==
    ASSUME EndInv, Register
    PROVE  Closer
<1> USE ToGoTable
<1>1. CASE StartReceiver
  BY <1>1, ThreadCloser DEF StartReceiver
<1>2. CASE StartAppCaller
  BY <1>2, ThreadCloser DEF StartAppCaller
<1>3. CASE CreateRtcpThreads
  <2>1. AppToGo' = AppToGo
    BY <1>3 DEF CreateRtcpThreads, AppToGo
  <2>2. /\ pc["rtcpSender"] = "unborn" /\ pc["rtcpReceiver"] = "unborn"
        /\ pc'["rtcpSender"] = "created" /\ pc'["rtcpReceiver"] = "created"
        /\ pc'["receiver"] = pc["receiver"] /\ pc'["appCaller"] = pc["appCaller"]
    BY <1>3 DEF CreateRtcpThreads, EndInv, IInv, TypeOK, BirthOrder
  <2>3. /\ ToGo(pc["receiver"]) \in Nat /\ ToGo(pc["appCaller"]) \in Nat
        /\ AppToGo \in Nat
    BY ToGoTyped
  <2>4. Distance' < Distance
    BY <2>1, <2>2, <2>3 DEF Distance
  <2>5. QED
    BY <2>4 DEF Closer
<1>4. CASE StartRtcpReceiver
  BY <1>4, ThreadCloser DEF StartRtcpReceiver
<1>5. CASE StartRtcpSender
  BY <1>5, ThreadCloser DEF StartRtcpSender
<1>6. QED
  BY <1>1, <1>2, <1>3, <1>4, <1>5 DEF Register

LEMMA EndCloser ==
    ASSUME EndInv, EndSession
    PROVE  Closer
<1>1. AppToGo' < AppToGo
  BY DEF EndSession, EndClosesRtp, EndLocks, EndSignals, EndInterruptsSender, EndThrows,
     EndInterruptsCaller, EndClosesRtcp, AppToGo
<1>2. pc' = pc \/ pc' = signalAll
  BY DEF EndSession, EndClosesRtp, EndLocks, EndSignals, EndInterruptsSender, EndThrows,
     EndInterruptsCaller, EndClosesRtcp
<1>3. \A t \in Threads : ToGo(pc'[t]) <= ToGo(pc[t])
  BY <1>2, SignalNearer, ToGoTyped
<1>4. QED
  BY <1>1, <1>3, AppCloser

(* From endSession's first line on the session runs down: registration,    *)
(* packets that still come, spurious wake-ups and the threads' own steps   *)
(* all lower Distance or empty what was stored, so that only finitely many *)
(* steps remain.  No loop goes round once more, because each tests         *)
(* endSession wherever it was overtaken.                                   *)
THEOREM SessionRunsDown == Spec => [][endSession => Closer]_vars
<1>1. ASSUME EndInv, endSession, Next PROVE Closer \/ UNCHANGED vars
  <2>1. ~EndBegins
    BY <1>1 DEF EndBegins, EndInv, IInv, EndOrder
  <2>2. Terminated => UNCHANGED vars
    BY DEF Terminated
  <2>3. QED
    BY <1>1, <2>1, <2>2, RegisterCloser, ReceiverCloser, CallerCloser, RtcpCloser, EndCloser
    DEF Next
<1>2. EndInv /\ [Next]_vars => [endSession => Closer]_vars
  BY <1>1
<1>3. QED
  BY <1>2, EndInvariant, PTL DEF Spec

LEMMA LockHeld ==
    ASSUME EndInv, lock \in Threads
    PROVE  \/ lock = "receiver" /\ pc["receiver"] = "signal"
           \/ lock = "appCaller" /\ pc["appCaller"] \in {"await", "drain"}
BY DEF EndInv, IInv, LockMatchesCode, Places

(* And while it runs down somebody can always go on: whoever endSession    *)
(* finds holding pktBufLock can leave it, and once it has returned every   *)
(* thread has ended, can go on, or waits for one that can; none sleeps,    *)
(* receives or waits for a signal for ever.                                *)
THEOREM NobodyIsStuck == Spec => []NobodyStuck
<1>1. ASSUME EndInv, lock \in Threads PROVE CanGoOn(lock)
  <2>1. \/ lock = "receiver" /\ pc["receiver"] = "signal"
        \/ lock = "appCaller" /\ pc["appCaller"] \in {"await", "drain"}
    BY <1>1, LockHeld
  <2>2. QED
    BY <2>1 DEF CanGoOn
<1>2. ASSUME EndInv, app \in {"lock", "returned"}
      PROVE  lock = NoThread \/ \E u \in Threads : lock = u /\ CanGoOn(u)
  <2>1. lock # "app" /\ lock \in Threads \cup {"app", NoThread}
    BY <1>2 DEF EndInv, IInv, TypeOK, LockMatchesCode
  <2>2. QED
    BY <1>1, <1>2, <2>1
<1>3. ASSUME EndInv, app = "returned", NEW t \in Threads
      PROVE  \/ pc[t] = "done" \/ CanGoOn(t)
             \/ \E u \in Threads : LetsGoOn(t, u) /\ CanGoOn(u)
  <2>1. CASE pc[t] \in {"lock", "reacquire"}
    <3>1. CASE lock = NoThread
      BY <2>1, <3>1 DEF CanGoOn
    <3>2. CASE \E u \in Threads : lock = u /\ CanGoOn(u)
      BY <2>1, <3>2 DEF LetsGoOn
    <3>3. QED
      BY <1>2, <1>3, <3>1, <3>2
  <2>2. CASE pc[t] \notin {"lock", "reacquire"}
    <3> USE DEF EndInv, IInv, EndOrder, Places, SocketsClosed, BirthOrder
    <3>1. CASE t = "receiver"
      BY <1>3, <2>2, <3>1 DEF CanGoOn, SocketOf
    <3>2. CASE t = "appCaller"
      BY <1>3, <2>2, <3>2 DEF CanGoOn
    <3>3. CASE t = "rtcpReceiver"
      BY <1>3, <2>2, <3>3 DEF CanGoOn, SocketOf
    <3>4. CASE t = "rtcpSender"
      BY <1>3, <2>2, <3>4 DEF CanGoOn, LetsGoOn
    <3>5. QED
      BY <3>1, <3>2, <3>3, <3>4
  <2>3. QED
    BY <2>1, <2>2
<1>4. EndInv => NobodyStuck
  BY <1>2, <1>3 DEF NobodyStuck
<1>5. QED
  BY <1>4, EndInvariant, PTL
-----------------------------------------------------------------------------
(* What has been promised of p's packets: a receiver is about to signal a  *)
(* caller that waits, or the caller is up again and has yet to look at p.  *)
Owed(p) ==
    /\ stored[p] > 0
    /\ \/ pc["receiver"] \in {"lock", "signal"} /\ pc["appCaller"] = "waiting"
       \/ pc["appCaller"] = "reacquire"
       \/ pc["appCaller"] = "drain" /\ p \in toVisit

SignalKept == \A p \in Participants : Owed(p) => Owed(p)' \/ stored'[p] = 0

LEMMA OwedByCaller ==
    ASSUME TypeOK, AppCaller \/ CallerWakesSpuriously, NEW p \in Participants, Owed(p)
    PROVE  Owed(p)' \/ stored'[p] = 0
<1> USE DEF TypeOK, Owed
<1>1. CASE CallerLoop \/ CallerLocks \/ CallerAwaitThrows \/ CallerAwaits
  BY <1>1 DEF CallerLoop, Loop, CallerLocks, CallerAwaitThrows, CallerAwaits
<1>2. CASE CallerInterrupted \/ CallerWakesSpuriously
  BY <1>2 DEF CallerInterrupted, CallerWakesSpuriously, Goto
<1>3. CASE CallerReacquires
  BY <1>3 DEF CallerReacquires, StartDrain, Goto
<1>4. CASE CallerUnlocks
  BY <1>4 DEF CallerUnlocks
<1>5. ASSUME NEW q \in Participants, CallerDelivers(q)
      PROVE  Owed(p)' \/ stored'[p] = 0
  BY <1>5 DEF CallerDelivers
<1>6. ASSUME NEW q \in Participants, CallerLeaves(q)
      PROVE  Owed(p)' \/ stored'[p] = 0
  BY <1>6 DEF CallerLeaves
<1>7. QED
  BY <1>1, <1>2, <1>3, <1>4, <1>5, <1>6 DEF AppCaller

LEMMA OwedByOthers ==
    ASSUME TypeOK, NEW p \in Participants, Owed(p),
           Register \/ Receiver \/ RtcpReceiver \/ RtcpSender \/ EndBegins \/ EndSession
    PROVE  Owed(p)' \/ stored'[p] = 0
<1> USE DEF TypeOK, Owed
<1>1. CASE Register
  BY <1>1 DEF Register, StartReceiver, StartAppCaller, CreateRtcpThreads, StartRtcpReceiver,
     StartRtcpSender, Goto
<1>2. CASE ReceiverLoop \/ ReceiverSocketClosed \/ ReceiverLocks
  BY <1>2 DEF ReceiverLoop, Loop, ReceiverSocketClosed, ReceiverLocks, Goto
<1>3. CASE ReceiverSignals
  BY <1>3 DEF ReceiverSignals, signalAll
<1>4. ASSUME NEW q \in Participants, ReceiverStores(q)
      PROVE  Owed(p)'
  BY <1>4 DEF ReceiverStores, Goto
<1>5. CASE RtcpReceiver
  BY <1>5 DEF RtcpReceiver, RtcpReceiverLoop, Loop, RtcpReceiverParses,
     RtcpReceiverSocketClosed, Goto
<1>6. CASE SenderRests \/ SenderWakes \/ SenderInterrupted
  BY <1>6 DEF SenderRests, SenderWakes, SenderInterrupted, SenderSleeps, Goto
<1>7. CASE SenderLoop \/ SenderReports \/ SendByes
  BY <1>7 DEF SenderLoop, Loop, SenderReports, SendByes, Goto
<1>8. CASE EndSignals
  BY <1>8 DEF EndSignals, signalAll
<1>9. CASE EndBegins \/ (EndSession /\ ~EndSignals)
  BY <1>9 DEF EndBegins, EndSession, EndClosesRtp, EndLocks, EndInterruptsSender, EndThrows,
     EndInterruptsCaller, EndClosesRtcp
<1>10. QED
  BY <1>1, <1>2, <1>3, <1>4, <1>5, <1>6, <1>7, <1>8, <1>9 DEF Receiver, RtcpSender

(* A packet stored by the time its signal is due to a waiting caller stays *)
(* promised to the application until the buffer it is in is empty: not the *)
(* end of the session, an interrupt, a spurious wake-up nor the packets of *)
(* others undo it.  It is the safety half of SignalledDrains.              *)
THEOREM SignalIsKept == Spec => [][SignalKept]_vars
<1>1. IInv /\ [Next]_vars => [SignalKept]_vars
  <2> SUFFICES ASSUME IInv, Next, NEW p \in Participants, Owed(p)
               PROVE  Owed(p)' \/ stored'[p] = 0
    BY DEF SignalKept
  <2>1. CASE Terminated
    BY <2>1 DEF Terminated, vars, Owed
  <2>2. QED
    BY <2>1, OwedByCaller, OwedByOthers DEF Next, IInv
<1>2. QED
  BY <1>1, SessionInit, SessionStep, PTL DEF Spec
=============================================================================
