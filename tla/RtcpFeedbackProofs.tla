-------------------------- MODULE RtcpFeedbackProofs --------------------------
(* Theorems about RtcpFeedback, for any number of peers, any thresholds    *)
(* and any delays.                                                         *)
EXTENDS RtcpFeedback, TLAPS

(* Taking the time since prevTime off nextDelay never prolongs the sleep   *)
(* that was interrupted, and the end of the sleep is one delay after the   *)
(* last regular report, or two once feedback has used up fbAllowEarly.     *)
DelayBudget ==
    /\ asleep <= MaxDelay
    /\ nextDelay <= asleep + sincePrev
    /\ sinceRegular + asleep <= 2 * MaxDelay
    /\ fbAllowEarly => sinceRegular + asleep <= MaxDelay

IInv == TypeOK /\ DelayBudget

USE DEF queues, application, timing, Peers, Delays, NoOne

LEMMA Bounds ==
    /\ NumPeers \in Nat \ {0}
    /\ MinDelay \in Nat /\ MaxDelay \in Nat
    /\ 2 * MaxDelay = MaxDelay + MaxDelay
BY PeersAssumption, DelayAssumption DEF PeersAssumption, DelayAssumption

LEMMA FeedbackInit == Init => IInv
<1> SUFFICES ASSUME Init PROVE IInv
  OBVIOUS
<1>1. /\ fbQueue \in [Peers -> SUBSET Formats] /\ appQueue \in [Peers -> Nat]
      /\ caller \in [at : {"idle", "names", "interrupts"}, peer : Peers \cup {NoOne}]
  BY DEF Init
<1>2. nextDelay \in Nat /\ asleep \in Nat /\ asleep <= MaxDelay /\ turn \in Peers
  BY Bounds DEF Init
<1>3. fbAllowEarly \in BOOLEAN /\ interrupted \in BOOLEAN
  BY DEF Init
<1>4. TypeOK
  BY <1>1, <1>2, <1>3 DEF Init, TypeOK
<1>5. DelayBudget
  BY <1>2, Bounds DEF Init, DelayBudget
<1>6. QED
  BY <1>4, <1>5 DEF IInv

(* What the application does leaves the timing alone.                      *)
LEMMA ApplicationStep ==
    ASSUME IInv,
           \/ \E group \in Groups \cup {Unregistered} : Register(group)
           \/ \E p \in Peers : Hears(p)
           \/ \E p \in Peers : QueueApp(p)
           \/ \E p \in Peers, f \in Formats : QueueFeedback(p, f)
           \/ NamesPeer
           \/ Interrupts
    PROVE  IInv'
<1>1. ASSUME NEW group \in Groups \cup {Unregistered}, Register(group) PROVE IInv'
  BY <1>1 DEF IInv, TypeOK, DelayBudget, Register
<1>2. ASSUME NEW p \in Peers, Hears(p) PROVE IInv'
  BY <1>2 DEF IInv, TypeOK, DelayBudget, Hears
<1>3. ASSUME NEW p \in Peers, QueueApp(p) PROVE IInv'
  BY <1>3 DEF IInv, TypeOK, DelayBudget, QueueApp
<1>4. ASSUME NEW p \in Peers, NEW f \in Formats, QueueFeedback(p, f) PROVE IInv'
  BY <1>4 DEF IInv, TypeOK, DelayBudget, QueueFeedback
<1>5. CASE NamesPeer
  BY <1>5 DEF IInv, TypeOK, DelayBudget, NamesPeer
<1>6. CASE Interrupts
  BY <1>6 DEF IInv, TypeOK, DelayBudget, Interrupts
<1>7. QED
  BY <1>1, <1>2, <1>3, <1>4, <1>5, <1>6

(* A report shortens the peer's queue and may end the thread.              *)
LEMMA ReportTyped ==
    ASSUME TypeOK, NEW p \in Peers, NEW regular \in BOOLEAN, Report(p, regular)
    PROVE  /\ fbQueue' \in [Peers -> SUBSET Formats]
           /\ appQueue' \in [Peers -> Nat]
           /\ useful' \subseteq Peers \X Formats
           /\ sender' \in {"asleep", "dead"}
BY DEF TypeOK, Report, FromFbQueue

LEMMA DelayBounds ==
    ASSUME IInv, CalculateDelay
    PROVE  \E d \in Nat : d <= MaxDelay /\ nextDelay' = d /\ asleep' = d /\ sincePrev' = 0
BY Bounds DEF CalculateDelay

LEMMA SleepOnBounds ==
    ASSUME IInv, SleepOn
    PROVE  \E d \in Nat : d <= asleep /\ nextDelay' = d /\ asleep' = d /\ sincePrev' = sincePrev
<1> DEFINE d == IF nextDelay < sincePrev THEN 0 ELSE nextDelay - sincePrev
<1>1. nextDelay \in Nat /\ sincePrev \in Nat /\ asleep \in Nat /\ nextDelay <= asleep + sincePrev
  BY DEF IInv, TypeOK, DelayBudget
<1>2. d \in Nat /\ d <= asleep
  BY <1>1
<1>3. nextDelay' = d /\ asleep' = d /\ sincePrev' = sincePrev
  BY DEF SleepOn
<1>4. QED
  BY <1>2, <1>3

LEMMA ReconsiderStep ==
    ASSUME IInv, reconsiderTiming
    PROVE  IInv'
<1>1. /\ thresholds' \in Groups \cup {Unregistered} /\ ssrcTable' \subseteq Peers
      /\ fbWaiting' \in Peers \cup {NoOne} /\ turn' \in Peers /\ interrupted' \in BOOLEAN
      /\ caller' \in [at : {"idle", "names", "interrupts"}, peer : Peers \cup {NoOne}]
  BY DEF IInv, TypeOK, reconsiderTiming
<1>5. sinceRegular' = sinceRegular /\ sinceRegular \in Nat
  BY DEF IInv, TypeOK, reconsiderTiming
<1>2. SendsNow \/ SendsEarly \/ OutOfLuck
  BY DEF reconsiderTiming
<1>3. /\ fbQueue' \in [Peers -> SUBSET Formats] /\ appQueue' \in [Peers -> Nat]
      /\ useful' \subseteq Peers \X Formats /\ sender' \in {"asleep", "dead"}
  <2>1. CASE SendsNow
    BY <2>1, ReportTyped DEF IInv, TypeOK, SendsNow
  <2>2. CASE SendsEarly
    BY <2>2, ReportTyped DEF IInv, TypeOK, SendsEarly
  <2>3. CASE OutOfLuck
    BY <2>3 DEF IInv, TypeOK, OutOfLuck
  <2>4. QED
    BY <1>2, <2>1, <2>2, <2>3
<1>4. /\ fbAllowEarly' \in BOOLEAN /\ asleep' \in Nat /\ nextDelay' \in Nat /\ sincePrev' \in Nat
      /\ DelayBudget'
  <2>1. CASE SleepOn /\ fbAllowEarly' = fbAllowEarly
    <3>1. PICK d \in Nat :
             d <= asleep /\ nextDelay' = d /\ asleep' = d /\ sincePrev' = sincePrev
      BY <2>1, SleepOnBounds
    <3>2. /\ asleep \in Nat /\ sincePrev \in Nat /\ fbAllowEarly \in BOOLEAN
          /\ asleep <= MaxDelay /\ sinceRegular + asleep <= 2 * MaxDelay
          /\ fbAllowEarly => sinceRegular + asleep <= MaxDelay
      BY DEF IInv, TypeOK, DelayBudget
    <3>3. /\ d <= MaxDelay /\ d <= d + sincePrev /\ sinceRegular + d <= 2 * MaxDelay
          /\ fbAllowEarly => sinceRegular + d <= MaxDelay
      BY <1>5, <3>1, <3>2, Bounds
    <3>4. QED
      BY <1>5, <2>1, <3>1, <3>2, <3>3 DEF DelayBudget
  <2>2. CASE SendsEarly
    <3>1. fbAllowEarly /\ fbAllowEarly' = FALSE
      BY <2>2 DEF SendsEarly
    <3>2. PICK d \in Nat :
             d <= MaxDelay /\ nextDelay' = d /\ asleep' = d /\ sincePrev' = 0
      BY <2>2, DelayBounds DEF SendsEarly
    <3>3. sinceRegular + asleep <= MaxDelay /\ asleep \in Nat
      BY <3>1 DEF IInv, TypeOK, DelayBudget
    <3>4. sinceRegular + d <= 2 * MaxDelay /\ d <= d + 0
      BY <1>5, <3>2, <3>3, Bounds
    <3>5. DelayBudget'
      BY <1>5, <3>1, <3>2, <3>4 DEF DelayBudget
    <3>6. QED
      BY <3>1, <3>2, <3>5
  <2>3. QED
    BY <1>2, <2>1, <2>2 DEF SendsNow, OutOfLuck
<1>6. QED
  BY <1>1, <1>3, <1>4, <1>5 DEF IInv, TypeOK

LEMMA RegularStep ==
    ASSUME IInv, ReportsRegularly
    PROVE  IInv'
<1>1. /\ thresholds' \in Groups \cup {Unregistered} /\ ssrcTable' \subseteq Peers
      /\ fbWaiting' \in Peers \cup {NoOne} /\ interrupted' \in BOOLEAN
      /\ caller' \in [at : {"idle", "names", "interrupts"}, peer : Peers \cup {NoOne}]
      /\ fbAllowEarly' = TRUE /\ sinceRegular' = 0
  BY DEF IInv, TypeOK, ReportsRegularly
<1>2. turn' \in Peers
  BY Bounds, SMT DEF IInv, TypeOK, ReportsRegularly
<1>3. /\ fbQueue' \in [Peers -> SUBSET Formats] /\ appQueue' \in [Peers -> Nat]
      /\ useful' \subseteq Peers \X Formats /\ sender' \in {"asleep", "dead"}
  BY ReportTyped DEF IInv, TypeOK, ReportsRegularly
<1>4. PICK d \in Nat : d <= MaxDelay /\ nextDelay' = d /\ asleep' = d /\ sincePrev' = 0
  BY DelayBounds DEF ReportsRegularly
<1>5. DelayBudget'
  BY <1>1, <1>4, Bounds DEF DelayBudget
<1>6. QED
  BY <1>1, <1>2, <1>3, <1>4, <1>5 DEF IInv, TypeOK

LEMMA TickStep ==
    ASSUME IInv, Tick
    PROVE  IInv'
BY Bounds DEF IInv, TypeOK, DelayBudget, Tick

(* TypeOK and the budget of delays together are inductive.                 *)
LEMMA FeedbackNext == IInv /\ [Next]_vars => IInv'
<1> SUFFICES ASSUME IInv, [Next]_vars PROVE IInv'
  OBVIOUS
<1>1. CASE reconsiderTiming
  BY <1>1, ReconsiderStep
<1>2. CASE ReportsRegularly
  BY <1>2, RegularStep
<1>3. CASE Tick
  BY <1>3, TickStep
<1>4. CASE UNCHANGED vars
  BY <1>4 DEF IInv, TypeOK, DelayBudget, vars
<1>5. QED
  BY <1>1, <1>2, <1>3, <1>4, ApplicationStep DEF Next

LEMMA FeedbackInvariant == Spec => []IInv
<1>1. QED
  BY FeedbackInit, FeedbackNext, PTL DEF Spec

(* Every variable of the feedback and timing keeps its type.               *)
THEOREM TypeCorrect == Spec => []TypeOK
<1>1. IInv => TypeOK
  BY DEF IInv
<1>2. QED
  BY <1>1, FeedbackInvariant, PTL

(* However often feedback wakes the sender thread in its sleep, a regular  *)
(* report comes two delays after the last one at the latest.               *)
THEOREM RegularInTime == Spec => []NotPostponedTwice
<1>1. IInv => NotPostponedTwice
  BY Bounds DEF IInv, TypeOK, DelayBudget, NotPostponedTwice
<1>2. QED
  BY <1>1, FeedbackInvariant, PTL

-----------------------------------------------------------------------------
(* A bound on the time feedback can stay queued: QueueDrains with a        *)
(* number.                                                                 *)

(* The regular reports before the turn of a peer, and the time until its   *)
(* own: each takes one delay, or two when feedback comes in between.       *)
Turns(p) == IF p >= turn THEN p - turn ELSE NumPeers + p - turn
WaitBound(p) ==
    asleep + (IF fbAllowEarly THEN MaxDelay ELSE 0) + Turns(p) * (2 * MaxDelay)

(* No step puts the report off, and each tick brings it nearer.            *)
Nearer(p) ==
    /\ WaitBound(p)' <= WaitBound(p)
    /\ Tick => WaitBound(p)' < WaitBound(p)

LEMMA TurnsTyped ==
    ASSUME IInv, NEW p \in Peers
    PROVE  /\ Turns(p) \in Nat /\ Turns(p) <= NumPeers - 1
           /\ Turns(p) = 0 <=> p = turn
BY Bounds DEF IInv, TypeOK, Turns

LEMMA Times ==
    ASSUME NEW k \in Nat, NEW n \in Nat, NEW d \in Nat
    PROVE  /\ k * d \in Nat
           /\ k <= n => k * d <= n * d
           /\ (k + 1) * d = k * d + d
OBVIOUS

(* What is left of the turn at hand: this sleep, and the early report that *)
(* may still come.                                                         *)
ThisTurn == asleep + (IF fbAllowEarly THEN MaxDelay ELSE 0)

LEMMA ThisTurnBound ==
    ASSUME IInv
    PROVE  ThisTurn \in Nat /\ ThisTurn <= 2 * MaxDelay
BY Bounds DEF IInv, TypeOK, DelayBudget, ThisTurn

LEMMA NextTurnBound ==
    ASSUME IInv'
    PROVE  ThisTurn' \in Nat /\ ThisTurn' <= 2 * MaxDelay
<1>1. asleep' \in Nat /\ asleep' <= MaxDelay
  BY DEF IInv, TypeOK, DelayBudget
<1>2. ThisTurn' = asleep' + MaxDelay \/ ThisTurn' = asleep' + 0
  BY DEF ThisTurn
<1>3. QED
  BY <1>1, <1>2, Bounds

LEMMA WaitsTyped ==
    ASSUME IInv, NEW p \in Peers
    PROVE  /\ Turns(p) * (2 * MaxDelay) \in Nat
           /\ WaitBound(p) = ThisTurn + Turns(p) * (2 * MaxDelay)
<1>1. 2 * MaxDelay \in Nat
  BY Bounds
<1>2. Turns(p) * (2 * MaxDelay) \in Nat
  BY <1>1, TurnsTyped, Times
<1>3. QED
  BY <1>2 DEF WaitBound, ThisTurn

(* Between two regular reports the turns stay, and what is left of this    *)
(* one never grows.                                                        *)
LEMMA SameTurn ==
    ASSUME IInv, IInv', NEW p \in Peers, turn' = turn, ThisTurn' <= ThisTurn,
           Tick => ThisTurn' < ThisTurn
    PROVE  Nearer(p)
<1>1. Turns(p)' = Turns(p)
  BY DEF Turns
<1>2. /\ Turns(p) * (2 * MaxDelay) \in Nat
      /\ WaitBound(p) = ThisTurn + Turns(p) * (2 * MaxDelay)
  BY WaitsTyped
<1>3. WaitBound(p)' = ThisTurn' + Turns(p) * (2 * MaxDelay)
  BY <1>1 DEF WaitBound, ThisTurn
<1>4. ThisTurn \in Nat
  BY ThisTurnBound
<1>5. ThisTurn' \in Nat
  BY NextTurnBound
<1>6. QED
  BY <1>2, <1>3, <1>4, <1>5 DEF Nearer

(* The report of another peer takes one turn off, which pays for the next  *)
(* sleep and its early report.                                             *)
LEMMA NextTurn ==
    ASSUME IInv, IInv', NEW p \in Peers, ReportsRegularly, p # turn
    PROVE  Nearer(p)
<1>1. turn' = (turn % NumPeers) + 1 /\ ~Tick
  BY DEF ReportsRegularly, Tick, IInv, TypeOK
<1>2. turn \in Peers /\ turn' = IF turn = NumPeers THEN 1 ELSE turn + 1
  <2>1. turn \in 1 .. NumPeers /\ NumPeers \in Nat
    BY Bounds DEF IInv, TypeOK
  <2>2. turn % NumPeers = IF turn = NumPeers THEN 0 ELSE turn
    BY <2>1
  <2>3. QED
    BY <1>1, <2>1, <2>2
<1>3. Turns(p)' \in Nat /\ Turns(p) = Turns(p)' + 1
  BY <1>2, Bounds DEF Turns
<1> DEFINE k == Turns(p)'
<1>4. 2 * MaxDelay \in Nat
  BY Bounds
<1>5. Turns(p) * (2 * MaxDelay) = k * (2 * MaxDelay) + 2 * MaxDelay
  BY <1>3, <1>4, Times
<1>6. ThisTurn' \in Nat /\ ThisTurn' <= 2 * MaxDelay
  BY NextTurnBound
<1>7. ThisTurn \in Nat
  BY ThisTurnBound
<1>8. k * (2 * MaxDelay) \in Nat
  BY <1>3, <1>4, Times
<1>9. WaitBound(p) = ThisTurn + Turns(p) * (2 * MaxDelay)
  BY WaitsTyped
<1>10. WaitBound(p)' = ThisTurn' + k * (2 * MaxDelay)
  BY DEF WaitBound, ThisTurn
<1>11. WaitBound(p)' <= WaitBound(p)
  <2> HIDE DEF k
  <2>1. QED
    BY <1>4, <1>5, <1>6, <1>7, <1>8, <1>9, <1>10
<1>12. QED
  BY <1>1, <1>11 DEF Nearer

(* A regular report takes everything the peer has queued.                  *)
LEMMA OwnTurn ==
    ASSUME IInv, ReportsRegularly, turn \in ssrcTable
    PROVE  fbQueue'[turn] = {}
BY DEF IInv, TypeOK, ReportsRegularly, Report, FromFbQueue, TooOld

LEMMA NoMore ==
    ASSUME NEW a \in Nat, NEW b \in Nat, NEW m \in Nat, b <= m
    PROVE  b + 0 <= a + m
OBVIOUS

LEMMA OthersTurn ==
    ASSUME IInv, IInv', Next, ~ReportsRegularly
    PROVE  /\ turn' = turn /\ ThisTurn' <= ThisTurn
           /\ Tick => ThisTurn' < ThisTurn
<1>1. CASE Tick
  BY <1>1, Bounds DEF IInv, TypeOK, Tick, ThisTurn
<1>2. CASE reconsiderTiming
  <2>1. turn' = turn /\ ~Tick
    BY <1>2 DEF reconsiderTiming, Tick, IInv, TypeOK
  <2>2. CASE SendsNow \/ OutOfLuck
    <3>1. SleepOn /\ fbAllowEarly' = fbAllowEarly
      BY <2>2 DEF SendsNow, OutOfLuck
    <3>2. PICK d \in Nat : d <= asleep /\ asleep' = d
      BY <3>1, SleepOnBounds
    <3>3. asleep \in Nat
      BY DEF IInv, TypeOK
    <3>4. ThisTurn' <= ThisTurn
      BY <3>1, <3>2, <3>3, Bounds DEF ThisTurn
    <3>5. QED
      BY <2>1, <3>4
  <2>3. CASE SendsEarly
    <3>1. fbAllowEarly /\ fbAllowEarly' = FALSE
      BY <2>3 DEF SendsEarly
    <3>2. asleep' <= MaxDelay /\ asleep' \in Nat /\ asleep \in Nat
      BY DEF IInv, TypeOK, DelayBudget
    <3>3. ThisTurn = asleep + MaxDelay /\ ThisTurn' = asleep' + 0
      BY <3>1 DEF ThisTurn
    <3>4. asleep' + 0 <= asleep + MaxDelay
      BY <3>2, Bounds, NoMore
    <3>5. ThisTurn' <= ThisTurn
      BY <3>3, <3>4
    <3>6. QED
      BY <2>1, <3>5
  <2>4. QED
    BY <1>2, <2>2, <2>3 DEF reconsiderTiming
<1>3. CASE ~Tick /\ ~reconsiderTiming
  <2>1. UNCHANGED <<turn, asleep, fbAllowEarly>>
    BY <1>3 DEF Next, Register, Hears, QueueApp, QueueFeedback, NamesPeer, Interrupts
  <2>2. ThisTurn' = ThisTurn
    BY <2>1 DEF ThisTurn
  <2>3. QED
    BY <1>3, <2>1, <2>2, ThisTurnBound
<1>4. QED
  BY <1>1, <1>2, <1>3

(* Feedback for a peer that is known leaves the queue in time: until it    *)
(* does, every step, whatever feedback, new peers and thresholds come,     *)
(* leaves its bound or lowers it, and every tick lowers it.                *)
THEOREM QueueDrainsInTime ==
    Spec => [][\A p \in Peers, f \in Formats :
                  f \in fbQueue[p] /\ p \in ssrcTable => f \notin fbQueue'[p] \/ Nearer(p)]_vars
<1>1. ASSUME IInv, IInv', Next, NEW p \in Peers, NEW f \in Formats, p \in ssrcTable
      PROVE  f \notin fbQueue'[p] \/ Nearer(p)
  <2>1. CASE ReportsRegularly /\ p = turn
    BY <1>1, <2>1, OwnTurn
  <2>2. CASE ReportsRegularly /\ p # turn
    BY <1>1, <2>2, NextTurn
  <2>3. CASE ~ReportsRegularly
    BY <1>1, <2>3, OthersTurn, SameTurn
  <2>4. QED
    BY <2>1, <2>2, <2>3
<1>2. IInv /\ [Next]_vars => IInv'
  BY FeedbackNext
<1>3. IInv /\ [Next]_vars =>
        [\A p \in Peers, f \in Formats :
            f \in fbQueue[p] /\ p \in ssrcTable => f \notin fbQueue'[p] \/ Nearer(p)]_vars
  BY <1>1, <1>2
<1>4. QED
  BY <1>3, FeedbackInvariant, PTL DEF Spec

(* The bound itself: two delays for each peer of the list.                 *)
THEOREM WaitIsBounded == Spec => [](\A p \in Peers : WaitBound(p) <= NumPeers * (2 * MaxDelay))
<1>1. ASSUME IInv, NEW p \in Peers PROVE WaitBound(p) <= NumPeers * (2 * MaxDelay)
  <2>1. 2 * MaxDelay \in Nat /\ NumPeers \in Nat /\ NumPeers - 1 \in Nat
    BY Bounds
  <2>2. Turns(p) * (2 * MaxDelay) <= (NumPeers - 1) * (2 * MaxDelay)
    BY <1>1, <2>1, TurnsTyped, Times
  <2>3. NumPeers * (2 * MaxDelay) = (NumPeers - 1) * (2 * MaxDelay) + 2 * MaxDelay
    <3>1. NumPeers = (NumPeers - 1) + 1
      BY <2>1
    <3>2. QED
      BY <2>1, <3>1, Times
  <2>4. (NumPeers - 1) * (2 * MaxDelay) \in Nat
    BY <2>1, Times
  <2>5. QED
    BY <1>1, <2>1, <2>2, <2>3, <2>4, WaitsTyped, ThisTurnBound
<1>2. IInv => \A p \in Peers : WaitBound(p) <= NumPeers * (2 * MaxDelay)
  BY <1>1
<1>3. QED
  BY <1>2, FeedbackInvariant, PTL
=============================================================================
