--------------------------- MODULE SsrcConflictProofs ---------------------------
(* Theorems about SsrcConflict, for any limit and any number of conflicts. *)
EXTENDS SsrcConflict, TLAPS

(* A packet or a report that is late already is the first since ssrc was   *)
(* assigned.                                                               *)
FirstLate ==
    /\ stale <= 1
    /\ mixed <= 1
    /\ pc["app"] \in {"check", "send"} /\ src # ssrc => stale = 0
    /\ pc["sender"] = "describe" /\ header # ssrc => mixed = 0

(* One for a receiver that has not stored its conflictCount + 1.           *)
Pending(t) == IF pc[t] \in {"count", "store"} THEN 1 ELSE 0

(* conflictCount, and what is about to become its next value, leave room   *)
(* for the calls that are yet to be counted.                               *)
CountsCalls ==
    /\ conflictCount + Pending("rtp") + Pending("rtcp") <= calls
    /\ \A t \in Receivers :
         pc[t] = "store" =>
           /\ reg[t] >= 0
           /\ reg[t] + Pending("rtp") + Pending("rtcp") <= calls
    /\ \A t \in Receivers : pc[t] = "end" => calls >= ConflictLimit
    /\ \A t \in Receivers : Resolving(t) => todo[t] > 0
    /\ endSession => calls >= ConflictLimit

IInv == TypeOK /\ FirstLate /\ CountsCalls

USE DEF session, resolver, sending, reporting, Receivers, Threads, At, Goto, Resolving

LEMMA ConflictInit == Init => IInv
<1> SUFFICES ASSUME Init PROVE IInv
  OBVIOUS
<1>1. TypeOK
  <2>1. pc \in [Threads -> Places]
    BY DEF Init, Places
  <2>2. todo \in [Receivers -> Nat]
    BY DEF Init
  <2>3. reg \in [Receivers -> Int]
    BY DEF Init
  <2>4. /\ ssrc \in Int /\ conflictCount \in Nat /\ src \in Int /\ header \in Int /\ calls \in Nat
        /\ drawn \in Nat /\ stale \in Nat /\ mixed \in Nat
    BY SMT DEF Init
  <2>5. /\ conflict \in BOOLEAN /\ endSession \in BOOLEAN /\ byesSent \in BOOLEAN
        /\ overlap \in BOOLEAN /\ announced \in BOOLEAN /\ silent \in BOOLEAN
    BY Zenon DEF Init
  <2>6. QED
    BY <2>1, <2>2, <2>3, <2>4, <2>5 DEF TypeOK
<1>2. FirstLate
  BY DEF Init, FirstLate
<1>3. CountsCalls
  BY DEF Init, CountsCalls, Pending
<1>4. QED
  BY <1>1, <1>2, <1>3 DEF IInv

LEMMA AppStep ==
    ASSUME IInv, App
    PROVE  IInv'
<1>1. CASE StartRtpThreads
  BY <1>1 DEF IInv, TypeOK, FirstLate, CountsCalls, Pending, Places, StartRtpThreads
<1>2. CASE StartRtcpThreads
  BY <1>2 DEF IInv, TypeOK, FirstLate, CountsCalls, Pending, Places, StartRtcpThreads
<1>3. CASE BuildPacket
  BY <1>3 DEF IInv, TypeOK, FirstLate, CountsCalls, Pending, Places, BuildPacket
<1>4. CASE CheckConflict
  BY <1>4 DEF IInv, TypeOK, FirstLate, CountsCalls, Pending, Places, CheckConflict
<1>5. CASE SendPacket
  BY <1>5 DEF IInv, TypeOK, FirstLate, CountsCalls, Pending, Places, SendPacket
<1>6. QED
  BY <1>1, <1>2, <1>3, <1>4, <1>5 DEF App

LEMMA MeetStep ==
    ASSUME IInv, NEW t \in Receivers, NEW n \in Nat, n > 0, Meet(t, n)
    PROVE  IInv'
<1>0. pc' \in [Threads -> Places]
  BY DEF IInv, TypeOK, Places, Meet
<1>1. TypeOK'
  BY <1>0 DEF IInv, TypeOK, Meet
<1>2. FirstLate'
  BY DEF IInv, TypeOK, FirstLate, Meet
<1>3. CountsCalls'
  BY ConflictLimitAssumption DEF IInv, TypeOK, CountsCalls, Pending, Meet, ConflictLimitAssumption
<1>4. QED
  BY <1>1, <1>2, <1>3 DEF IInv

LEMMA ResolveStep ==
    ASSUME IInv, NEW t \in Receivers, Resolve(t)
    PROVE  IInv'
<1> USE ConflictLimitAssumption DEF ConflictLimitAssumption
<1>1. CASE CountReads(t)
  <2>1. pc' \in [Threads -> Places]
    BY <1>1 DEF IInv, TypeOK, Places, CountReads
  <2>2. TypeOK'
    BY <1>1, <2>1 DEF IInv, TypeOK, CountReads
  <2>3. FirstLate'
    BY <1>1 DEF IInv, TypeOK, FirstLate, CountReads
  <2>4. CountsCalls'
    BY <1>1 DEF IInv, TypeOK, CountsCalls, Pending, CountReads
  <2>5. QED
    BY <2>2, <2>3, <2>4 DEF IInv
<1>2. CASE CountWrites(t)
  <2>1. pc' \in [Threads -> Places]
    BY <1>2 DEF IInv, TypeOK, Places, CountWrites
  <2>0. reg' \in [Receivers -> Int]
    BY <1>2 DEF IInv, TypeOK, CountWrites
  <2>2. TypeOK'
    <3>2. todo' \in [Receivers -> Nat]
      BY <1>2 DEF IInv, TypeOK, CountWrites
    <3>3. /\ ssrc' \in Int /\ conflictCount' \in Nat /\ src' \in Int /\ header' \in Int
         /\ calls' \in Nat /\ drawn' \in Nat /\ stale' \in Nat /\ mixed' \in Nat
      BY <1>2, SMT DEF IInv, TypeOK, CountsCalls, CountWrites
    <3>4. /\ conflict' \in BOOLEAN /\ endSession' \in BOOLEAN /\ byesSent' \in BOOLEAN
         /\ overlap' \in BOOLEAN /\ announced' \in BOOLEAN /\ silent' \in BOOLEAN
      BY <1>2, Zenon DEF IInv, TypeOK, CountWrites
    <3>5. QED
      BY <2>0, <2>1, <3>2, <3>3, <3>4 DEF TypeOK
  <2>3. FirstLate'
    BY <1>2 DEF IInv, TypeOK, FirstLate, CountWrites
  <2>4. CountsCalls'
    BY <1>2 DEF IInv, TypeOK, CountsCalls, Pending, CountWrites
  <2>5. QED
    BY <2>2, <2>3, <2>4 DEF IInv
<1>3. CASE TestLimit(t)
  <2>1. pc' \in [Threads -> Places]
    BY <1>3 DEF IInv, TypeOK, Places, TestLimit
  <2>2. TypeOK'
    BY <1>3, <2>1 DEF IInv, TypeOK, TestLimit
  <2>3. FirstLate'
    BY <1>3 DEF IInv, TypeOK, FirstLate, TestLimit
  <2>4. CountsCalls'
    BY <1>3 DEF IInv, TypeOK, CountsCalls, Pending, TestLimit
  <2>5. QED
    BY <2>2, <2>3, <2>4 DEF IInv
<1>4. CASE SendsByes(t)
  <2>1. pc' \in [Threads -> Places]
    BY <1>4 DEF IInv, TypeOK, Places, SendsByes, WalkFails
  <2>2. TypeOK'
    BY <1>4, <2>1 DEF IInv, TypeOK, SendsByes, WalkFails
  <2>3. FirstLate'
    BY <1>4 DEF IInv, TypeOK, FirstLate, SendsByes, WalkFails
  <2>4. CountsCalls'
    BY <1>4 DEF IInv, TypeOK, CountsCalls, Pending, SendsByes, WalkFails
  <2>5. QED
    BY <2>2, <2>3, <2>4 DEF IInv
<1>5. CASE Draws(t)
  <2>0. pc' \in [Threads -> Places]
    BY <1>5 DEF IInv, TypeOK, Places, Draws
  <2>1. TypeOK'
    <3>1. reg' \in [Receivers -> Int]
      BY <1>5 DEF IInv, TypeOK, Draws, Assign
    <3>2. todo' \in [Receivers -> Nat]
      BY <1>5 DEF IInv, TypeOK, Draws, Assign
    <3>3. /\ ssrc' \in Int /\ conflictCount' \in Nat /\ src' \in Int /\ header' \in Int
         /\ calls' \in Nat /\ drawn' \in Nat /\ stale' \in Nat /\ mixed' \in Nat
      BY <1>5, SMT DEF IInv, TypeOK, Draws, Assign
    <3>4. /\ conflict' \in BOOLEAN /\ endSession' \in BOOLEAN /\ byesSent' \in BOOLEAN
         /\ overlap' \in BOOLEAN /\ announced' \in BOOLEAN /\ silent' \in BOOLEAN
      BY <1>5, Zenon DEF IInv, TypeOK, Draws, Assign
    <3>5. QED
      BY <2>0, <3>1, <3>2, <3>3, <3>4 DEF TypeOK
  <2>2. FirstLate'
    BY <1>5 DEF IInv, TypeOK, FirstLate, Draws, Assign
  <2>3. CountsCalls'
    BY <1>5 DEF IInv, TypeOK, CountsCalls, Pending, Draws
  <2>4. QED
    BY <2>1, <2>2, <2>3 DEF IInv
<1>6. CASE TestsSign(t)
  <2>1. pc' \in [Threads -> Places]
    BY <1>6 DEF IInv, TypeOK, Places, TestsSign
  <2>2. TypeOK'
    BY <1>6, <2>1 DEF IInv, TypeOK, TestsSign
  <2>3. FirstLate'
    BY <1>6 DEF IInv, TypeOK, FirstLate, TestsSign
  <2>4. CountsCalls'
    BY <1>6 DEF IInv, TypeOK, CountsCalls, Pending, TestsSign
  <2>5. QED
    BY <2>2, <2>3, <2>4 DEF IInv
<1>7. CASE NegateReads(t)
  <2>1. pc' \in [Threads -> Places]
    BY <1>7 DEF IInv, TypeOK, Places, NegateReads
  <2>2. TypeOK'
    BY <1>7, <2>1 DEF IInv, TypeOK, NegateReads
  <2>3. FirstLate'
    BY <1>7 DEF IInv, TypeOK, FirstLate, NegateReads
  <2>4. CountsCalls'
    BY <1>7 DEF IInv, TypeOK, CountsCalls, Pending, NegateReads
  <2>5. QED
    BY <2>2, <2>3, <2>4 DEF IInv
<1>8. CASE NegateWrites(t)
  <2>1. pc' \in [Threads -> Places]
    BY <1>8 DEF IInv, TypeOK, Places, NegateWrites
  <2>0. reg' \in [Receivers -> Int]
    BY <1>8 DEF IInv, TypeOK, NegateWrites
  <2>2. TypeOK'
    <3>2. todo' \in [Receivers -> Nat]
      BY <1>8 DEF IInv, TypeOK, NegateWrites, Assign
    <3>3. /\ ssrc' \in Int /\ conflictCount' \in Nat /\ src' \in Int /\ header' \in Int
         /\ calls' \in Nat /\ drawn' \in Nat /\ stale' \in Nat /\ mixed' \in Nat
      BY <1>8, SMT DEF IInv, TypeOK, NegateWrites, Assign
    <3>4. /\ conflict' \in BOOLEAN /\ endSession' \in BOOLEAN /\ byesSent' \in BOOLEAN
         /\ overlap' \in BOOLEAN /\ announced' \in BOOLEAN /\ silent' \in BOOLEAN
      BY <1>8, Zenon DEF IInv, TypeOK, NegateWrites, Assign
    <3>5. QED
      BY <2>0, <2>1, <3>2, <3>3, <3>4 DEF TypeOK
  <2>3. FirstLate'
    BY <1>8 DEF IInv, TypeOK, FirstLate, NegateWrites, Assign
  <2>4. CountsCalls'
    BY <1>8 DEF IInv, TypeOK, CountsCalls, Pending, NegateWrites, Assign
  <2>5. QED
    BY <2>2, <2>3, <2>4 DEF IInv
<1>9. CASE Settles(t)
  <2>0. pc' \in [Threads -> Places]
    BY <1>9 DEF IInv, TypeOK, Places, Settles, Resolved
  <2>5. todo' \in [Receivers -> Nat]
    BY <1>9 DEF IInv, TypeOK, CountsCalls, Settles, Resolved
  <2>1. TypeOK'
    <3>1. reg' \in [Receivers -> Int]
      BY <1>9 DEF IInv, TypeOK, Settles, Resolved
    <3>3. /\ ssrc' \in Int /\ conflictCount' \in Nat /\ src' \in Int /\ header' \in Int
         /\ calls' \in Nat /\ drawn' \in Nat /\ stale' \in Nat /\ mixed' \in Nat
      BY <1>9, SMT DEF IInv, TypeOK, Settles, Resolved
    <3>4. /\ conflict' \in BOOLEAN /\ endSession' \in BOOLEAN /\ byesSent' \in BOOLEAN
         /\ overlap' \in BOOLEAN /\ announced' \in BOOLEAN /\ silent' \in BOOLEAN
      BY <1>9, Zenon DEF IInv, TypeOK, Settles, Resolved
    <3>5. QED
      BY <2>0, <2>5, <3>1, <3>3, <3>4 DEF TypeOK
  <2>2. FirstLate'
    BY <1>9 DEF IInv, TypeOK, FirstLate, Settles, Resolved
  <2>3. CountsCalls'
    BY <1>9 DEF IInv, TypeOK, CountsCalls, Pending, Settles, Resolved
  <2>4. QED
    BY <2>1, <2>2, <2>3 DEF IInv
<1>10. CASE EndsSession(t)
  <2>0. pc' \in [Threads -> Places]
    BY <1>10 DEF IInv, TypeOK, Places, EndsSession, Resolved
  <2>5. todo' \in [Receivers -> Nat]
    BY <1>10 DEF IInv, TypeOK, CountsCalls, EndsSession, Resolved
  <2>1. TypeOK'
    <3>1. reg' \in [Receivers -> Int]
      BY <1>10 DEF IInv, TypeOK, EndsSession, Resolved
    <3>3. /\ ssrc' \in Int /\ conflictCount' \in Nat /\ src' \in Int /\ header' \in Int
         /\ calls' \in Nat /\ drawn' \in Nat /\ stale' \in Nat /\ mixed' \in Nat
      BY <1>10, SMT DEF IInv, TypeOK, EndsSession, Resolved
    <3>4. /\ conflict' \in BOOLEAN /\ endSession' \in BOOLEAN /\ byesSent' \in BOOLEAN
         /\ overlap' \in BOOLEAN /\ announced' \in BOOLEAN /\ silent' \in BOOLEAN
      BY <1>10, Zenon DEF IInv, TypeOK, EndsSession, Resolved
    <3>5. QED
      BY <2>0, <2>5, <3>1, <3>3, <3>4 DEF TypeOK
  <2>2. FirstLate'
    BY <1>10 DEF IInv, TypeOK, FirstLate, EndsSession, Resolved
  <2>3. CountsCalls'
    BY <1>10 DEF IInv, TypeOK, CountsCalls, Pending, EndsSession, Resolved
  <2>4. QED
    BY <2>1, <2>2, <2>3 DEF IInv
<1>11. QED
  BY <1>1, <1>2, <1>3, <1>4, <1>5, <1>6, <1>7, <1>8, <1>9, <1>10 DEF Resolve

LEMMA SenderStep ==
    ASSUME IInv, Sender
    PROVE  IInv'
<1>1. CASE SenderWakes
  <2>1. TypeOK'
    BY <1>1 DEF IInv, TypeOK, Places, SenderWakes
  <2>2. FirstLate'
    BY <1>1 DEF IInv, TypeOK, FirstLate, SenderWakes
  <2>3. CountsCalls'
    BY <1>1 DEF IInv, TypeOK, CountsCalls, Pending, SenderWakes
  <2>4. QED
    BY <2>1, <2>2, <2>3 DEF IInv
<1>2. CASE SenderByes
  <2>1. TypeOK'
    BY <1>2 DEF IInv, TypeOK, Places, SenderByes, WalkFails
  <2>2. FirstLate'
    BY <1>2 DEF IInv, TypeOK, FirstLate, SenderByes, WalkFails
  <2>3. CountsCalls'
    BY <1>2 DEF IInv, TypeOK, CountsCalls, Pending, SenderByes, WalkFails
  <2>4. QED
    BY <2>1, <2>2, <2>3 DEF IInv
<1>3. CASE SenderReports
  <2>1. TypeOK'
    BY <1>3 DEF IInv, TypeOK, Places, SenderReports
  <2>2. FirstLate'
    BY <1>3 DEF IInv, TypeOK, FirstLate, SenderReports
  <2>3. CountsCalls'
    BY <1>3 DEF IInv, TypeOK, CountsCalls, Pending, SenderReports
  <2>4. QED
    BY <2>1, <2>2, <2>3 DEF IInv
<1>4. CASE SenderDescribes
  <2>1. TypeOK'
    BY <1>4 DEF IInv, TypeOK, Places, SenderDescribes
  <2>2. FirstLate'
    BY <1>4 DEF IInv, TypeOK, FirstLate, SenderDescribes
  <2>3. CountsCalls'
    BY <1>4 DEF IInv, TypeOK, CountsCalls, Pending, SenderDescribes
  <2>4. QED
    BY <2>1, <2>2, <2>3 DEF IInv
<1>5. QED
  BY <1>1, <1>2, <1>3, <1>4 DEF Sender

LEMMA ConflictNext == IInv /\ [Next]_vars => IInv'
<1> SUFFICES ASSUME IInv, [Next]_vars PROVE IInv'
  OBVIOUS
<1>1. CASE App
  BY <1>1, AppStep
<1>2. CASE RtpMeetsConflict
  <2>1. PICK own \in {0, 1}, csrcs \in 0 .. MaxCsrcs : own + csrcs > 0 /\ Meet("rtp", own + csrcs)
    BY <1>2 DEF RtpMeetsConflict
  <2>2. own + csrcs \in Nat
    BY BoundsAssumption DEF BoundsAssumption
  <2>3. QED
    BY <2>1, <2>2, MeetStep
<1>3. CASE RtcpMeetsConflict
  BY <1>3, MeetStep DEF RtcpMeetsConflict
<1>4. CASE \E t \in Receivers : Resolve(t)
  BY <1>4, ResolveStep
<1>5. CASE Sender
  BY <1>5, SenderStep
<1>6. CASE UNCHANGED vars
  BY <1>6 DEF IInv, TypeOK, FirstLate, CountsCalls, Pending, vars
<1>7. QED
  BY <1>1, <1>2, <1>3, <1>4, <1>5, <1>6 DEF Next

LEMMA Inductive == Spec => []IInv
  BY ConflictInit, ConflictNext, PTL DEF Spec

(* At most one packet and one report go out with an SSRC that is no longer *)
(* the session's, for each assignment to it: sendData and preparePacket    *)
(* read ssrc, and conflicts are resolved before they are done.             *)
THEOREM LateOnce == Spec => []OneStalePerChange
<1>1. IInv => OneStalePerChange
  BY DEF IInv, FirstLate, OneStalePerChange
<1>2. QED
  BY Inductive, <1>1, PTL

(* resolveSsrcConflict never ends a session before the limit, although two *)
(* threads increment conflictCount without a lock.                         *)
THEOREM NotTooEarly == Spec => []EndsOnlyAtLimit
<1>1. IInv => EndsOnlyAtLimit
  BY DEF IInv, CountsCalls, EndsOnlyAtLimit
<1>2. QED
  BY Inductive, <1>1, PTL

-----------------------------------------------------------------------------
(* One resolution at a time *)

(* The RTP receiver starts first, and RTCPSession.start() then starts both *)
(* threads of RTCP.                                                        *)
Startup ==
    /\ pc["app"] = "register" => pc["rtp"] = "unborn"
    /\ pc["app"] \in {"register", "startRtcp"} => pc["sender"] = "unborn"
    /\ pc["sender"] = "unborn" => pc["rtcp"] = "unborn"

Announcing(t) == pc[t] \in {"byes", "draw", "sign", "negate", "flip", "settle"}
Drawing(t) == pc[t] \in {"sign", "negate", "flip"}
Counting(t) == pc[t] \in {"count", "store"}

(* How far a resolution that is alone has come.                            *)
Alone ==
    ~overlap =>
        /\ ~(Resolving("rtp") /\ Resolving("rtcp"))
        /\ ~silent
        /\ \A t \in Receivers :
             /\ pc[t] = "count" => conflictCount + 1 = calls
             /\ pc[t] = "store" => conflictCount + 1 = calls /\ reg[t] = conflictCount
             /\ pc[t] = "draw" => announced
             /\ pc[t] = "sign" => ssrc # 0
             /\ pc[t] = "negate" => ssrc < 0
             /\ pc[t] = "flip" => ssrc < 0 /\ reg[t] = ssrc
        /\ ~Counting("rtp") /\ ~Counting("rtcp") => conflictCount = calls
        /\ ~Drawing("rtp") /\ ~Drawing("rtcp") => ssrc > 0
        /\ conflict => \/ Announcing("rtp") \/ Announcing("rtcp")
                       \/ pc["rtp"] = "dead" \/ pc["rtcp"] = "dead"

Orderly == IInv /\ Startup /\ Alone

LEMMA OrderlyInit == Init => Orderly
BY ConflictInit DEF Orderly, Init, Startup, Alone, Announcing, Drawing, Counting

LEMMA OrderlyApp ==
    ASSUME Orderly, App
    PROVE  Startup' /\ Alone'
<1> USE DEF Orderly, IInv, TypeOK, Startup, Alone, Announcing, Drawing, Counting
<1>1. CASE StartRtpThreads
  BY <1>1 DEF StartRtpThreads
<1>2. CASE StartRtcpThreads
  BY <1>2 DEF StartRtcpThreads
<1>3. CASE BuildPacket
  BY <1>3 DEF BuildPacket
<1>4. CASE CheckConflict
  BY <1>4 DEF CheckConflict
<1>5. CASE SendPacket
  BY <1>5 DEF SendPacket
<1>6. QED
  BY <1>1, <1>2, <1>3, <1>4, <1>5 DEF App

LEMMA OrderlyMeet ==
    ASSUME Orderly, NEW t \in Receivers, NEW n \in Nat, n > 0, Meet(t, n)
    PROVE  Startup' /\ Alone'
BY DEF Orderly, IInv, TypeOK, Startup, Alone, Announcing, Drawing, Counting, Meet

LEMMA OrderlyResolve ==
    ASSUME Orderly, NEW t \in Receivers, Resolve(t)
    PROVE  Startup' /\ Alone'
<1> USE DEF Orderly, IInv, TypeOK, Startup, Alone, Announcing, Drawing, Counting
<1>1. CASE CountReads(t)
  BY <1>1 DEF CountReads
<1>2. CASE CountWrites(t)
  BY <1>2 DEF CountWrites
<1>3. CASE TestLimit(t)
  BY <1>3 DEF TestLimit
<1>4. CASE SendsByes(t)
  BY <1>4 DEF SendsByes, WalkFails
<1>5. CASE Draws(t)
  BY <1>5 DEF Draws, Assign
<1>6. CASE TestsSign(t)
  BY <1>6 DEF TestsSign
<1>7. CASE NegateReads(t)
  BY <1>7 DEF NegateReads
<1>8. CASE NegateWrites(t)
  BY <1>8 DEF NegateWrites, Assign
<1>9. CASE Settles(t)
  BY <1>9 DEF Settles, Resolved
<1>10. CASE EndsSession(t)
  BY <1>10 DEF EndsSession, Resolved
<1>11. QED
  BY <1>1, <1>2, <1>3, <1>4, <1>5, <1>6, <1>7, <1>8, <1>9, <1>10 DEF Resolve

LEMMA OrderlySender ==
    ASSUME Orderly, Sender
    PROVE  Startup' /\ Alone'
<1> USE DEF Orderly, IInv, TypeOK, Startup, Alone, Announcing, Drawing, Counting
<1>1. CASE SenderWakes
  BY <1>1 DEF SenderWakes
<1>2. CASE SenderByes
  <2>1. /\ UNCHANGED <<session, resolver>>
        /\ announced => announced'
        /\ pc["sender"] \in {"byes", "lastByes"}
        /\ \E l \in {"sleep", "done", "dead"} : pc' = [pc EXCEPT !["sender"] = l]
    <3>1. UNCHANGED <<session, resolver>> /\ pc["sender"] \in {"byes", "lastByes"}
      BY <1>2 DEF SenderByes
    <3>2. announced' = TRUE \/ announced' = announced
      BY <1>2, Zenon DEF SenderByes, WalkFails
    <3>3. \E l \in {"sleep", "done", "dead"} : pc' = [pc EXCEPT !["sender"] = l]
      BY <1>2, Zenon DEF SenderByes, WalkFails
    <3>4. QED
      BY <3>1, <3>2, <3>3
  <2>2. pc'["sender"] # "unborn" /\ \A t \in {"app", "rtp", "rtcp"} : pc'[t] = pc[t]
    BY <2>1
  <2>3. Startup'
    BY <2>1, <2>2
  <2>4. Alone'
    BY <2>1, <2>2
  <2>5. QED
    BY <2>3, <2>4
<1>3. CASE SenderReports
  BY <1>3 DEF SenderReports
<1>4. CASE SenderDescribes
  BY <1>4 DEF SenderDescribes
<1>5. QED
  BY <1>1, <1>2, <1>3, <1>4 DEF Sender

LEMMA OrderlyNext == Orderly /\ [Next]_vars => Orderly'
<1> SUFFICES ASSUME Orderly, [Next]_vars PROVE Startup' /\ Alone'
  BY ConflictNext DEF Orderly
<1>1. CASE App
  BY <1>1, OrderlyApp
<1>2. CASE RtpMeetsConflict
  <2>1. PICK own \in {0, 1}, csrcs \in 0 .. MaxCsrcs : own + csrcs > 0 /\ Meet("rtp", own + csrcs)
    BY <1>2 DEF RtpMeetsConflict
  <2>2. own + csrcs \in Nat
    BY BoundsAssumption DEF BoundsAssumption
  <2>3. QED
    BY <2>1, <2>2, OrderlyMeet
<1>3. CASE RtcpMeetsConflict
  BY <1>3, OrderlyMeet DEF RtcpMeetsConflict
<1>4. CASE \E t \in Receivers : Resolve(t)
  BY <1>4, OrderlyResolve
<1>5. CASE Sender
  BY <1>5, OrderlySender
<1>6. CASE UNCHANGED vars
  BY <1>6 DEF Orderly, Startup, Alone, Announcing, Drawing, Counting, vars
<1>7. QED
  BY <1>1, <1>2, <1>3, <1>4, <1>5, <1>6 DEF Next

(* As long as resolveSsrcConflict is not run by both receivers at once,    *)
(* every SSRC given up was announced, the count is exact, and the flag     *)
(* comes down again, whatever the application and the RTCP sender do.      *)
THEOREM AloneIsOrderly == Spec => []OrderlyAlone
<1>1. Orderly => OrderlyAlone
  BY DEF Orderly, Alone, Announcing, Drawing, Counting, OrderlyAlone
<1>2. QED
  BY OrderlyInit, OrderlyNext, <1>1, PTL DEF Spec

-----------------------------------------------------------------------------
(* What is left of a resolution *)

(* The flag is up only while a receiver is between putting it up and       *)
(* taking it down, however the two overlap.                                *)
FlagHasOwner ==
    conflict => \/ Announcing("rtp") \/ Announcing("rtcp")
                \/ pc["rtp"] = "dead" \/ pc["rtcp"] = "dead"

FlagInv == IInv /\ Startup /\ FlagHasOwner

LEMMA FlagInit == Init => FlagInv
BY ConflictInit, OrderlyInit DEF Orderly, FlagInv, Init, FlagHasOwner

LEMMA FlagApp ==
    ASSUME FlagInv, App
    PROVE  Startup' /\ FlagHasOwner'
<1> USE DEF FlagInv, IInv, TypeOK, Startup, FlagHasOwner, Announcing
<1>1. CASE StartRtpThreads
  BY <1>1 DEF StartRtpThreads
<1>2. CASE StartRtcpThreads
  BY <1>2 DEF StartRtcpThreads
<1>3. CASE BuildPacket
  BY <1>3 DEF BuildPacket
<1>4. CASE CheckConflict
  BY <1>4 DEF CheckConflict
<1>5. CASE SendPacket
  BY <1>5 DEF SendPacket
<1>6. QED
  BY <1>1, <1>2, <1>3, <1>4, <1>5 DEF App

LEMMA FlagMeet ==
    ASSUME FlagInv, NEW t \in Receivers, NEW n \in Nat, n > 0, Meet(t, n)
    PROVE  Startup' /\ FlagHasOwner'
BY DEF FlagInv, IInv, TypeOK, Startup, FlagHasOwner, Announcing, Meet

LEMMA FlagResolve ==
    ASSUME FlagInv, NEW t \in Receivers, Resolve(t)
    PROVE  Startup' /\ FlagHasOwner'
<1> USE DEF FlagInv, IInv, TypeOK, Startup, FlagHasOwner, Announcing
<1>1. CASE CountReads(t)
  BY <1>1 DEF CountReads
<1>2. CASE CountWrites(t)
  BY <1>2 DEF CountWrites
<1>3. CASE TestLimit(t)
  BY <1>3 DEF TestLimit
<1>4. CASE SendsByes(t)
  BY <1>4 DEF SendsByes, WalkFails
<1>5. CASE Draws(t)
  BY <1>5 DEF Draws, Assign
<1>6. CASE TestsSign(t)
  BY <1>6 DEF TestsSign
<1>7. CASE NegateReads(t)
  BY <1>7 DEF NegateReads
<1>8. CASE NegateWrites(t)
  BY <1>8 DEF NegateWrites, Assign
<1>9. CASE Settles(t)
  BY <1>9 DEF Settles, Resolved
<1>10. CASE EndsSession(t)
  BY <1>10 DEF EndsSession, Resolved
<1>11. QED
  BY <1>1, <1>2, <1>3, <1>4, <1>5, <1>6, <1>7, <1>8, <1>9, <1>10 DEF Resolve

LEMMA FlagSender ==
    ASSUME FlagInv, Sender
    PROVE  Startup' /\ FlagHasOwner'
<1> USE DEF FlagInv, IInv, TypeOK, Startup, FlagHasOwner, Announcing
<1>1. CASE SenderWakes
  BY <1>1 DEF SenderWakes
<1>2. CASE SenderByes
  BY <1>2 DEF SenderByes, WalkFails
<1>3. CASE SenderReports
  BY <1>3 DEF SenderReports
<1>4. CASE SenderDescribes
  BY <1>4 DEF SenderDescribes
<1>5. QED
  BY <1>1, <1>2, <1>3, <1>4 DEF Sender

LEMMA FlagNext == FlagInv /\ [Next]_vars => FlagInv'
<1> SUFFICES ASSUME FlagInv, [Next]_vars PROVE Startup' /\ FlagHasOwner'
  BY ConflictNext DEF FlagInv
<1>1. CASE App
  BY <1>1, FlagApp
<1>2. CASE RtpMeetsConflict
  <2>1. PICK own \in {0, 1}, csrcs \in 0 .. MaxCsrcs : own + csrcs > 0 /\ Meet("rtp", own + csrcs)
    BY <1>2 DEF RtpMeetsConflict
  <2>2. own + csrcs \in Nat
    BY BoundsAssumption DEF BoundsAssumption
  <2>3. QED
    BY <2>1, <2>2, FlagMeet
<1>3. CASE RtcpMeetsConflict
  BY <1>3, FlagMeet DEF RtcpMeetsConflict
<1>4. CASE \E t \in Receivers : Resolve(t)
  BY <1>4, FlagResolve
<1>5. CASE Sender
  BY <1>5, FlagSender
<1>6. CASE UNCHANGED vars
  BY <1>6 DEF FlagInv, Startup, FlagHasOwner, Announcing, vars
<1>7. QED
  BY <1>1, <1>2, <1>3, <1>4, <1>5, <1>6 DEF Next

(* resolveSsrcConflict of two receivers at once may put the flag up twice  *)
(* and take it down once for both, but never leaves it up: as long as      *)
(* sendData and the RTCP sender are held off, a receiver is about to let   *)
(* them go, unless sendByes has killed it.                                 *)
THEOREM FlagNeverLeftUp == Spec => []FlagHasOwner
<1>1. FlagInv => FlagHasOwner
  BY DEF FlagInv
<1>2. QED
  BY FlagInit, FlagNext, <1>1, PTL DEF Spec

(* The steps left of one call of resolveSsrcConflict, at most.             *)
StepsOf(l) ==
    CASE l = "count" -> 9
      [] l = "store" -> 8
      [] l = "test" -> 7
      [] l = "byes" -> 6
      [] l = "draw" -> 5
      [] l = "sign" -> 4
      [] l = "negate" -> 3
      [] l = "flip" -> 2
      [] OTHER -> 1

(* The steps left of all the conflicts of the packet at hand, at most.     *)
StepsLeft(t) == IF Resolving(t) THEN 9 * (todo[t] - 1) + StepsOf(pc[t]) ELSE 0

ResolvingRunsDown ==
    \A t \in Receivers :
        Resolving(t) =>
            /\ StepsLeft(t) \in Nat \ {0}
            /\ StepsLeft(t)' <= StepsLeft(t)
            /\ Resolve(t) => StepsLeft(t)' < StepsLeft(t)

LEMMA StepsAtHand ==
    ASSUME IInv, NEW t \in Receivers, Resolving(t)
    PROVE  StepsLeft(t) \in Nat \ {0}
BY DEF IInv, TypeOK, CountsCalls, StepsLeft, StepsOf

LEMMA OwnStep ==
    ASSUME IInv, NEW t \in Receivers, Resolve(t)
    PROVE  StepsLeft(t)' < StepsLeft(t)
<1> USE DEF IInv, TypeOK, CountsCalls, StepsLeft, StepsOf
<1>1. CASE CountReads(t)
  BY <1>1 DEF CountReads
<1>2. CASE CountWrites(t)
  BY <1>2 DEF CountWrites
<1>3. CASE TestLimit(t)
  BY <1>3 DEF TestLimit
<1>4. CASE SendsByes(t)
  <2>1. todo' = todo /\ pc[t] = "byes" /\ pc'[t] \in {"draw", "dead"}
    BY <1>4 DEF SendsByes, WalkFails
  <2>2. StepsLeft(t) = 9 * (todo[t] - 1) + 6
    BY <2>1
  <2>3. StepsLeft(t)' = 9 * (todo[t] - 1) + 5 \/ StepsLeft(t)' = 0
    BY <2>1
  <2>4. todo[t] \in Nat \ {0}
    BY <2>1
  <2>5. QED
    BY <2>2, <2>3, <2>4
<1>5. CASE Draws(t)
  BY <1>5 DEF Draws
<1>6. CASE TestsSign(t)
  BY <1>6 DEF TestsSign
<1>7. CASE NegateReads(t)
  BY <1>7 DEF NegateReads
<1>8. CASE NegateWrites(t)
  BY <1>8 DEF NegateWrites
<1>9. CASE Settles(t)
  BY <1>9 DEF Settles, Resolved
<1>10. CASE EndsSession(t)
  BY <1>10 DEF EndsSession, Resolved
<1>11. QED
  BY <1>1, <1>2, <1>3, <1>4, <1>5, <1>6, <1>7, <1>8, <1>9, <1>10 DEF Resolve

(* No step of another thread touches what receiver t has left to do.       *)
LEMMA OthersStep ==
    ASSUME FlagInv, [Next]_vars, NEW t \in Receivers, Resolving(t), ~Resolve(t)
    PROVE  pc'[t] = pc[t] /\ todo'[t] = todo[t]
<1> USE DEF FlagInv, IInv, TypeOK, Startup
<1>1. CASE App
  <2>1. CASE StartRtpThreads
    BY <2>1 DEF StartRtpThreads
  <2>2. CASE StartRtcpThreads
    BY <2>2 DEF StartRtcpThreads
  <2>3. CASE BuildPacket \/ CheckConflict \/ SendPacket
    BY <2>3 DEF BuildPacket, CheckConflict, SendPacket
  <2>4. QED
    BY <1>1, <2>1, <2>2, <2>3 DEF App
<1>2. CASE RtpMeetsConflict
  BY <1>2 DEF RtpMeetsConflict, Meet
<1>3. CASE RtcpMeetsConflict
  BY <1>3 DEF RtcpMeetsConflict, Meet
<1>4. CASE \E u \in Receivers : Resolve(u)
  <2>1. PICK u \in Receivers : Resolve(u)
    BY <1>4
  <2>2. u # t
    BY <2>1
  <2>3. QED
    BY <2>1, <2>2 DEF Resolve, CountReads, CountWrites, TestLimit, SendsByes, WalkFails, Draws, TestsSign,
                      NegateReads, NegateWrites, Settles, EndsSession, Resolved
<1>5. CASE Sender
  BY <1>5 DEF Sender, SenderWakes, SenderByes, WalkFails, SenderReports, SenderDescribes
<1>6. CASE UNCHANGED vars
  BY <1>6 DEF vars
<1>7. QED
  BY <1>1, <1>2, <1>3, <1>4, <1>5, <1>6 DEF Next

LEMMA RunsDownStep == FlagInv /\ [Next]_vars => ResolvingRunsDown
<1> SUFFICES ASSUME FlagInv, [Next]_vars, NEW t \in Receivers, Resolving(t)
             PROVE  /\ StepsLeft(t) \in Nat \ {0}
                    /\ StepsLeft(t)' <= StepsLeft(t)
                    /\ Resolve(t) => StepsLeft(t)' < StepsLeft(t)
  BY DEF ResolvingRunsDown
<1>1. StepsLeft(t) \in Nat \ {0}
  BY StepsAtHand DEF FlagInv
<1>2. CASE Resolve(t)
  <2>1. StepsLeft(t)' < StepsLeft(t)
    BY <1>2, OwnStep DEF FlagInv
  <2>2. StepsLeft(t)' \in Int
    <3>1. IInv'
      BY ConflictNext DEF FlagInv
    <3>2. QED
      BY <3>1 DEF IInv, TypeOK, StepsLeft, StepsOf
  <2>3. QED
    BY <1>1, <2>1, <2>2
<1>3. CASE ~Resolve(t)
  <2>1. StepsLeft(t)' = StepsLeft(t)
    BY <1>3, OthersStep DEF StepsLeft
  <2>2. QED
    BY <1>1, <1>3, <2>1
<1>4. QED
  BY <1>2, <1>3

(* The conflicts of one packet, its CSRCs included, are resolved in a      *)
(* number of steps that is fixed when the packet comes: each step of the   *)
(* receiver leaves fewer, and no other thread sends it back.  With         *)
(* FlagNeverLeftUp, the RTCP sender is held off for good by a killed       *)
(* receiver only.                                                          *)
THEOREM ResolutionsRunDown == Spec => [][ResolvingRunsDown]_vars
<1>1. FlagInv /\ [Next]_vars => [ResolvingRunsDown]_vars
  BY RunsDownStep
<1>2. QED
  BY FlagInit, FlagNext, <1>1, PTL DEF Spec

=============================================================================
