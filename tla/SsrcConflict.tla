------------------------------ MODULE SsrcConflict ------------------------------
(***************************************************************************)
(* Sending RTP packets and resolving SSRC conflicts (rtp/RTPSession.java). *)
(* The application calls sendData(), RTPReceiverThread and                 *)
(* RTCPReceiverThread call resolveSsrcConflict() when they meet a packet   *)
(* with the session's own SSRC, and RTCPSenderThread puts reports and BYEs *)
(* together.  The four threads share ssrc, conflict and conflictCount, and *)
(* no lock protects them: a step is what a thread does between two         *)
(* accesses to them.                                                       *)
(*                                                                         *)
(* An SSRC is a number.  Random.nextInt() is a number never drawn before,  *)
(* or the negative of one.                                                 *)
(***************************************************************************)
EXTENDS Integers, FiniteSets

CONSTANTS
    ConflictLimit,  (* 5: this conflict ends the session                       *)
    MaxCsrcs,       (* bound: the CSRCs of a packet (15 fit)                   *)
    MaxCalls        (* bound: the calls of resolveSsrcConflict                 *)

ASSUME ConflictLimitAssumption == ConflictLimit \in Nat \ {0}
ASSUME BoundsAssumption ==
    /\ MaxCsrcs \in Nat
    /\ MaxCalls \in Nat

Receivers == {"rtp", "rtcp"}
Threads == Receivers \cup {"app", "sender"}

VARIABLES
    ssrc,           (* RTPSession.ssrc                                         *)
    conflict,       (* RTPSession.conflict                                     *)
    conflictCount,  (* RTPSession.conflictCount                                *)
    endSession,     (* RTPSession.endSession, and rtpSock is closed            *)
    pc,             (* where each thread is                                    *)
    todo,           (* the conflicts a receiver has still to resolve for the   *)
                    (* packet at hand, its present one included                *)
    reg,            (* what a receiver has read of a field it will write       *)
    src,            (* the SSRC of the packet sendData has built, or 0         *)
    header,         (* the SSRC at the head of the report being made, or 0     *)
    byesSent,       (* RTCPSenderThread.byesSent                               *)
    calls,          (* history: calls of resolveSsrcConflict                   *)
    drawn,          (* history: SSRCs drawn                                    *)
    overlap,        (* history: two resolutions have run at once               *)
    announced,      (* history: a BYE with the present SSRC was sent           *)
    silent,         (* history: an SSRC was given up without a BYE             *)
    stale,          (* history: packets sent with another SSRC than the        *)
                    (* session's since that was last assigned                  *)
    mixed           (* history: compound reports since then that began with    *)
                    (* another SSRC than their SDES has                        *)

session == <<ssrc, conflict, conflictCount, endSession>>
resolver == <<todo, reg, calls, drawn, overlap, silent>>
sending == <<src, stale>>
reporting == <<header, byesSent, mixed>>
vars == <<session, resolver, sending, reporting, announced, pc>>

At(t, l) == pc[t] = l
Goto(t, l) == pc' = [pc EXCEPT ![t] = l]

Resolving(t) == pc[t] \in {"count", "store", "test", "byes", "draw", "sign", "negate", "flip", "settle", "end"}

Init ==
    /\ ssrc = 1
    /\ conflict = FALSE
    /\ conflictCount = 0
    /\ endSession = FALSE
    /\ pc = [t \in Threads |-> IF t = "app" THEN "register" ELSE "unborn"]
    /\ todo = [t \in Receivers |-> 0]
    /\ reg = [t \in Receivers |-> 0]
    /\ src = 0
    /\ header = 0
    /\ byesSent = FALSE
    /\ calls = 0 /\ drawn = 0 /\ overlap = FALSE
    /\ announced = FALSE /\ silent = FALSE /\ stale = 0 /\ mixed = 0

-----------------------------------------------------------------------------
(* The application: RTPSessionRegister, then sendData. *)

(* recvThrd runs before RTCPSession.start() has created the sender thread, *)
(* which sendByes() needs.                                                 *)
StartRtpThreads ==
    /\ At("app", "register")
    /\ pc' = [pc EXCEPT !["app"] = "startRtcp", !["rtp"] = "receive"]
    /\ UNCHANGED <<session, resolver, sending, reporting, announced>>

StartRtcpThreads ==
    /\ At("app", "startRtcp")
    /\ pc' = [pc EXCEPT !["app"] = "idle", !["rtcp"] = "receive", !["sender"] = "sleep"]
    /\ UNCHANGED <<session, resolver, sending, reporting, announced>>

(* sendData, buffer by buffer: the packet gets the SSRC ...                *)
BuildPacket ==
    /\ At("app", "idle")
    /\ src' = ssrc
    /\ Goto("app", "check")
    /\ UNCHANGED <<session, resolver, stale, reporting, announced>>

(* ... then comes the pre-flight check; sendData returns null ...          *)
CheckConflict ==
    /\ At("app", "check")
    /\ IF conflict
       THEN src' = 0 /\ Goto("app", "idle")
       ELSE UNCHANGED src /\ Goto("app", "send")
    /\ UNCHANGED <<session, resolver, stale, reporting, announced>>

(* (A plausible error.) The packet is sent again later, as it is.          *)
SendPacketAgain ==
    /\ At("app", "send")
    /\ \/ src' = 0 /\ Goto("app", "idle")
       \/ UNCHANGED <<src, pc>>
    /\ stale' = IF ~endSession /\ src # ssrc THEN stale + 1 ELSE stale
    /\ UNCHANGED <<session, resolver, reporting, announced>>

(* ... or sends to every receiver, unless the socket is closed.            *)
SendPacket ==
    /\ At("app", "send")
    /\ src' = 0
    /\ stale' = IF ~endSession /\ src # ssrc THEN stale + 1 ELSE stale
    /\ Goto("app", "idle")
    /\ UNCHANGED <<session, resolver, reporting, announced>>

App ==
    \/ StartRtpThreads
    \/ StartRtcpThreads
    \/ BuildPacket
    \/ CheckConflict
    \/ SendPacket

-----------------------------------------------------------------------------
(* The receivers *)

(* A packet that makes receiver t resolve n conflicts.                     *)
Meet(t, n) ==
    /\ At(t, "receive")
    /\ ~endSession
    /\ calls + n <= MaxCalls
    /\ calls' = calls + 1
    /\ todo' = [todo EXCEPT ![t] = n]
    /\ overlap' = (overlap \/ \E u \in Receivers \ {t} : Resolving(u))
    /\ Goto(t, "count")
    /\ UNCHANGED <<session, reg, drawn, silent, sending, reporting, announced>>

(* An RTP packet with the own SSRC, or with CSRCs: the comparison of each  *)
(* CSRC ends with a semicolon, so every one resolves a conflict.           *)
RtpMeetsConflict ==
    \E own \in {0, 1}, csrcs \in 0 .. MaxCsrcs :
        /\ own = 1 => ssrc > 0
        /\ own + csrcs > 0
        /\ Meet("rtp", own + csrcs)

(* An RTCP packet with the own SSRC: the rest of the datagram is skipped.  *)
RtcpMeetsConflict == ssrc > 0 /\ Meet("rtcp", 1)

(* conflictCount++ *)
CountReads(t) ==
    /\ At(t, "count")
    /\ reg' = [reg EXCEPT ![t] = conflictCount]
    /\ Goto(t, "store")
    /\ UNCHANGED <<session, todo, calls, drawn, overlap, silent, sending, reporting, announced>>

CountWrites(t) ==
    /\ At(t, "store")
    /\ conflictCount' = reg[t] + 1
    /\ reg' = [reg EXCEPT ![t] = 0]
    /\ Goto(t, "test")
    /\ UNCHANGED <<ssrc, conflict, endSession, todo, calls, drawn, overlap, silent, sending, reporting, announced>>

(* (A plausible error.) The limit is tested before the count is stored.    *)
TestLimitEarly(t) ==
    /\ At(t, "test")
    /\ IF conflictCount + 1 < ConflictLimit
       THEN conflict' = TRUE /\ Goto(t, "byes")
       ELSE UNCHANGED conflict /\ Goto(t, "end")
    /\ UNCHANGED <<ssrc, conflictCount, endSession, resolver, sending, reporting, announced>>

TestLimit(t) ==
    /\ At(t, "test")
    /\ IF conflictCount < ConflictLimit
       THEN conflict' = TRUE /\ Goto(t, "byes")
       ELSE UNCHANGED conflict /\ Goto(t, "end")
    /\ UNCHANGED <<ssrc, conflictCount, endSession, resolver, sending, reporting, announced>>

(* A walk over the list of receivers that the application changes in the   *)
(* meantime: the next receiver is a ConcurrentModificationException, maybe *)
(* after the BYE went out to some.                                         *)
WalkFails(t) ==
    /\ Goto(t, "dead")
    /\ announced' \in {announced, TRUE}

(* RTCPSession.sendByes(), by a receiver thread, which an exception kills. *)
(* While the application is registering there is no sender thread yet, and *)
(* its sendByes is a NullPointerException.                                 *)
SendsByes(t) ==
    /\ At(t, "byes")
    /\ \/ At("sender", "unborn") /\ Goto(t, "dead") /\ UNCHANGED announced
       \/ ~At("sender", "unborn") /\ Goto(t, "draw") /\ announced' = TRUE
       \/ ~At("sender", "unborn") /\ WalkFails(t)
    /\ UNCHANGED <<session, resolver, sending, reporting>>

(* Any assignment to ssrc begins a new count of what goes out late.        *)
Assign(s) ==
    /\ ssrc' = s
    /\ announced' = FALSE
    /\ stale' = 0
    /\ mixed' = 0

(* generateSsrc *)
Draws(t) ==
    /\ At(t, "draw")
    /\ \E sign \in {1, -1} : Assign(sign * (drawn + 2))
    /\ drawn' = drawn + 1
    /\ silent' = (silent \/ ~announced)
    /\ Goto(t, "sign")
    /\ UNCHANGED <<conflict, conflictCount, endSession, todo, reg, calls, overlap, src, header,
                   byesSent>>

(* (A plausible error.)                                                    *)
TestsNoSign(t) ==
    /\ At(t, "sign")
    /\ Goto(t, "settle")
    /\ UNCHANGED <<session, resolver, sending, reporting, announced>>

TestsSign(t) ==
    /\ At(t, "sign")
    /\ Goto(t, IF ssrc < 0 THEN "negate" ELSE "settle")
    /\ UNCHANGED <<session, resolver, sending, reporting, announced>>

NegateReads(t) ==
    /\ At(t, "negate")
    /\ reg' = [reg EXCEPT ![t] = ssrc]
    /\ Goto(t, "flip")
    /\ UNCHANGED <<session, todo, calls, drawn, overlap, silent, sending, reporting, announced>>

NegateWrites(t) ==
    /\ At(t, "flip")
    /\ Assign(-reg[t])
    /\ reg' = [reg EXCEPT ![t] = 0]
    /\ Goto(t, "settle")
    /\ UNCHANGED <<conflict, conflictCount, endSession, todo, calls, drawn, overlap, silent, src,
                   header, byesSent>>

(* What follows one call of resolveSsrcConflict: the next, or a packet.    *)
Resolved(t) ==
    /\ todo' = [todo EXCEPT ![t] = @ - 1]
    /\ IF todo[t] > 1
       THEN /\ calls' = calls + 1
            /\ overlap' = (overlap \/ \E u \in Receivers \ {t} : Resolving(u))
            /\ Goto(t, "count")
       ELSE /\ UNCHANGED <<calls, overlap>>
            /\ Goto(t, "receive")
    /\ UNCHANGED <<reg, drawn, silent>>

(* (A plausible error.)                                                    *)
SettlesFlagUp(t) ==
    /\ At(t, "settle")
    /\ Resolved(t)
    /\ UNCHANGED <<session, sending, reporting, announced>>

Settles(t) ==
    /\ At(t, "settle")
    /\ conflict' = FALSE
    /\ Resolved(t)
    /\ UNCHANGED <<ssrc, conflictCount, endSession, sending, reporting, announced>>

(* endSession(), called by the receiver thread.                            *)
EndsSession(t) ==
    /\ At(t, "end")
    /\ endSession' = TRUE
    /\ Resolved(t)
    /\ UNCHANGED <<ssrc, conflict, conflictCount, sending, reporting, announced>>

Resolve(t) ==
    \/ CountReads(t) \/ CountWrites(t) \/ TestLimit(t) \/ SendsByes(t) \/ Draws(t)
    \/ TestsSign(t) \/ NegateReads(t) \/ NegateWrites(t) \/ Settles(t) \/ EndsSession(t)

-----------------------------------------------------------------------------
(* RTCPSenderThread *)

(* Out of the sleep: the session has ended, a conflict is being resolved,  *)
(* or a report to the next receiver is due, unless the list of receivers   *)
(* has changed since the sender took its iterator.  There is a receiver    *)
(* with an RTCP address.                                                   *)
SenderWakes ==
    /\ At("sender", "sleep")
    /\ \/ endSession /\ Goto("sender", "lastByes") /\ UNCHANGED byesSent
       \/ ~endSession /\ conflict /\ ~byesSent /\ Goto("sender", "byes") /\ UNCHANGED byesSent
       \/ ~endSession /\ conflict /\ byesSent /\ UNCHANGED <<pc, byesSent>>
       \/ ~endSession /\ ~conflict /\ byesSent' = FALSE /\ Goto("sender", "report")
       \/ ~endSession /\ ~conflict /\ byesSent' = FALSE /\ Goto("sender", "dead")
    /\ UNCHANGED <<session, resolver, sending, header, mixed, announced>>

SenderByes ==
    /\ pc["sender"] \in {"byes", "lastByes"}
    /\ \/ /\ announced' = TRUE
          /\ byesSent' = (byesSent \/ At("sender", "byes"))
          /\ Goto("sender", IF At("sender", "byes") THEN "sleep" ELSE "done")
       \/ WalkFails("sender") /\ UNCHANGED byesSent
    /\ UNCHANGED <<session, resolver, sending, header, mixed>>

(* preparePacket: the SR or RR takes the SSRC first ...                    *)
SenderReports ==
    /\ At("sender", "report")
    /\ header' = ssrc
    /\ Goto("sender", "describe")
    /\ UNCHANGED <<session, resolver, sending, byesSent, mixed, announced>>

(* ... and the SDES when it is encoded.                                    *)
SenderDescribes ==
    /\ At("sender", "describe")
    /\ header' = 0
    /\ mixed' = IF header # ssrc THEN mixed + 1 ELSE mixed
    /\ Goto("sender", "sleep")
    /\ UNCHANGED <<session, resolver, sending, byesSent, announced>>

Sender == SenderWakes \/ SenderByes \/ SenderReports \/ SenderDescribes

Next ==
    \/ App
    \/ RtpMeetsConflict
    \/ RtcpMeetsConflict
    \/ \E t \in Receivers : Resolve(t)
    \/ Sender

Spec == Init /\ [][Next]_vars

(* A runnable thread runs, and registering comes to its end.  Nothing is   *)
(* assumed of the network and of sendData.                                 *)
Fairness ==
    /\ WF_vars(StartRtcpThreads)
    /\ WF_vars(StartRtpThreads)
    /\ \A t \in Receivers : WF_vars(Resolve(t))
    /\ WF_vars(Sender)

FairSpec == Spec /\ Fairness

-----------------------------------------------------------------------------
Places ==
    {"unborn", "register", "startRtcp", "idle", "check", "send", "receive", "count", "store",
     "test", "byes", "draw", "sign", "negate", "flip", "settle", "end", "dead", "sleep",
     "report", "describe", "lastByes", "done"}

TypeOK ==
    /\ ssrc \in Int
    /\ conflict \in BOOLEAN
    /\ conflictCount \in Nat
    /\ endSession \in BOOLEAN
    /\ pc \in [Threads -> Places]
    /\ todo \in [Receivers -> Nat]
    /\ reg \in [Receivers -> Int]
    /\ src \in Int
    /\ header \in Int
    /\ byesSent \in BOOLEAN
    /\ calls \in Nat
    /\ drawn \in Nat
    /\ overlap \in BOOLEAN
    /\ announced \in BOOLEAN
    /\ silent \in BOOLEAN
    /\ stale \in Nat
    /\ mixed \in Nat

(* sendData takes the SSRC before it looks at the conflict flag, and the   *)
(* sender thread does not look again after the start of a report.  Whatever *)
(* the interleaving, one assignment to ssrc lets at most one packet out    *)
(* under an SSRC that is no longer the session's, and spoils at most one   *)
(* report.                                                                 *)
OneStalePerChange == stale <= 1 /\ mixed <= 1

(* "After 5 conflicts it is assumed there is a loop somewhere": updates of *)
(* conflictCount may be lost, but a session never ends for fewer calls of  *)
(* resolveSsrcConflict than the limit.                                     *)
EndsOnlyAtLimit == endSession => calls >= ConflictLimit

(* As long as no two resolutions have run at once, resolving does what it  *)
(* says: every SSRC given up was announced in a BYE before, and between    *)
(* conflicts the count is exact, the SSRC is one a peer can send back, and *)
(* the flag is down, unless the BYEs have killed a receiver.               *)
OrderlyAlone ==
    ~overlap =>
        /\ ~silent
        /\ (\A t \in Receivers : ~Resolving(t)) =>
              /\ conflictCount = calls
              /\ conflict => \E t \in Receivers : At(t, "dead")
              /\ ssrc > 0

(* The RTCP sender waits while a conflict is resolved, but not for ever:   *)
(* until the session ends it comes back to reporting again and again,      *)
(* unless sendByes has killed a receiver (before the sender thread was     *)
(* there, or by a change of the list of receivers), or such a change the   *)
(* sender.                                                                 *)
ReportsGoOn ==
    \/ <>(endSession \/ \E t \in Threads : At(t, "dead"))
    \/ []<>At("sender", "report")

=============================================================================
