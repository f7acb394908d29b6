------------------------------- MODULE RtpPeers -------------------------------
(***************************************************************************)
(* The participant database of a unicast session.  The application adds    *)
(* and removes participants; the RTP and the RTCP receiver look up each    *)
(* packet's SSRC and enter those they do not know; the RTCP sender walks   *)
(* along the receivers.  ssrcTable is a concurrent map, receivers a plain  *)
(* linked list, and nothing holds a lock over two operations on either.    *)
(***************************************************************************)
EXTENDS Integers, Sequences, FiniteSets, SequencesExt

CONSTANTS
    Addr,          \* addresses of peers
    Ssrc,          \* their synchronisation sources
    Senders,       \* which address may use which source
    MaxChanges,    \* bound on changes to receivers after the start
    MaxLost,       \* bound on the packets lost of each source
    Nothing        \* null, and the SSRC -1 of a participant not heard of yet

ASSUME SendersAssumption == Senders \subseteq Ssrc \X Addr
ASSUME AddrAssumption == IsFiniteSet(Addr)
ASSUME NothingAssumption == Nothing \notin Ssrc \cup Addr

\* Participant objects: the application's, by address, and those a receiver
\* thread creates for a packet, by its SSRC and source.
Mine(a) == [by |-> "app", ssrc |-> Nothing, addr |-> a]
Found(t, s, a) == [by |-> t, ssrc |-> s, addr |-> a]
Receiver == {"rtp", "rtcp"}
Unexpected == {Found(t, s, a) : t \in Receiver, s \in Ssrc, a \in Addr}
Participant == {Mine(a) : a \in Addr} \cup Unexpected
NoOne == Mine(Nothing)

VARIABLES
    started,       \* RTPSessionRegister() has been called
    receivers,     \* ParticipantDatabase.receivers
    modCount,      \* of that list
    ssrcTable,     \* ParticipantDatabase.ssrcTable
    ssrcOf,        \* the ssrc field of the application's participants
    app,           \* the application's call in progress
    thread,        \* each receiver thread: its step and local variables
    lost,          \* packets of each SSRC put into an object no table holds
    sender,        \* the RTCP sender's list iterator
    lastReport,    \* whom it last sent a report
    faithful       \* history: addresses in receivers since the start, until
                   \* the application removes one

listVars == <<receivers, modCount, faithful>>
tableVars == <<ssrcTable, ssrcOf>>
sendVars == <<sender, lastReport>>
vars == <<started, listVars, tableVars, app, thread, lost, sendVars>>

Idle == [pc |-> "idle", part |-> NoOne]
Free == app.pc \in {"idle", "threw"}    \* after an exception it goes on
Waiting == [pc |-> "wait", part |-> NoOne, ssrc |-> Nothing, from |-> Nothing,
            next |-> 0, mod |-> 0]

Init ==
    /\ started = FALSE
    /\ receivers = <<>>
    /\ modCount = 0
    /\ ssrcTable = [s \in Ssrc |-> NoOne]
    /\ ssrcOf = [a \in Addr |-> Nothing]
    /\ app = Idle
    /\ thread = [t \in Receiver |-> Waiting]
    /\ lost = [s \in Ssrc |-> 0]
    /\ sender = [pc |-> "rest", next |-> 0, mod |-> 0]
    /\ lastReport = NoOne
    /\ faithful = {}

-----------------------------------------------------------------------------
(* The application's thread.                                               *)

Register ==
    /\ ~started /\ Free
    /\ started' = TRUE
    /\ faithful' = {p.addr : p \in ToSet(receivers)}
    /\ UNCHANGED <<receivers, modCount, tableVars, app, thread, lost, sendVars>>

\* Every unexpected participant lacks one of the addresses that are compared,
\* so the first one found throws out of addParticipant().
AddScans(a) ==
    /\ Free
    /\ started => modCount < MaxChanges
    /\ Mine(a) \notin ToSet(receivers)
    /\ \A s \in Ssrc : ssrcTable[s] \notin Unexpected
    /\ app' = [pc |-> "add", part |-> Mine(a)]
    /\ UNCHANGED <<started, listVars, tableVars, thread, lost, sendVars>>

AddThrows(a) ==
    /\ Free
    /\ Mine(a) \notin ToSet(receivers)
    /\ \E s \in Ssrc : ssrcTable[s] \in Unexpected
    /\ app' = [pc |-> "threw", part |-> NoOne]
    /\ UNCHANGED <<started, listVars, tableVars, thread, lost, sendVars>>

AddAppends ==
    /\ app.pc = "add"
    /\ receivers' = Append(receivers, app.part)
    /\ modCount' = modCount + (IF started THEN 1 ELSE 0)
    /\ app' = Idle
    /\ UNCHANGED <<started, faithful, tableVars, thread, lost, sendVars>>

\* removeParticipant() of a participant of its own or of one it was handed.
RemoveFromReceivers(p) ==
    /\ Free /\ started /\ modCount < MaxChanges
    /\ p \in ToSet(receivers) \cup {ssrcTable[s] : s \in Ssrc}
    /\ p # NoOne
    /\ IF p \in ToSet(receivers)
       THEN /\ receivers' = RemoveFirst(receivers, p)
            /\ modCount' = modCount + 1
            /\ faithful' = {}
       ELSE UNCHANGED listVars
    /\ app' = [pc |-> "remove", part |-> p]
    /\ UNCHANGED <<started, tableVars, thread, lost, sendVars>>

\* Only the entry under the SSRC the participant has now.
RemoveFromTable ==
    /\ app.pc = "remove"
    /\ LET s == IF app.part.by = "app" THEN ssrcOf[app.part.addr] ELSE app.part.ssrc
       IN ssrcTable' = [k \in Ssrc |-> IF k = s /\ ssrcTable[k] = app.part
                                       THEN NoOne ELSE ssrcTable[k]]
    /\ app' = Idle
    /\ UNCHANGED <<started, listVars, ssrcOf, thread, lost, sendVars>>

App ==
    \/ Register \/ AddAppends \/ RemoveFromTable
    \/ \E a \in Addr : AddScans(a) \/ AddThrows(a)
    \/ \E p \in Participant : RemoveFromReceivers(p)

-----------------------------------------------------------------------------
(* The two receiver threads.  An exception leaves run(): "dead".           *)

Step(t, pc) == thread[t].pc = pc
Local(t, f) == thread' = [thread EXCEPT ![t] = f]

\* The thread goes on with the object it has created, in the table or not.
GoesOn(t) == Local(t, IF t = "rtp" THEN [thread[t] EXCEPT !.pc = "store", !.next = 0, !.mod = 0]
                      ELSE Waiting)

\* A packet of source s from address a: getParticipant(), and a new object if
\* the table has none.  What an RTCP packet changes in a participant already
\* known, times for the reports, is left out.
Receive(t, s, a) ==
    /\ started /\ Step(t, "wait")
    /\ <<s, a>> \in Senders
    /\ lost[s] < MaxLost
    /\ t = "rtcp" => ssrcTable[s] = NoOne
    /\ LET known == ssrcTable[s]
           part == IF known = NoOne THEN Found(t, s, a) ELSE known
       IN Local(t, [Waiting EXCEPT !.pc = IF known = NoOne THEN "begin" ELSE "store",
                                   !.part = part, !.ssrc = s, !.from = a])
    /\ UNCHANGED <<started, listVars, tableVars, app, lost, sendVars>>

\* addParticipant(1 or 2, part) starts an iterator over receivers.
BeginMatch(t) ==
    /\ Step(t, "begin")
    /\ Local(t, [thread[t] EXCEPT !.pc = "match", !.mod = modCount])
    /\ UNCHANGED <<started, listVars, tableVars, app, lost, sendVars>>

HasNext(it) == it.next < Len(receivers)
Fails(it) == HasNext(it) /\ it.mod # modCount   \* next() throws

MatchThrows(t) ==
    /\ Step(t, "match") /\ Fails(thread[t])
    /\ Local(t, [Waiting EXCEPT !.pc = "dead"])
    /\ UNCHANGED <<started, listVars, tableVars, app, lost, sendVars>>

\* (A plausible error.)  RTP packets are compared with the address RTCP packets came from.
MatchesRtcpOnly(part, p) == part.by = "rtcp" /\ p.addr = part.addr

Matches(part, p) == p.addr = part.addr

MatchNext(t) ==
    LET me == thread[t]
    IN /\ Step(t, "match") /\ HasNext(me) /\ ~Fails(me)
       /\ ~Matches(receivers[me.next + 1], me.part)
       /\ Local(t, [me EXCEPT !.next = @ + 1])
       /\ UNCHANGED <<started, listVars, tableVars, app, lost, sendVars>>

\* (A plausible error.)  A participant matched is appended to the receivers.
LinkAppends(t) ==
    LET me == thread[t]
        part == receivers[me.next + 1]
    IN /\ Step(t, "match") /\ HasNext(me) /\ ~Fails(me)
       /\ Matches(part, me.part)
       /\ Len(receivers) <= Cardinality(Addr)
       /\ receivers' = Append(receivers, part)
       /\ ssrcOf' = [ssrcOf EXCEPT ![part.addr] = me.ssrc]
       /\ ssrcTable' = [ssrcTable EXCEPT ![me.ssrc] = part]
       /\ GoesOn(t)
       /\ UNCHANGED <<started, modCount, faithful, app, lost, sendVars>>

\* (A plausible error.)  The match is noted in the participant and not in the table.
LinkForgetsTable(t) ==
    LET me == thread[t]
        part == receivers[me.next + 1]
    IN /\ Step(t, "match") /\ HasNext(me) /\ ~Fails(me)
       /\ Matches(part, me.part)
       /\ ssrcOf' = [ssrcOf EXCEPT ![part.addr] = me.ssrc]
       /\ GoesOn(t)
       /\ UNCHANGED <<started, listVars, ssrcTable, app, lost, sendVars>>

\* The receiver at this address gets the SSRC and the table's entry.
MatchLinks(t) ==
    LET me == thread[t]
        part == receivers[me.next + 1]
    IN /\ Step(t, "match") /\ HasNext(me) /\ ~Fails(me)
       /\ Matches(part, me.part)
       /\ ssrcOf' = [ssrcOf EXCEPT ![part.addr] = me.ssrc]
       /\ ssrcTable' = [ssrcTable EXCEPT ![me.ssrc] = part]
       /\ GoesOn(t)
       /\ UNCHANGED <<started, listVars, app, lost, sendVars>>

MatchFindsNone(t) ==
    LET me == thread[t]
    IN /\ Step(t, "match") /\ ~HasNext(me)
       /\ ssrcTable' = [ssrcTable EXCEPT ![me.ssrc] = me.part]
       /\ GoesOn(t)
       /\ UNCHANGED <<started, listVars, ssrcOf, app, lost, sendVars>>

\* An RTP packet goes into its participant's buffer, which AppCallerThread
\* finds through the table, unless the participant's address is known and is
\* another.
FromExpected(me) == me.part.by # "app" \/ me.part.addr = me.from

Store(t) ==
    LET me == thread[t]
        kept == FromExpected(me)
        held == \E s \in Ssrc : ssrcTable[s] = me.part
    IN /\ Step(t, "store")
       /\ Local(t, Waiting)
       /\ lost' = IF kept /\ ~held THEN [lost EXCEPT ![me.ssrc] = @ + 1] ELSE lost
       /\ UNCHANGED <<started, listVars, tableVars, app, sendVars>>

Receivers(t) ==
    \/ \E s \in Ssrc, a \in Addr : Receive(t, s, a)
    \/ BeginMatch(t) \/ MatchThrows(t) \/ MatchNext(t) \/ MatchLinks(t)
    \/ MatchFindsNone(t) \/ Store(t)

-----------------------------------------------------------------------------
(* The RTCP sender's walk.                                                 *)

SenderBegins ==
    /\ started /\ sender.pc = "rest"
    /\ sender' = [pc |-> "walk", next |-> 0, mod |-> modCount]
    /\ UNCHANGED <<started, listVars, tableVars, app, thread, lost, lastReport>>

SenderThrows ==
    /\ sender.pc = "walk" /\ Fails(sender)
    /\ sender' = [pc |-> "dead", next |-> 0, mod |-> 0]
    /\ UNCHANGED <<started, listVars, tableVars, app, thread, lost, lastReport>>

\* (A plausible error.)  Every report starts a new walk.
SenderReportsFirst ==
    /\ sender.pc = "walk" /\ ~Fails(sender) /\ receivers # <<>>
    /\ sender' = [sender EXCEPT !.mod = modCount]
    /\ lastReport' = receivers[1]
    /\ UNCHANGED <<started, listVars, tableVars, app, thread, lost>>

\* At the end of the list it starts again; it sends nothing to an empty one.
SenderReports ==
    /\ sender.pc = "walk" /\ ~Fails(sender)
    /\ LET it == IF HasNext(sender) THEN sender
                 ELSE [pc |-> "walk", next |-> 0, mod |-> modCount]
       IN IF receivers = <<>>
          THEN sender' = it /\ UNCHANGED lastReport
          ELSE /\ sender' = [it EXCEPT !.next = @ + 1]
               /\ lastReport' = receivers[it.next + 1]
    /\ UNCHANGED <<started, listVars, tableVars, app, thread, lost>>

Sender == SenderBegins \/ SenderThrows \/ SenderReports

Next == App \/ Sender \/ \E t \in Receiver : Receivers(t)

Spec == Init /\ [][Next]_vars

\* The sender sleeps for a finite time between two reports.
FairSpec == Spec /\ WF_vars(Sender)

-----------------------------------------------------------------------------
TypeOK ==
    /\ started \in BOOLEAN
    /\ ToSet(receivers) \subseteq {Mine(a) : a \in Addr}
    /\ Len(receivers) <= Cardinality(Addr)
    /\ modCount \in Nat
    /\ ssrcTable \in [Ssrc -> Participant \cup {NoOne}]
    /\ ssrcOf \in [Addr -> Ssrc \cup {Nothing}]
    /\ app.pc \in {"idle", "add", "remove", "threw"}
    /\ app.part \in Participant \cup {NoOne}
    /\ \A t \in Receiver :
        /\ thread[t].pc \in {"wait", "begin", "match", "store", "dead"}
        /\ thread[t].part \in Participant \cup {NoOne}
        /\ thread[t].ssrc \in Ssrc \cup {Nothing}
        /\ thread[t].from \in Addr \cup {Nothing}
        /\ thread[t].next \in 0..Cardinality(Addr)
    /\ lost \in [Ssrc -> Nat]
    /\ sender.pc \in {"rest", "walk", "dead"}
    /\ sender.next \in 0..Cardinality(Addr)
    /\ lastReport \in {Mine(a) : a \in Addr} \cup {NoOne}
    /\ faithful \subseteq Addr

\* A peer that was added before the session started is always recognised by
\* its address: no packet of it, RTP or RTCP, whatever else is added
\* meanwhile, enters the table as an unexpected participant
\* (addParticipantUnicast()).  Removing anyone ends that: a lookup that has
\* passed the removed one finds next = size and gives up before the last.
FaithfulLinked ==
    \A s \in Ssrc : ssrcTable[s] \in Unexpected => ssrcTable[s].addr \notin faithful

\* The object made for the first packet of a source is dropped once it is
\* linked, and the packet with it; of a source only one peer uses, known from
\* the start, no other packet is lost that way, even if RTP and RTCP arrive
\* together or the peer uses another source as well.
OnlyFirstLost ==
    \A s \in Ssrc :
        (\E a \in faithful : \A b \in Addr : <<s, b>> \in Senders => b = a) => lost[s] <= 1

\* The sender's walk leaves nobody out: who stays a receiver gets a report
\* again and again, as long as the list changes only finitely often and the
\* sender survives it.
EveryoneReported ==
    \A a \in Addr :
        <>[](Mine(a) \in ToSet(receivers) /\ sender.pc = "walk")
            => []<>(lastReport = Mine(a))
=============================================================================
