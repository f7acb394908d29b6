---------------------------- MODULE RtpPeersProofs ----------------------------
(* Theorems about RtpPeers, for any peers, sources and number of changes.  *)
EXTENDS RtpPeers, SequenceTheorems, FiniteSetTheorems, WellFoundedInduction, TLAPS

Mines == {Mine(a) : a \in Addr}
Parts == Participant \cup {NoOne}
ThreadStates == [pc : {"wait", "begin", "match", "store", "dead"}, part : Parts,
                 ssrc : Ssrc \cup {Nothing}, from : Addr \cup {Nothing}, next : Nat, mod : Nat]

(* Until the application removes someone.  Nothing is claimed after that.  *)
Quiet == ~started \/ faithful # {}

Typed ==
    /\ modCount \in Nat
    /\ receivers \in Seq(Mines)
    /\ ssrcTable \in [Ssrc -> Parts]
    /\ ssrcOf \in [Addr -> Ssrc \cup {Nothing}]
    /\ thread \in [Receiver -> ThreadStates]
    /\ app \in [pc : {"idle", "add", "remove", "threw"}, part : Parts]
    /\ app.pc = "add" => app.part \in Mines
    /\ faithful \subseteq Addr

BeforeStart ==
    ~started =>
        /\ faithful = {}
        /\ app.pc # "remove"
        /\ \A t \in Receiver : thread[t].pc = "wait"
        /\ \A s \in Ssrc : ssrcTable[s] = NoOne

(* A faithful peer is in the list, and a lookup of its address has not     *)
(* passed it.                                                              *)
LookupsMeet ==
    /\ \A a \in faithful : \E i \in 1 .. Len(receivers) : receivers[i] = Mine(a)
    /\ \A t \in Receiver :
         thread[t].pc \in {"begin", "match"} =>
             /\ thread[t].ssrc \in Ssrc /\ thread[t].from \in Addr
             /\ thread[t].part = Found(t, thread[t].ssrc, thread[t].from)
    /\ \A t \in Receiver : thread[t].pc = "begin" => thread[t].next = 0
    /\ \A t \in Receiver :
         thread[t].pc = "match" =>
             /\ thread[t].next <= Len(receivers)
             /\ \A i \in 1 .. thread[t].next : receivers[i].addr # thread[t].from

Known == Typed /\ BeforeStart /\ LookupsMeet /\ FaithfulLinked

IInv == Quiet => Known

USE DEF listVars, tableVars, sendVars, Receiver, Step

(* The two kinds of participants, and none.                                *)
LEMMA PartKinds ==
    /\ NoOne \in Parts /\ NoOne \notin Unexpected
    /\ \A p \in Mines : p \in Parts /\ p \notin Unexpected
    /\ \A a \in Addr : Mine(a) \in Mines /\ Mine(a).addr = a
    /\ \A p \in Mines : p.addr \in Addr /\ p = Mine(p.addr)
    /\ \A t \in Receiver, s \in Ssrc, a \in Addr :
         /\ Found(t, s, a) \in Parts /\ Found(t, s, a) \in Unexpected
         /\ Found(t, s, a).addr = a /\ Found(t, s, a) # NoOne
<1>1. /\ NoOne \in Parts /\ NoOne \notin Unexpected
      /\ \A p \in Mines : p \in Parts /\ p \notin Unexpected
  <2>1. \A u \in Unexpected : u.by \in Receiver
    BY DEF Unexpected, Found
  <2>2. NoOne.by = "app" /\ \A p \in Mines : p.by = "app"
    BY DEF NoOne, Mines, Mine
  <2>3. NoOne \in Parts /\ \A p \in Mines : p \in Parts
    BY DEF Parts, Participant, Mines
  <2>4. QED
    BY <2>1, <2>2, <2>3
<1>2. \A a \in Addr : Mine(a) \in Mines /\ Mine(a).addr = a
  BY DEF Mines, Mine
<1>3. \A p \in Mines : p.addr \in Addr /\ p = Mine(p.addr)
  BY <1>2 DEF Mines
<1>4. ASSUME NEW t \in Receiver, NEW s \in Ssrc, NEW a \in Addr
      PROVE  /\ Found(t, s, a) \in Parts /\ Found(t, s, a) \in Unexpected
             /\ Found(t, s, a).addr = a /\ Found(t, s, a) # NoOne
  <2>1. Found(t, s, a) \in Unexpected
    BY DEF Unexpected
  <2>2. QED
    BY <1>1, <2>1 DEF Parts, Participant, Found
<1>5. QED
  BY <1>1, <1>2, <1>3, <1>4

LEMMA IdleTyped ==
    /\ Idle \in [pc : {"idle", "add", "remove", "threw"}, part : Parts] /\ Idle.pc = "idle"
    /\ Waiting \in ThreadStates /\ Waiting.pc = "wait"
BY PartKinds DEF Idle, Waiting, ThreadStates

LEMMA PeersInit == Init => IInv
<1> SUFFICES ASSUME Init PROVE Known
  BY DEF IInv
<1>1. Typed
  BY IdleTyped, PartKinds DEF Init, Typed
<1>2. BeforeStart
  BY IdleTyped DEF Init, BeforeStart
<1>3. LookupsMeet
  BY IdleTyped DEF Init, LookupsMeet
<1>4. FaithfulLinked
  BY DEF Init, FaithfulLinked
<1>5. QED
  BY <1>1, <1>2, <1>3, <1>4 DEF Known

LEMMA RemovalFacts ==
    ASSUME NEW p \in Participant, RemoveFromReceivers(p)
    PROVE  /\ started /\ started' = started
           /\ faithful' = {} \/ (p \notin ToSet(receivers) /\ UNCHANGED listVars)
           /\ faithful' = faithful \/ faithful' = {}
           /\ app' = [pc |-> "remove", part |-> p]
           /\ UNCHANGED <<tableVars, thread, lost>>
<1>1. /\ started /\ started' = started
      /\ app' = [pc |-> "remove", part |-> p]
      /\ UNCHANGED <<tableVars, thread, lost>>
  BY Zenon DEF RemoveFromReceivers
<1>2. /\ faithful' = {} \/ (p \notin ToSet(receivers) /\ UNCHANGED listVars)
      /\ faithful' = faithful \/ faithful' = {}
  <2>1. CASE p \in ToSet(receivers)
    <3>1. faithful' = {}
      BY <2>1, Zenon DEF RemoveFromReceivers
    <3>2. QED
      BY <3>1, Zenon
  <2>2. CASE p \notin ToSet(receivers)
    <3>1. UNCHANGED listVars
      BY <2>2, Zenon DEF RemoveFromReceivers
    <3>2. QED
      BY <2>2, <3>1
  <2>3. QED
    BY <2>1, <2>2
<1>3. QED
  BY <1>1, <1>2, Zenon

(* A receiver thread's step changes its own state only.                    *)
LEMMA LocalStep ==
    ASSUME thread \in [Receiver -> ThreadStates], NEW t \in Receiver, NEW f \in ThreadStates,
           Local(t, f)
    PROVE  /\ thread' \in [Receiver -> ThreadStates]
           /\ thread'[t] = f
           /\ \A u \in Receiver : u # t => thread'[u] = thread[u]
BY DEF Local, ThreadStates

LEMMA AppStep ==
    ASSUME Known, App, Quiet'
    PROVE  Known'
<1>1. CASE Register
  <2>1. /\ started' /\ faithful' = {p.addr : p \in ToSet(receivers)}
        /\ UNCHANGED <<receivers, modCount, tableVars, app, thread>>
        /\ ~started
    BY <1>1 DEF Register
  <2>2. faithful' \subseteq Addr
    BY <2>1, PartKinds DEF Known, Typed, ToSet
  <2>3. \A a \in faithful' : \E i \in 1 .. Len(receivers') : receivers'[i] = Mine(a)
    <3>1. SUFFICES ASSUME NEW a \in faithful'
                   PROVE  \E i \in 1 .. Len(receivers) : receivers[i] = Mine(a)
      BY <2>1
    <3>2. PICK i \in 1 .. Len(receivers) : a = receivers[i].addr
      BY <2>1 DEF ToSet, Known, Typed
    <3>3. receivers[i] \in Mines
      BY DEF Known, Typed
    <3>4. QED
      BY <3>2, <3>3, PartKinds
  <2>4. Typed'
    BY <2>1, <2>2 DEF Known, Typed
  <2>5. FaithfulLinked'
    BY <2>1, PartKinds DEF Known, BeforeStart, FaithfulLinked
  <2>6. LookupsMeet'
    BY <2>1, <2>3 DEF Known, LookupsMeet
  <2>7. QED
    BY <2>1, <2>4, <2>5, <2>6 DEF Known, BeforeStart
<1>2. CASE AddAppends
  <2>1. /\ receivers' = Append(receivers, app.part) /\ app.part \in Mines
        /\ modCount' = modCount + (IF started THEN 1 ELSE 0)
        /\ UNCHANGED <<started, faithful, thread, ssrcTable, ssrcOf>> /\ app' = Idle
    BY <1>2 DEF Known, Typed, AddAppends
  <2>2. Typed'
    BY <2>1, IdleTyped DEF Known, Typed
  <2>3. /\ Len(receivers') = Len(receivers) + 1 /\ Len(receivers) \in Nat
        /\ \A i \in 1 .. Len(receivers) : receivers'[i] = receivers[i]
    BY <2>1 DEF Known, Typed
  <2>4. \A a \in faithful' : \E i \in 1 .. Len(receivers') : receivers'[i] = Mine(a)
    BY <2>1, <2>3 DEF Known, LookupsMeet
  <2>5. ASSUME NEW t \in Receiver, thread[t].pc = "match"
        PROVE  /\ thread[t].next <= Len(receivers')
               /\ \A i \in 1 .. thread[t].next : receivers'[i].addr # thread[t].from
    <3>1. thread[t].next \in Nat
      BY DEF Known, Typed, ThreadStates
    <3>2. QED
      BY <2>3, <2>5, <3>1 DEF Known, LookupsMeet
  <2>6. LookupsMeet'
    BY <2>1, <2>4, <2>5 DEF Known, LookupsMeet
  <2>7. QED
    BY <2>1, <2>2, <2>6, IdleTyped DEF Known, BeforeStart, FaithfulLinked
<1>3. CASE RemoveFromTable
  <2>1. ssrcTable' \in [Ssrc -> Parts] /\ \A s \in Ssrc : ssrcTable'[s] \in {NoOne, ssrcTable[s]}
    BY <1>3, PartKinds DEF Known, Typed, RemoveFromTable
  <2>2. app' = Idle /\ UNCHANGED <<started, listVars, ssrcOf, thread>>
    BY <1>3 DEF RemoveFromTable
  <2>3. Typed'
    BY <2>1, <2>2, IdleTyped DEF Known, Typed
  <2>4. LookupsMeet'
    BY <2>2 DEF Known, LookupsMeet
  <2>5. FaithfulLinked'
    BY <2>1, <2>2, PartKinds DEF Known, FaithfulLinked
  <2>6. QED
    BY <2>1, <2>2, <2>3, <2>4, <2>5, IdleTyped DEF Known, BeforeStart
<1>4. ASSUME NEW a \in Addr, AddScans(a) \/ AddThrows(a) PROVE Known'
  <2>1. /\ app' \in {[pc |-> "add", part |-> Mine(a)], [pc |-> "threw", part |-> NoOne]}
        /\ UNCHANGED <<started, listVars, tableVars, thread>>
    BY <1>4 DEF AddScans, AddThrows
  <2>2. Typed'
    BY <2>1, PartKinds DEF Known, Typed
  <2>3. QED
    BY <2>1, <2>2 DEF Known, BeforeStart, LookupsMeet, FaithfulLinked
<1>5. ASSUME NEW p \in Participant, RemoveFromReceivers(p) PROVE Known'
  <2>1. receivers' = receivers /\ modCount' = modCount /\ faithful' = faithful
    BY <1>5, RemovalFacts DEF Quiet
  <2>2. /\ app' = [pc |-> "remove", part |-> p] /\ UNCHANGED <<started, tableVars, thread>>
        /\ started
    BY <1>5, RemovalFacts
  <2>3. Typed'
    BY <2>1, <2>2 DEF Known, Typed, Parts
  <2>4. QED
    BY <2>1, <2>2, <2>3 DEF Known, BeforeStart, LookupsMeet, FaithfulLinked
<1>6. QED
  BY <1>1, <1>2, <1>3, <1>4, <1>5 DEF App

(* What a step of a receiver thread must keep up: its own state f, and the *)
(* entry of its source in the table.                                       *)
Consistent(t, f) ==
    /\ f \in ThreadStates
    /\ f.pc \in {"begin", "match"} =>
         f.ssrc \in Ssrc /\ f.from \in Addr /\ f.part = Found(t, f.ssrc, f.from)
    /\ f.pc = "begin" => f.next = 0
    /\ f.pc = "match" =>
         /\ f.next <= Len(receivers)
         /\ \A i \in 1 .. f.next : receivers[i].addr # f.from

LEMMA ThreadKeeps ==
    ASSUME Known, started, NEW t \in Receiver, NEW f, Local(t, f), Consistent(t, f),
           UNCHANGED <<started, listVars, app, ssrcOf, ssrcTable>>
    PROVE  Known'
<1>1. /\ thread' \in [Receiver -> ThreadStates] /\ thread'[t] = f
      /\ \A u \in Receiver : u # t => thread'[u] = thread[u]
  BY LocalStep DEF Known, Typed, Consistent
<1>2. Typed'
  BY <1>1 DEF Known, Typed
<1>3. LookupsMeet'
  BY <1>1 DEF Known, LookupsMeet, Consistent
<1>4. QED
  BY <1>2, <1>3 DEF Known, BeforeStart, FaithfulLinked

LEMMA ThreadEnters ==
    ASSUME Known, started, NEW t \in Receiver, NEW f, Local(t, f), Consistent(t, f),
           NEW s \in Ssrc, NEW p \in Parts, p \in Unexpected => p.addr \notin faithful,
           ssrcTable' = [ssrcTable EXCEPT ![s] = p],
           ssrcOf' \in [Addr -> Ssrc \cup {Nothing}], UNCHANGED <<started, listVars, app>>
    PROVE  Known'
<1>1. /\ thread' \in [Receiver -> ThreadStates] /\ thread'[t] = f
      /\ \A u \in Receiver : u # t => thread'[u] = thread[u]
  BY LocalStep DEF Known, Typed, Consistent
<1>2. Typed'
  BY <1>1 DEF Known, Typed
<1>3. LookupsMeet'
  BY <1>1 DEF Known, LookupsMeet, Consistent
<1>4. FaithfulLinked'
  BY DEF Known, Typed, FaithfulLinked
<1>5. QED
  BY <1>2, <1>3, <1>4 DEF Known, BeforeStart

LEMMA GoesOnConsistent ==
    ASSUME Known, NEW t \in Receiver, GoesOn(t)
    PROVE  \E f : Local(t, f) /\ Consistent(t, f)
<1> DEFINE f == [thread[t] EXCEPT !.pc = "store", !.next = 0, !.mod = 0]
<1>1. Local(t, f) \/ Local(t, Waiting)
  BY DEF GoesOn
<1>2. f \in ThreadStates /\ f.pc = "store"
  BY DEF Known, Typed, ThreadStates
<1>3. Consistent(t, f) /\ Consistent(t, Waiting)
  BY <1>2, IdleTyped DEF Consistent
<1>4. QED
  BY <1>1, <1>3

LEMMA ReceiverStep ==
    ASSUME Known, NEW t \in Receiver, Receivers(t)
    PROVE  Known'
<1>0. UNCHANGED <<started, listVars, app>>
  BY DEF Receivers, Receive, BeginMatch, MatchThrows, MatchNext, MatchLinks, MatchFindsNone, Store
<1>a. thread[t] \in ThreadStates /\ Len(receivers) \in Nat
  BY DEF Known, Typed
<1>b. thread[t].pc # "wait" => started
  BY DEF Known, BeforeStart
<1>c. thread[t].pc \in {"begin", "match"} =>
         /\ thread[t].ssrc \in Ssrc /\ thread[t].from \in Addr
         /\ thread[t].part = Found(t, thread[t].ssrc, thread[t].from)
  BY DEF Known, LookupsMeet
<1>d. thread[t].pc = "match" =>
         /\ thread[t].next <= Len(receivers)
         /\ \A i \in 1 .. thread[t].next : receivers[i].addr # thread[t].from
  BY DEF Known, LookupsMeet
<1>1. ASSUME NEW s \in Ssrc, NEW a \in Addr, Receive(t, s, a) PROVE Known'
  <2> DEFINE known == ssrcTable[s]
             part == IF known = NoOne THEN Found(t, s, a) ELSE known
             f == [Waiting EXCEPT !.pc = IF known = NoOne THEN "begin" ELSE "store",
                                  !.part = part, !.ssrc = s, !.from = a]
  <2>1. Local(t, f) /\ started /\ UNCHANGED tableVars
    BY <1>1 DEF Receive
  <2>2. part \in Parts
    BY PartKinds DEF Known, Typed
  <2>3. Consistent(t, f)
    BY <2>2 DEF Consistent, ThreadStates, Waiting
  <2>4. QED
    BY <1>0, <2>1, <2>3, ThreadKeeps
<1>2. CASE BeginMatch(t)
  <2> DEFINE f == [thread[t] EXCEPT !.pc = "match", !.mod = modCount]
  <2>1. Local(t, f) /\ started /\ UNCHANGED tableVars /\ thread[t].pc = "begin"
    BY <1>2, <1>b DEF BeginMatch
  <2>2. f \in ThreadStates
    BY <1>a DEF Known, Typed, ThreadStates
  <2>3. thread[t].next = 0
    BY <2>1 DEF Known, LookupsMeet
  <2>4. Consistent(t, f)
    BY <1>a, <1>c, <2>1, <2>2, <2>3 DEF Consistent, ThreadStates
  <2>5. QED
    BY <1>0, <2>1, <2>4, ThreadKeeps
<1>3. CASE MatchThrows(t)
  <2>1. Local(t, [Waiting EXCEPT !.pc = "dead"]) /\ started /\ UNCHANGED tableVars
    BY <1>3, <1>b DEF MatchThrows
  <2>2. Consistent(t, [Waiting EXCEPT !.pc = "dead"])
    BY IdleTyped DEF Consistent, ThreadStates
  <2>3. QED
    BY <1>0, <2>1, <2>2, ThreadKeeps
<1>4. CASE MatchNext(t)
  <2> DEFINE f == [thread[t] EXCEPT !.next = @ + 1]
  <2>1. /\ Local(t, f) /\ started /\ UNCHANGED tableVars /\ thread[t].pc = "match"
        /\ thread[t].next < Len(receivers) /\ receivers[thread[t].next + 1].addr # thread[t].part.addr
    BY <1>4, <1>b DEF MatchNext, HasNext, Matches
  <2>2. thread[t].part.addr = thread[t].from
    BY <1>c, <2>1, PartKinds
  <2>3. Consistent(t, f)
    BY <1>a, <1>c, <1>d, <2>1, <2>2 DEF Consistent, ThreadStates
  <2>4. QED
    BY <1>0, <2>1, <2>3, ThreadKeeps
<1>5. CASE MatchLinks(t)
  <2> DEFINE p == receivers[thread[t].next + 1]
  <2>1. /\ GoesOn(t) /\ started /\ thread[t].pc = "match" /\ thread[t].next < Len(receivers)
        /\ ssrcOf' = [ssrcOf EXCEPT ![p.addr] = thread[t].ssrc]
        /\ ssrcTable' = [ssrcTable EXCEPT ![thread[t].ssrc] = p]
    BY <1>5, <1>b DEF MatchLinks, HasNext
  <2>2. p \in Mines
    <3>1. thread[t].next + 1 \in 1 .. Len(receivers)
      BY <1>a, <2>1 DEF ThreadStates
    <3>2. QED
      BY <3>1 DEF Known, Typed
  <2>3. ssrcOf' \in [Addr -> Ssrc \cup {Nothing}]
    BY <1>c, <2>1, <2>2, PartKinds DEF Known, Typed
  <2>4. PICK f : Local(t, f) /\ Consistent(t, f)
    BY <2>1, GoesOnConsistent
  <2>5. QED
    BY <1>0, <1>c, <2>1, <2>2, <2>3, <2>4, PartKinds, ThreadEnters
<1>6. CASE MatchFindsNone(t)
  <2>1. /\ GoesOn(t) /\ started /\ thread[t].pc = "match" /\ ~(thread[t].next < Len(receivers))
        /\ ssrcOf' = ssrcOf
        /\ ssrcTable' = [ssrcTable EXCEPT ![thread[t].ssrc] = thread[t].part]
    BY <1>6, <1>b DEF MatchFindsNone, HasNext
  <2>2. thread[t].part.addr \notin faithful
    <3>1. thread[t].part.addr = thread[t].from
      BY <1>c, <2>1, PartKinds
    <3>2. thread[t].next = Len(receivers)
      BY <1>a, <1>d, <2>1 DEF ThreadStates
    <3>3. \A i \in 1 .. Len(receivers) : receivers[i] # Mine(thread[t].from)
      BY <1>c, <1>d, <2>1, <3>2, PartKinds
    <3>4. QED
      BY <3>1, <3>3 DEF Known, LookupsMeet
  <2>3. PICK f : Local(t, f) /\ Consistent(t, f)
    BY <2>1, GoesOnConsistent
  <2>4. thread[t].part \in Parts /\ ssrcOf' \in [Addr -> Ssrc \cup {Nothing}]
    BY <1>c, <2>1, PartKinds DEF Known, Typed
  <2>5. QED
    BY <1>0, <1>c, <2>1, <2>2, <2>3, <2>4, ThreadEnters
<1>7. CASE Store(t)
  <2>1. Local(t, Waiting) /\ started /\ UNCHANGED tableVars
    BY <1>7, <1>b DEF Store
  <2>2. Consistent(t, Waiting)
    BY IdleTyped DEF Consistent
  <2>3. QED
    BY <1>0, <2>1, <2>2, ThreadKeeps
<1>8. QED
  BY <1>1, <1>2, <1>3, <1>4, <1>5, <1>6, <1>7 DEF Receivers

LEMMA QuietBefore == ASSUME [Next]_vars, Quiet' PROVE Quiet
<1>1. ASSUME NEW p \in Participant, RemoveFromReceivers(p) PROVE Quiet
  BY <1>1, RemovalFacts DEF Quiet
<1>2. CASE Register \/ AddAppends \/ RemoveFromTable
  BY <1>2 DEF Quiet, Register, AddAppends, RemoveFromTable
<1>3. ASSUME NEW a \in Addr, AddScans(a) \/ AddThrows(a) PROVE Quiet
  BY <1>3 DEF Quiet, AddScans, AddThrows
<1>4. ASSUME NEW t \in Receiver, Receivers(t) PROVE Quiet
  BY <1>4 DEF Quiet, Receivers, Receive, BeginMatch, MatchThrows, MatchNext, MatchLinks,
     MatchFindsNone, Store
<1>5. CASE Sender \/ UNCHANGED vars
  BY <1>5 DEF Quiet, Sender, SenderBegins, SenderThrows, SenderReports, vars
<1>6. QED
  BY <1>1, <1>2, <1>3, <1>4, <1>5 DEF Next, App

LEMMA PeersNext == IInv /\ [Next]_vars => IInv'
<1> SUFFICES ASSUME IInv, [Next]_vars, Quiet' PROVE Known'
  BY DEF IInv
<1>0. Known
  BY QuietBefore DEF IInv
<1>1. CASE App
  BY <1>0, <1>1, AppStep
<1>2. ASSUME NEW t \in Receiver, Receivers(t) PROVE Known'
  BY <1>0, <1>2, ReceiverStep
<1>3. CASE Sender \/ UNCHANGED vars
  <2>1. UNCHANGED <<started, listVars, tableVars, app, thread>>
    BY <1>3 DEF Sender, SenderBegins, SenderThrows, SenderReports, vars
  <2>2. QED
    BY <1>0, <2>1 DEF Known, Typed, BeforeStart, LookupsMeet, FaithfulLinked
<1>4. QED
  BY <1>1, <1>2, <1>3 DEF Next

LEMMA PeersInvariant == Spec => []IInv
<1>1. QED
  BY PeersInit, PeersNext, PTL DEF Spec

(* A peer known from the start never enters the table as unexpected,       *)
(* however lookups, additions and packets interleave.                      *)
THEOREM FaithfulAreLinked == Spec => []FaithfulLinked
<1>1. IInv => FaithfulLinked
  BY DEF IInv, Quiet, Known, FaithfulLinked
<1>2. QED
  BY <1>1, PeersInvariant, PTL

(* A peer known from the start that alone uses source s.                   *)
Own(s, a) == a \in faithful /\ \A b \in Addr : <<s, b>> \in Senders => b = a

(* The RTP receiver's packet: the object of its source that no table holds *)
(* is made once, before the source is linked.                              *)
LossOnce ==
    /\ lost \in [Ssrc -> Nat]
    /\ ~started => \A s \in Ssrc : lost[s] = 0
    /\ thread["rtcp"].pc # "store"
    /\ \A t \in Receiver :
         thread[t].pc \in {"begin", "match", "store"} =>
             /\ thread[t].ssrc \in Ssrc /\ thread[t].from \in Addr
             /\ <<thread[t].ssrc, thread[t].from>> \in Senders
    /\ app.pc = "remove" => \A a \in faithful : app.part # Mine(a)
    /\ \A s \in Ssrc, a \in Addr : Own(s, a) =>
         /\ ssrcTable[s] \in {NoOne, Mine(a)}
         /\ lost[s] <= 1
         /\ ssrcTable[s] = NoOne => lost[s] = 0
         /\ thread["rtp"].ssrc = s =>
              /\ thread["rtp"].pc \in {"begin", "match"} => lost[s] = 0
              /\ thread["rtp"].pc = "store" =>
                   ssrcTable[s] = Mine(a) /\ (thread["rtp"].part = Mine(a) \/ lost[s] = 0)

LossInv == Quiet => Known /\ LossOnce

LEMMA LossInit == Init => LossInv
<1> SUFFICES ASSUME Init PROVE LossOnce
  BY PeersInit DEF LossInv, IInv
<1>1. QED
  BY IdleTyped DEF Init, LossOnce, Own

LEMMA LossAppStep ==
    ASSUME Known, LossOnce, App, Quiet'
    PROVE  LossOnce'
<1>0. UNCHANGED <<thread, lost>>
  BY RemovalFacts DEF App, Register, AddAppends, RemoveFromTable, AddScans, AddThrows
<1>1. CASE Register
  <2>1. ~started /\ UNCHANGED <<ssrcTable, app>> /\ started'
    BY <1>1 DEF Register
  <2>2. /\ \A t \in Receiver : thread[t].pc = "wait"
        /\ \A s \in Ssrc : ssrcTable[s] = NoOne /\ lost[s] = 0
        /\ app.pc # "remove"
    BY <2>1 DEF Known, BeforeStart, LossOnce
  <2>3. QED
    BY <1>0, <2>1, <2>2 DEF LossOnce
<1>2. CASE AddAppends \/ \E a \in Addr : AddScans(a) \/ AddThrows(a)
  <2>1. app'.pc # "remove" /\ UNCHANGED <<started, faithful, ssrcTable>>
    BY <1>2, IdleTyped DEF AddAppends, AddScans, AddThrows
  <2>2. QED
    BY <1>0, <2>1 DEF LossOnce, Own
<1>3. CASE RemoveFromTable
  <2>1. app' = Idle /\ UNCHANGED <<started, faithful>> /\ app.pc = "remove"
    BY <1>3 DEF RemoveFromTable
  <2>2. \A s \in Ssrc : ssrcTable'[s] = ssrcTable[s] \/ ssrcTable[s] = app.part
    BY <1>3 DEF Known, Typed, RemoveFromTable
  <2>3. \A s \in Ssrc : ssrcTable'[s] = ssrcTable[s] \/ ssrcTable'[s] = NoOne
    BY <1>3 DEF Known, Typed, RemoveFromTable
  <2>4. ASSUME NEW s \in Ssrc, NEW a \in Addr, Own(s, a)
        PROVE  ssrcTable'[s] = ssrcTable[s]
    <3>1. app.part # Mine(a) /\ ssrcTable[s] \in {NoOne, Mine(a)}
      BY <2>1, <2>4 DEF LossOnce, Own
    <3>2. QED
      BY <2>2, <2>3, <3>1
  <2>5. QED
    BY <1>0, <2>1, <2>4, IdleTyped DEF LossOnce, Own
<1>4. ASSUME NEW p \in Participant, RemoveFromReceivers(p) PROVE LossOnce'
  <2>1. /\ p \notin ToSet(receivers) /\ UNCHANGED <<started, faithful, ssrcTable>>
        /\ app' = [pc |-> "remove", part |-> p]
    BY <1>4, RemovalFacts DEF Quiet
  <2>2. \A a \in faithful : p # Mine(a)
    BY <2>1 DEF Known, Typed, LookupsMeet, ToSet
  <2>3. QED
    BY <1>0, <2>1, <2>2 DEF LossOnce, Own
<1>5. QED
  BY <1>1, <1>2, <1>3, <1>4 DEF App

(* A step that leaves table and losses alone.                              *)
LEMMA LossThreadStep ==
    ASSUME Known, LossOnce, NEW t \in Receiver, NEW f \in ThreadStates, Local(t, f),
           UNCHANGED <<started, faithful, app, ssrcTable, lost>>,
           f.pc \in {"begin", "match", "store"} =>
               f.ssrc \in Ssrc /\ f.from \in Addr /\ <<f.ssrc, f.from>> \in Senders,
           t = "rtcp" => f.pc # "store",
           t = "rtp" => \A s \in Ssrc, a \in Addr : Own(s, a) /\ f.ssrc = s =>
               /\ f.pc \in {"begin", "match"} => lost[s] = 0
               /\ f.pc = "store" => ssrcTable[s] = Mine(a) /\ f.part = Mine(a)
    PROVE  LossOnce'
<1>1. /\ thread'[t] = f
      /\ \A u \in Receiver : u # t => thread'[u] = thread[u]
  BY LocalStep DEF Known, Typed
<1>2. CASE t = "rtp"
  BY <1>1, <1>2 DEF LossOnce, Own
<1>3. CASE t = "rtcp"
  BY <1>1, <1>3 DEF LossOnce, Own
<1>4. QED
  BY <1>2, <1>3

LEMMA LossLinkStep ==
    ASSUME Known, LossOnce, NEW t \in Receiver, MatchLinks(t) \/ MatchFindsNone(t)
    PROVE  LossOnce'
<1> DEFINE me == thread[t]
<1>1. /\ me.pc = "match" /\ UNCHANGED <<started, faithful, app, lost>> /\ GoesOn(t)
      /\ \A s \in Ssrc : s # me.ssrc => ssrcTable'[s] = ssrcTable[s]
  BY DEF MatchLinks, MatchFindsNone, Known, Typed
<1>2. /\ me.ssrc \in Ssrc /\ me.from \in Addr /\ me.part = Found(t, me.ssrc, me.from)
      /\ <<me.ssrc, me.from>> \in Senders /\ me \in ThreadStates
  BY <1>1 DEF Known, Typed, LookupsMeet, LossOnce
<1>3. me.part.addr = me.from
  BY <1>2, PartKinds
<1>4. ASSUME NEW a \in Addr, Own(me.ssrc, a) PROVE ssrcTable'[me.ssrc] = Mine(a)
  <2>1. me.from = a /\ a \in faithful
    BY <1>2, <1>4 DEF Own
  <2>2. CASE MatchLinks(t)
    <3> DEFINE p == receivers[me.next + 1]
    <3>1. p.addr = me.part.addr /\ ssrcTable' = [ssrcTable EXCEPT ![me.ssrc] = p]
          /\ me.next < Len(receivers)
      BY <2>2 DEF MatchLinks, Matches, HasNext
    <3>2. me.next + 1 \in 1 .. Len(receivers)
      BY <1>2, <3>1 DEF Known, Typed, ThreadStates
    <3>3. p \in Mines
      BY <3>2 DEF Known, Typed
    <3>4. p = Mine(a)
      BY <1>3, <2>1, <3>1, <3>3, PartKinds
    <3>5. QED
      BY <1>2, <3>1, <3>4 DEF Known, Typed
  <2>3. CASE MatchFindsNone(t)
    <3>1. ~(me.next < Len(receivers))
      BY <2>3 DEF MatchFindsNone, HasNext
    <3>2. me.next = Len(receivers)
      BY <1>1, <1>2, <3>1 DEF Known, Typed, LookupsMeet, ThreadStates
    <3>3. \A i \in 1 .. Len(receivers) : receivers[i].addr # a
      BY <1>1, <2>1, <3>2 DEF Known, LookupsMeet
    <3>4. QED
      BY <2>1, <3>3, PartKinds DEF Known, LookupsMeet
  <2>4. QED
    BY <2>2, <2>3
<1>5. \A u \in Receiver : u # t => thread'[u] = thread[u]
  <2>1. PICK f : Local(t, f) /\ Consistent(t, f)
    BY <1>1, GoesOnConsistent
  <2>2. QED
    BY <2>1, LocalStep DEF Known, Typed, Consistent
<1>6. /\ t = "rtcp" => thread'[t] = Waiting
      /\ t = "rtp" => thread'[t] = [me EXCEPT !.pc = "store", !.next = 0, !.mod = 0]
  BY <1>1, <1>2, IdleTyped DEF GoesOn, Local, Known, Typed
<1>7. Mine(me.from) # NoOne
  BY <1>2, NothingAssumption DEF NothingAssumption, Mine, NoOne
<1>8. CASE t = "rtcp"
  <2>1. thread'["rtcp"] = Waiting /\ thread'["rtp"] = thread["rtp"]
    BY <1>5, <1>6, <1>8
  <2>2. ASSUME NEW s \in Ssrc, NEW a \in Addr, Own(s, a), s = me.ssrc
        PROVE  ssrcTable'[s] = Mine(a) /\ ssrcTable'[s] # NoOne
    BY <1>2, <1>4, <1>7, <2>2 DEF Own
  <2>3. QED
    BY <1>1, <2>1, <2>2, IdleTyped DEF LossOnce, Own
<1>9. CASE t = "rtp"
  <2>1. /\ thread'["rtcp"] = thread["rtcp"]
        /\ thread'["rtp"].pc = "store" /\ thread'["rtp"].ssrc = me.ssrc
        /\ thread'["rtp"].from = me.from
    BY <1>2, <1>5, <1>6, <1>9 DEF ThreadStates
  <2>2. ASSUME NEW s \in Ssrc, NEW a \in Addr, Own(s, a), s = me.ssrc
        PROVE  ssrcTable'[s] = Mine(a) /\ ssrcTable'[s] # NoOne /\ lost[s] = 0
    BY <1>1, <1>2, <1>4, <1>7, <1>9, <2>2 DEF Own, LossOnce
  <2>3. QED
    BY <1>1, <1>2, <2>1, <2>2 DEF LossOnce, Own
<1>10. QED
  BY <1>8, <1>9

LEMMA LossStoreStep ==
    ASSUME Known, LossOnce, NEW t \in Receiver, Store(t)
    PROVE  LossOnce'
<1> DEFINE me == thread[t]
<1>1. /\ t = "rtp" /\ me.pc = "store" /\ Local(t, Waiting)
      /\ UNCHANGED <<started, faithful, app, ssrcTable>>
  BY DEF Store, LossOnce
<1>2. me.ssrc \in Ssrc
  BY <1>1 DEF LossOnce
<1>3. thread'["rtp"] = Waiting /\ thread'["rtcp"] = thread["rtcp"]
  BY <1>1, IdleTyped, LocalStep DEF Known, Typed
<1>4. /\ lost' \in [Ssrc -> Nat]
      /\ \A s \in Ssrc : s # me.ssrc => lost'[s] = lost[s]
      /\ lost'[me.ssrc] \in {lost[me.ssrc], lost[me.ssrc] + 1}
      /\ (\E s \in Ssrc : ssrcTable[s] = me.part) => lost' = lost
  BY <1>2 DEF Store, LossOnce
<1>5. ASSUME NEW a \in Addr, Own(me.ssrc, a)
      PROVE  lost'[me.ssrc] <= 1 /\ ssrcTable[me.ssrc] # NoOne
  <2>1. ssrcTable[me.ssrc] = Mine(a) /\ (me.part = Mine(a) \/ lost[me.ssrc] = 0)
        /\ lost[me.ssrc] <= 1
    BY <1>1, <1>2, <1>5 DEF LossOnce
  <2>2. Mine(a) # NoOne
    BY NothingAssumption DEF NothingAssumption, Mine, NoOne
  <2>3. QED
    BY <1>2, <1>4, <2>1, <2>2
<1>6. started
  BY <1>1 DEF Known, BeforeStart
<1>7. QED
  BY <1>1, <1>3, <1>4, <1>5, <1>6, IdleTyped DEF LossOnce, Own

LEMMA LossReceiverStep ==
    ASSUME Known, LossOnce, NEW t \in Receiver, Receivers(t)
    PROVE  LossOnce'
<1>1. ASSUME NEW s \in Ssrc, NEW a \in Addr, Receive(t, s, a) PROVE LossOnce'
  <2> DEFINE known == ssrcTable[s]
             part == IF known = NoOne THEN Found(t, s, a) ELSE known
             f == [Waiting EXCEPT !.pc = IF known = NoOne THEN "begin" ELSE "store",
                                  !.part = part, !.ssrc = s, !.from = a]
  <2>1. /\ Local(t, f) /\ <<s, a>> \in Senders /\ (t = "rtcp" => known = NoOne)
        /\ UNCHANGED <<started, faithful, app, ssrcTable, lost>>
    BY <1>1 DEF Receive
  <2>2. part \in Parts
    BY PartKinds DEF Known, Typed
  <2>3. f \in ThreadStates
    BY <2>2 DEF ThreadStates, Waiting
  <2>4. f.pc = (IF known = NoOne THEN "begin" ELSE "store") /\ f.part = part
        /\ f.ssrc = s /\ f.from = a
    BY DEF Waiting
  <2>5. \A b \in Addr : Own(s, b) => known \in {NoOne, Mine(b)} /\ (known = NoOne => lost[s] = 0)
    BY DEF LossOnce
  <2>6. t = "rtcp" => f.pc # "store"
    BY <2>1, <2>4
  <2>7. \A s2 \in Ssrc, b \in Addr : Own(s2, b) /\ f.ssrc = s2 =>
           /\ f.pc \in {"begin", "match"} => lost[s2] = 0
           /\ f.pc = "store" => ssrcTable[s2] = Mine(b) /\ f.part = Mine(b)
    BY <2>4, <2>5
  <2>8. f.ssrc \in Ssrc /\ f.from \in Addr /\ <<f.ssrc, f.from>> \in Senders
    BY <2>1, <2>4
  <2> HIDE DEF f
  <2>9. QED
    BY <2>1, <2>3, <2>6, <2>7, <2>8, LossThreadStep
<1>2. CASE BeginMatch(t) \/ MatchNext(t) \/ MatchThrows(t)
  <2>1. PICK f : /\ Local(t, f) /\ f \in ThreadStates
                 /\ \/ f.pc = "match" /\ thread[t].pc \in {"begin", "match"}
                       /\ f.ssrc = thread[t].ssrc /\ f.from = thread[t].from
                    \/ f.pc = "dead"
                 /\ UNCHANGED <<started, faithful, app, ssrcTable, lost>>
    <3>1. thread[t] \in ThreadStates /\ modCount \in Nat
      BY DEF Known, Typed
    <3>2. CASE BeginMatch(t)
      BY <3>1, <3>2 DEF BeginMatch, ThreadStates
    <3>3. CASE MatchNext(t)
      BY <3>1, <3>3 DEF MatchNext, ThreadStates
    <3>4. CASE MatchThrows(t)
      BY <3>4, IdleTyped DEF MatchThrows, ThreadStates
    <3>5. QED
      BY <1>2, <3>2, <3>3, <3>4
  <2>2. f.pc = "match" => /\ f.ssrc \in Ssrc /\ f.from \in Addr /\ <<f.ssrc, f.from>> \in Senders
    BY <2>1 DEF LossOnce
  <2>3. t = "rtp" => \A s \in Ssrc, a \in Addr : Own(s, a) /\ f.ssrc = s =>
                         (f.pc = "match" => lost[s] = 0)
    BY <2>1 DEF LossOnce
  <2>4. QED
    BY <2>1, <2>2, <2>3, LossThreadStep
<1>3. CASE MatchLinks(t) \/ MatchFindsNone(t)
  BY <1>3, LossLinkStep
<1>4. CASE Store(t)
  BY <1>4, LossStoreStep
<1>5. QED
  BY <1>1, <1>2, <1>3, <1>4 DEF Receivers

LEMMA LossNext == LossInv /\ [Next]_vars => LossInv'
<1> SUFFICES ASSUME LossInv, [Next]_vars, Quiet' PROVE Known' /\ LossOnce'
  BY DEF LossInv
<1>1. Known'
  <2>1. Quiet
    BY QuietBefore
  <2>2. IInv /\ Known
    BY <2>1 DEF LossInv, IInv
  <2>3. QED
    BY <2>2, PeersNext DEF IInv
<1>2. Known /\ LossOnce
  BY QuietBefore DEF LossInv
<1>3. CASE App
  BY <1>1, <1>2, <1>3, LossAppStep
<1>4. ASSUME NEW t \in Receiver, Receivers(t) PROVE LossOnce'
  BY <1>2, <1>4, LossReceiverStep
<1>5. CASE Sender \/ UNCHANGED vars
  <2>1. UNCHANGED <<started, faithful, ssrcTable, app, thread, lost>>
    BY <1>5 DEF Sender, SenderBegins, SenderThrows, SenderReports, vars
  <2>2. QED
    BY <1>1, <1>2, <2>1 DEF LossOnce, Own
<1>6. QED
  BY <1>1, <1>3, <1>4, <1>5 DEF Next

(* Of a source only one peer uses, known from the start, at most the first *)
(* packet is lost to an object no table holds, whatever else happens.      *)
THEOREM FirstOnlyLost == Spec => []OnlyFirstLost
<1>1. LossInv => OnlyFirstLost
  BY DEF LossInv, LossOnce, Own, Quiet, Known, Typed, OnlyFirstLost
<1>2. QED
  BY <1>1, LossInit, LossNext, PTL DEF Spec

-----------------------------------------------------------------------------
(* The types, also after a removal *)

Room == Cardinality(Addr)

Distinct(s) == \A i, j \in 1 .. Len(s) : s[i] = s[j] => i = j

(* No address is twice among the receivers, so that they and the iterators *)
(* over them do not outnumber the addresses.                               *)
TypesInv ==
    /\ started \in BOOLEAN
    /\ Typed
    /\ Distinct(receivers)
    /\ app.pc = "add" => \A i \in 1 .. Len(receivers) : receivers[i] # app.part
    /\ \A t \in Receiver :
         /\ thread[t].pc \in {"begin", "match"} => thread[t].ssrc \in Ssrc
         /\ thread[t].next <= Room
    /\ lost \in [Ssrc -> Nat]
    /\ sender \in [pc : {"rest", "walk", "dead"}, next : 0 .. Room, mod : Nat]
    /\ lastReport \in Mines \cup {NoOne}

LEMMA AddrCount == Room \in Nat /\ 0 <= Room /\ 0 \in 0 .. Room
<1>1. Room \in Nat
  BY AddrAssumption, FS_CardinalityType DEF AddrAssumption, Room
<1>2. QED
  BY <1>1

LEMMA IntervalCount ==
    ASSUME NEW n \in Nat
    PROVE  Cardinality(1 .. n) = n
<1> DEFINE c == Cardinality(1 .. n)
<1>1. 1 \in Int /\ n \in Int
  OBVIOUS
<1>2. c = IF 1 > n THEN 0 ELSE n - 1 + 1
  BY <1>1, FS_Interval, Zenon
<1> HIDE DEF c
<1>3. c = n
  BY <1>2
<1>4. QED
  BY <1>3, Zenon DEF c

(* Receivers without repetition are at most as many as addresses.          *)
LEMMA DistinctCount ==
    ASSUME NEW s \in Seq(Mines), Distinct(s)
    PROVE  Len(s) <= Room
<1> DEFINE n == Len(s)
           f == [i \in 1 .. n |-> s[i].addr]
<1>1. n \in Nat /\ \A i \in 1 .. n : s[i] \in Mines
  OBVIOUS
<1>2. f \in [1 .. n -> Addr]
  BY <1>1, PartKinds
<1>3. \A i, j \in 1 .. n : f[i] = f[j] => i = j
  BY <1>1, PartKinds DEF Distinct
<1> HIDE DEF f
<1>4. f \in Injection(1 .. n, Addr)
  BY <1>2, <1>3 DEF Injection, IsInjective
<1>5. Cardinality(1 .. n) <= Room
  BY <1>4, AddrAssumption, FS_Injection DEF AddrAssumption, Room
<1>6. Cardinality(1 .. n) = n
  BY <1>1, IntervalCount, Zenon
<1>7. QED
  BY <1>5, <1>6

(* The first occurrence that is removed is one.                            *)
LEMMA RemovesOne ==
    ASSUME NEW s \in Seq(Mines), NEW p, p \in ToSet(s)
    PROVE  \E i \in 1 .. Len(s) : s[i] = p /\ RemoveFirst(s, p) = RemoveAt(s, i)
<1> DEFINE I == {i \in 1 .. Len(s) : s[i] = p}
<1>1. I # {} /\ I \subseteq Nat
  BY DEF ToSet
<1>2. PICK x \in I : \A y \in I : ~(<<y, x>> \in OpToRel(<, Nat))
  BY <1>1, NatLessThanWellFounded, WFMin, Zenon
<1>3. \A y \in I : x <= y
  <2>1. SUFFICES ASSUME NEW y \in I, y < x PROVE FALSE
    BY <1>1
  <2>2. x \in Nat /\ y \in Nat
    BY <1>1
  <2>3. <<y, x>> \in {ss \in Nat \X Nat : ss[1] < ss[2]}
    BY <2>1, <2>2
  <2>4. QED
    BY <1>2, <2>3, Zenon DEF OpToRel
<1>4. Min(I) \in I
  BY <1>3, Zenon DEF Min
<1>5. RemoveFirst(s, p) = RemoveAt(s, Min(I))
  BY <1>1, Zenon DEF RemoveFirst, SelectInSeq
<1>6. QED
  BY <1>4, <1>5

LEMMA RemovedReceivers ==
    ASSUME TypesInv, NEW p, p \in ToSet(receivers), receivers' = RemoveFirst(receivers, p)
    PROVE  /\ receivers' \in Seq(Mines)
           /\ Distinct(receivers')
<1> DEFINE s == receivers
           n == Len(s)
<1>1. PICK i \in 1 .. n : receivers' = SubSeq(s, 1, i - 1) \o SubSeq(s, i + 1, n)
  BY RemovesOne DEF TypesInv, Typed, RemoveAt
<1>2. s \in Seq(Mines) /\ n \in Nat /\ i \in 1 .. n /\ \A k \in 1 .. n : s[k] \in Mines
  BY DEF TypesInv, Typed
<1> DEFINE a == SubSeq(s, 1, i - 1)
           b == SubSeq(s, i + 1, n)
<1>3. a \in Seq(Mines) /\ Len(a) = i - 1 /\ \A k \in 1 .. i - 1 : a[k] = s[k]
  <2>1. \A k \in 1 .. i - 1 : s[k] \in Mines
    BY <1>2
  <2>2. /\ a \in Seq(Mines)
        /\ Len(a) = IF 1 <= i - 1 THEN i - 1 - 1 + 1 ELSE 0
        /\ \A k \in 1 .. i - 1 - 1 + 1 : a[k] = s[1 + k - 1]
    BY <1>2, <2>1, SubSeqProperties
  <2>3. QED
    BY <1>2, <2>2
<1>4. b \in Seq(Mines) /\ Len(b) = n - i /\ \A k \in 1 .. n - i : b[k] = s[i + k]
  <2>1. \A k \in i + 1 .. n : s[k] \in Mines
    BY <1>2
  <2>2. /\ b \in Seq(Mines)
        /\ Len(b) = IF i + 1 <= n THEN n - (i + 1) + 1 ELSE 0
        /\ \A k \in 1 .. n - (i + 1) + 1 : b[k] = s[i + 1 + k - 1]
    BY <1>2, <2>1, SubSeqProperties
  <2>3. QED
    BY <1>2, <2>2
<1>5. receivers' = a \o b
  BY <1>1
<1> HIDE DEF a, b
<1>6. /\ a \o b \in Seq(Mines) /\ Len(a \o b) = n - 1
      /\ \A k \in 1 .. n - 1 : (a \o b)[k] = IF k <= i - 1 THEN s[k] ELSE s[k + 1]
  <2>1. /\ a \o b \in Seq(Mines) /\ Len(a \o b) = Len(a) + Len(b)
        /\ \A k \in 1 .. Len(a) + Len(b) :
              (a \o b)[k] = IF k <= Len(a) THEN a[k] ELSE b[k - Len(a)]
    BY <1>3, <1>4, ConcatProperties
  <2>2. Len(a) + Len(b) = n - 1
    BY <1>2, <1>3, <1>4
  <2>3. ASSUME NEW k \in 1 .. n - 1
        PROVE  (a \o b)[k] = IF k <= i - 1 THEN s[k] ELSE s[k + 1]
    <3>1. CASE k <= i - 1
      BY <1>2, <1>3, <2>1, <2>2, <3>1
    <3>2. CASE ~(k <= i - 1)
      <4>1. k - (i - 1) \in 1 .. n - i /\ i + (k - (i - 1)) = k + 1
        BY <1>2, <3>2
      <4>2. (a \o b)[k] = b[k - (i - 1)]
        BY <1>3, <2>1, <2>2, <3>2
      <4>3. QED
        BY <1>4, <3>2, <4>1, <4>2
    <3>3. QED
      BY <3>1, <3>2
  <2>4. QED
    BY <2>1, <2>2, <2>3
<1>7. ASSUME NEW j \in 1 .. n - 1, NEW k \in 1 .. n - 1, (a \o b)[j] = (a \o b)[k] PROVE j = k
  <2> DEFINE up(x) == IF x <= i - 1 THEN x ELSE x + 1
  <2>1. /\ up(j) \in 1 .. n /\ up(k) \in 1 .. n
        /\ (a \o b)[j] = s[up(j)] /\ (a \o b)[k] = s[up(k)]
    BY <1>2, <1>6
  <2>2. up(j) = up(k)
    BY <1>7, <2>1 DEF TypesInv, Distinct
  <2>3. QED
    BY <1>2, <2>2
<1>8. QED
  BY <1>5, <1>6, <1>7 DEF Distinct

LEMMA TypesInit == Init => TypesInv
<1> SUFFICES ASSUME Init PROVE TypesInv
  OBVIOUS
<1>1. Typed
  BY PeersInit DEF Init, IInv, Quiet, Known
<1>2. sender \in [pc : {"rest", "walk", "dead"}, next : 0 .. Room, mod : Nat]
  BY AddrCount DEF Init
<1>3. \A t \in Receiver : thread[t].pc = "wait" /\ thread[t].next = 0
  BY DEF Init, Waiting
<1>4. Distinct(receivers) /\ app.pc = "idle"
  BY IdleTyped DEF Init, Distinct
<1>5. QED
  BY <1>1, <1>2, <1>3, <1>4, AddrCount DEF Init, TypesInv

LEMMA TypesAppStep ==
    ASSUME TypesInv, App
    PROVE  TypesInv'
<1>0. UNCHANGED <<thread, lost, sender, lastReport>>
  BY RemovalFacts DEF App, Register, AddAppends, RemoveFromTable, AddScans, AddThrows, RemoveFromReceivers
<1>1. CASE Register
  <2>1. /\ started' /\ faithful' = {p.addr : p \in ToSet(receivers)}
        /\ UNCHANGED <<receivers, modCount, tableVars, app>>
    BY <1>1 DEF Register
  <2>2. faithful' \subseteq Addr
    BY <2>1, PartKinds DEF TypesInv, Typed, ToSet
  <2>3. started' \in BOOLEAN
    BY <1>1 DEF Register
  <2>4. QED
    BY <1>0, <2>1, <2>2, <2>3 DEF TypesInv, Typed
<1>2. CASE AddAppends
  <2>1. /\ receivers' = Append(receivers, app.part) /\ app.part \in Mines
        /\ modCount' = modCount + (IF started THEN 1 ELSE 0)
        /\ UNCHANGED <<started, faithful, ssrcTable, ssrcOf>> /\ app' = Idle
        /\ \A i \in 1 .. Len(receivers) : receivers[i] # app.part
    BY <1>2 DEF TypesInv, Typed, AddAppends
  <2>2. /\ receivers' \in Seq(Mines) /\ Len(receivers') = Len(receivers) + 1 /\ Len(receivers) \in Nat
        /\ \A i \in 1 .. Len(receivers) : receivers'[i] = receivers[i]
        /\ receivers'[Len(receivers) + 1] = app.part
    BY <2>1 DEF TypesInv, Typed
  <2>3. Distinct(receivers')
    BY <2>1, <2>2 DEF TypesInv, Distinct
  <2>4. modCount' \in Nat
    BY <2>1 DEF TypesInv, Typed
  <2>5. Typed'
    BY <1>0, <2>1, <2>2, <2>4, IdleTyped DEF TypesInv, Typed
  <2>6. QED
    BY <1>0, <2>1, <2>3, <2>5, IdleTyped DEF TypesInv
<1>3. CASE RemoveFromTable
  <2>1. ssrcTable' \in [Ssrc -> Parts]
    BY <1>3, PartKinds DEF TypesInv, Typed, RemoveFromTable
  <2>2. app' = Idle /\ UNCHANGED <<started, listVars, ssrcOf>>
    BY <1>3 DEF RemoveFromTable
  <2>3. Typed'
    BY <1>0, <2>1, <2>2, IdleTyped DEF TypesInv, Typed
  <2>4. QED
    BY <1>0, <2>2, <2>3, IdleTyped DEF TypesInv
<1>4. ASSUME NEW a \in Addr, AddScans(a) \/ AddThrows(a) PROVE TypesInv'
  <2>1. /\ \/ app' = [pc |-> "add", part |-> Mine(a)] /\ Mine(a) \notin ToSet(receivers)
           \/ app' = [pc |-> "threw", part |-> NoOne]
        /\ UNCHANGED <<started, listVars, tableVars>>
    BY <1>4 DEF AddScans, AddThrows
  <2>2. Typed'
    BY <1>0, <2>1, PartKinds DEF TypesInv, Typed
  <2>3. app'.pc = "add" => \A i \in 1 .. Len(receivers) : receivers[i] # app'.part
    BY <2>1 DEF TypesInv, Typed, ToSet
  <2>4. QED
    BY <1>0, <2>1, <2>2, <2>3 DEF TypesInv
<1>5. ASSUME NEW p \in Participant, RemoveFromReceivers(p) PROVE TypesInv'
  <2>1. /\ app' = [pc |-> "remove", part |-> p] /\ UNCHANGED <<started, tableVars>>
        /\ faithful' = {} \/ faithful' = faithful
    BY <1>5, RemovalFacts
  <2>2. receivers' \in Seq(Mines) /\ Distinct(receivers') /\ modCount' \in Nat
    <3>1. CASE p \in ToSet(receivers)
      <4>1. receivers' = RemoveFirst(receivers, p) /\ modCount' = modCount + 1
        BY <1>5, <3>1, Zenon DEF RemoveFromReceivers
      <4>2. receivers' \in Seq(Mines) /\ Distinct(receivers')
        BY <3>1, <4>1, RemovedReceivers
      <4>3. modCount' \in Nat
        BY <4>1 DEF TypesInv, Typed
      <4>4. QED
        BY <4>2, <4>3
    <3>2. CASE p \notin ToSet(receivers)
      <4>1. UNCHANGED listVars
        BY <1>5, <3>2, Zenon DEF RemoveFromReceivers
      <4>2. QED
        BY <4>1 DEF TypesInv, Typed
    <3>3. QED
      BY <3>1, <3>2
  <2>3. app' \in [pc : {"idle", "add", "remove", "threw"}, part : Parts] /\ app'.pc = "remove"
    BY <2>1 DEF Parts
  <2>4. Typed'
    BY <1>0, <2>1, <2>2, <2>3 DEF TypesInv, Typed
  <2>5. QED
    BY <1>0, <2>1, <2>2, <2>3, <2>4 DEF TypesInv
<1>6. QED
  BY <1>1, <1>2, <1>3, <1>4, <1>5 DEF App

(* What the types ask of a receiver thread's new state.                    *)
WellTyped(f) ==
    /\ f \in ThreadStates
    /\ f.pc \in {"begin", "match"} => f.ssrc \in Ssrc
    /\ f.next <= Room

LEMMA TypesThread ==
    ASSUME TypesInv, NEW t \in Receiver, NEW f, Local(t, f), WellTyped(f),
           UNCHANGED <<started, listVars, app, sender, lastReport>>,
           ssrcTable' \in [Ssrc -> Parts], ssrcOf' \in [Addr -> Ssrc \cup {Nothing}],
           lost' \in [Ssrc -> Nat]
    PROVE  TypesInv'
<1>1. /\ thread' \in [Receiver -> ThreadStates] /\ thread'[t] = f
      /\ \A u \in Receiver : u # t => thread'[u] = thread[u]
  BY LocalStep DEF TypesInv, Typed, WellTyped
<1>2. Typed'
  BY <1>1 DEF TypesInv, Typed
<1>3. \A u \in Receiver : /\ thread'[u].pc \in {"begin", "match"} => thread'[u].ssrc \in Ssrc
                         /\ thread'[u].next <= Room
  BY <1>1 DEF TypesInv, WellTyped
<1>4. QED
  BY <1>2, <1>3 DEF TypesInv

LEMMA WaitingWellTyped == WellTyped(Waiting) /\ WellTyped([Waiting EXCEPT !.pc = "dead"])
<1>1. Waiting.next = 0 /\ [Waiting EXCEPT !.pc = "dead"].next = 0
      /\ [Waiting EXCEPT !.pc = "dead"].pc = "dead"
  BY DEF Waiting
<1>2. Waiting \in ThreadStates /\ [Waiting EXCEPT !.pc = "dead"] \in ThreadStates
  BY IdleTyped DEF ThreadStates
<1>3. QED
  BY <1>1, <1>2, IdleTyped, AddrCount DEF WellTyped

LEMMA GoesOnWellTyped ==
    ASSUME TypesInv, NEW t \in Receiver, GoesOn(t)
    PROVE  \E f : Local(t, f) /\ WellTyped(f)
<1> DEFINE f == [thread[t] EXCEPT !.pc = "store", !.next = 0, !.mod = 0]
<1>1. Local(t, f) \/ Local(t, Waiting)
  BY DEF GoesOn
<1>2. f \in ThreadStates /\ f.pc = "store" /\ f.next = 0
  BY DEF TypesInv, Typed, ThreadStates
<1>3. QED
  BY <1>1, <1>2, WaitingWellTyped, AddrCount DEF WellTyped

LEMMA TypesReceiverStep ==
    ASSUME TypesInv, NEW t \in Receiver, Receivers(t)
    PROVE  TypesInv'
<1>0. UNCHANGED <<started, listVars, app, sender, lastReport>>
  BY DEF Receivers, Receive, BeginMatch, MatchThrows, MatchNext, MatchLinks, MatchFindsNone, Store
<1>a. /\ thread[t] \in ThreadStates /\ Len(receivers) \in Nat
      /\ ssrcTable \in [Ssrc -> Parts] /\ ssrcOf \in [Addr -> Ssrc \cup {Nothing}]
      /\ lost \in [Ssrc -> Nat] /\ modCount \in Nat
      /\ thread[t].pc \in {"begin", "match"} => thread[t].ssrc \in Ssrc
      /\ thread[t].next \in Nat /\ thread[t].next <= Room
  BY DEF TypesInv, Typed, ThreadStates
<1>b. Len(receivers) <= Room
  BY DistinctCount DEF TypesInv, Typed
<1>1. ASSUME NEW s \in Ssrc, NEW a \in Addr, Receive(t, s, a) PROVE TypesInv'
  <2> DEFINE known == ssrcTable[s]
             part == IF known = NoOne THEN Found(t, s, a) ELSE known
             f == [Waiting EXCEPT !.pc = IF known = NoOne THEN "begin" ELSE "store",
                                  !.part = part, !.ssrc = s, !.from = a]
  <2>1. Local(t, f) /\ UNCHANGED <<tableVars, lost>>
    BY <1>1 DEF Receive
  <2>2. part \in Parts
    BY <1>a, PartKinds
  <2>3. WellTyped(f)
    BY <2>2, AddrCount DEF WellTyped, ThreadStates, Waiting
  <2> HIDE DEF f
  <2>4. QED
    BY <1>0, <1>a, <2>1, <2>3, TypesThread
<1>2. CASE BeginMatch(t)
  <2> DEFINE f == [thread[t] EXCEPT !.pc = "match", !.mod = modCount]
  <2>1. Local(t, f) /\ UNCHANGED <<tableVars, lost>> /\ thread[t].pc = "begin"
    BY <1>2 DEF BeginMatch
  <2>2. WellTyped(f)
    BY <1>a, <2>1 DEF WellTyped, ThreadStates
  <2> HIDE DEF f
  <2>3. QED
    BY <1>0, <1>a, <2>1, <2>2, TypesThread
<1>3. CASE MatchThrows(t) \/ Store(t)
  <2>1. PICK f : Local(t, f) /\ WellTyped(f)
    BY <1>3, WaitingWellTyped DEF MatchThrows, Store
  <2>2. UNCHANGED tableVars /\ lost' \in [Ssrc -> Nat]
    BY <1>3, <1>a DEF MatchThrows, Store
  <2>3. QED
    BY <1>0, <1>a, <2>1, <2>2, TypesThread
<1>4. CASE MatchNext(t)
  <2> DEFINE f == [thread[t] EXCEPT !.next = @ + 1]
  <2>1. /\ Local(t, f) /\ UNCHANGED <<tableVars, lost>> /\ thread[t].pc = "match"
        /\ thread[t].next < Len(receivers)
    BY <1>4 DEF MatchNext, HasNext
  <2>2. thread[t].next + 1 <= Room
    BY <1>a, <1>b, <2>1, AddrCount
  <2>3. WellTyped(f)
    <3>1. f \in ThreadStates /\ f.next = thread[t].next + 1 /\ f.ssrc = thread[t].ssrc
      <4>1. thread[t] \in ThreadStates
        BY <1>a
      <4>2. QED
        BY <4>1 DEF ThreadStates
    <3> HIDE DEF f
    <3>2. QED
      BY <1>a, <2>1, <2>2, <3>1 DEF WellTyped
  <2> HIDE DEF f
  <2>4. QED
    BY <1>0, <1>a, <2>1, <2>3, TypesThread
<1>5. CASE MatchLinks(t)
  <2> DEFINE p == receivers[thread[t].next + 1]
  <2>1. /\ GoesOn(t) /\ thread[t].pc = "match" /\ thread[t].next < Len(receivers)
        /\ ssrcOf' = [ssrcOf EXCEPT ![p.addr] = thread[t].ssrc]
        /\ ssrcTable' = [ssrcTable EXCEPT ![thread[t].ssrc] = p]
        /\ lost' = lost
    BY <1>5 DEF MatchLinks, HasNext
  <2>2. p \in Mines
    <3>1. thread[t].next + 1 \in 1 .. Len(receivers)
      BY <1>a, <2>1
    <3>2. QED
      BY <3>1 DEF TypesInv, Typed
  <2>3. ssrcOf' \in [Addr -> Ssrc \cup {Nothing}] /\ ssrcTable' \in [Ssrc -> Parts]
    BY <1>a, <2>1, <2>2, PartKinds
  <2>4. PICK f : Local(t, f) /\ WellTyped(f)
    BY <2>1, GoesOnWellTyped
  <2>5. QED
    BY <1>0, <1>a, <2>1, <2>3, <2>4, TypesThread
<1>6. CASE MatchFindsNone(t)
  <2>1. /\ GoesOn(t) /\ thread[t].pc = "match" /\ UNCHANGED <<ssrcOf, lost>>
        /\ ssrcTable' = [ssrcTable EXCEPT ![thread[t].ssrc] = thread[t].part]
    BY <1>6 DEF MatchFindsNone
  <2>2. ssrcTable' \in [Ssrc -> Parts]
    BY <1>a, <2>1 DEF ThreadStates
  <2>3. PICK f : Local(t, f) /\ WellTyped(f)
    BY <2>1, GoesOnWellTyped
  <2>4. QED
    BY <1>0, <1>a, <2>1, <2>2, <2>3, TypesThread
<1>7. QED
  BY <1>1, <1>2, <1>3, <1>4, <1>5, <1>6 DEF Receivers

LEMMA TypesSenderStep ==
    ASSUME TypesInv, Sender
    PROVE  TypesInv'
<1> DEFINE States == [pc : {"rest", "walk", "dead"}, next : 0 .. Room, mod : Nat]
<1>0. UNCHANGED <<started, listVars, tableVars, app, thread, lost>>
  BY DEF Sender, SenderBegins, SenderThrows, SenderReports
<1>1. /\ sender \in States /\ modCount \in Nat /\ Len(receivers) \in Nat
      /\ Len(receivers) <= Room
      /\ \A i \in 1 .. Len(receivers) : receivers[i] \in Mines
      /\ lastReport \in Mines \cup {NoOne}
  BY DistinctCount DEF TypesInv, Typed
<1>a. /\ \A m \in Nat : [pc |-> "walk", next |-> 0, mod |-> m] \in States
      /\ [pc |-> "dead", next |-> 0, mod |-> 0] \in States
  BY AddrCount
<1>2. sender' \in States /\ lastReport' \in Mines \cup {NoOne}
  <2>1. CASE SenderBegins
    <3>1. sender' = [pc |-> "walk", next |-> 0, mod |-> modCount] /\ lastReport' = lastReport
      BY <2>1 DEF SenderBegins
    <3> HIDE DEF States
    <3>2. QED
      BY <1>1, <1>a, <3>1
  <2>2. CASE SenderThrows
    <3>1. sender' = [pc |-> "dead", next |-> 0, mod |-> 0] /\ lastReport' = lastReport
      BY <2>2 DEF SenderThrows
    <3> HIDE DEF States
    <3>2. QED
      BY <1>1, <1>a, <3>1
  <2>3. CASE SenderReports
    <3> DEFINE it == IF HasNext(sender) THEN sender
                     ELSE [pc |-> "walk", next |-> 0, mod |-> modCount]
    <3>1. it \in States
      BY <1>1, <1>a
    <3>2. CASE receivers = <<>>
      <4>1. sender' = it /\ lastReport' = lastReport
        BY <2>3, <3>2 DEF SenderReports
      <4> HIDE DEF it, States
      <4>2. QED
        BY <1>1, <3>1, <4>1
    <3>3. CASE receivers # <<>>
      <4>1. sender' = [it EXCEPT !.next = @ + 1] /\ lastReport' = receivers[it.next + 1]
        BY <2>3, <3>3 DEF SenderReports
      <4>2. it.next \in Nat /\ it.next < Len(receivers)
        <5>1. Len(receivers) > 0
          BY <3>3 DEF TypesInv, Typed
        <5>2. QED
          BY <1>1, <5>1 DEF HasNext
      <4> HIDE DEF it
      <4>3. it.next + 1 \in 0 .. Room /\ it.next + 1 \in 1 .. Len(receivers)
        BY <1>1, <4>2, AddrCount
      <4>4. QED
        BY <1>1, <3>1, <4>1, <4>3
    <3>4. QED
      BY <3>2, <3>3
  <2>4. QED
    BY <2>1, <2>2, <2>3 DEF Sender
<1>3. QED
  BY <1>0, <1>2 DEF TypesInv, Typed

LEMMA TypesNext == TypesInv /\ [Next]_vars => TypesInv'
<1> SUFFICES ASSUME TypesInv, [Next]_vars PROVE TypesInv'
  OBVIOUS
<1>1. CASE UNCHANGED vars
  BY <1>1 DEF vars, TypesInv, Typed
<1>2. QED
  BY <1>1, TypesAppStep, TypesReceiverStep, TypesSenderStep DEF Next

LEMMA TypesSuffice == TypesInv => TypeOK
<1> SUFFICES ASSUME TypesInv PROVE TypeOK
  OBVIOUS
<1>1. Len(receivers) <= Room
  BY DistinctCount DEF TypesInv, Typed
<1>2. ToSet(receivers) \subseteq {Mine(a) : a \in Addr}
  BY DEF TypesInv, Typed, ToSet, Mines
<1>3. \A t \in Receiver :
        /\ thread[t].pc \in {"wait", "begin", "match", "store", "dead"}
        /\ thread[t].part \in Participant \cup {NoOne}
        /\ thread[t].ssrc \in Ssrc \cup {Nothing}
        /\ thread[t].from \in Addr \cup {Nothing}
        /\ thread[t].next \in 0 .. Room
  BY AddrCount DEF TypesInv, Typed, ThreadStates, Parts
<1>4. sender.pc \in {"rest", "walk", "dead"} /\ sender.next \in 0 .. Room
      /\ lastReport \in {Mine(a) : a \in Addr} \cup {NoOne}
  BY DEF TypesInv, Mines
<1>5. app.pc \in {"idle", "add", "remove", "threw"} /\ app.part \in Participant \cup {NoOne}
  BY DEF TypesInv, Typed, Parts
<1>6. QED
  BY <1>1, <1>2, <1>3, <1>4, <1>5 DEF TypesInv, Typed, TypeOK, Parts, Room

(* Every variable keeps its type, and no list or iterator outgrows the     *)
(* addresses, however participants are added, removed and looked up.       *)
THEOREM TypeCorrect == Spec => []TypeOK
<1>1. QED
  BY TypesInit, TypesNext, TypesSuffice, PTL DEF Spec

-----------------------------------------------------------------------------
(* The sender's turns *)

(* The reports up to and with the next one to the i-th receiver.           *)
ReportsTo(i) ==
    LET n == sender.next
    IN IF i > n THEN i - n ELSE IF n < Len(receivers) THEN Len(receivers) - n + i ELSE i

GoesRound ==
    sender.pc = "walk" /\ receivers' = receivers =>
        \A i \in 1 .. Len(receivers) :
            /\ ReportsTo(i) \in 1 .. Len(receivers)
            /\ SenderReports =>
                 IF ReportsTo(i) = 1
                 THEN lastReport' = receivers[i]
                 ELSE ReportsTo(i)' = ReportsTo(i) - 1
            /\ ~Sender => ReportsTo(i)' = ReportsTo(i)

LEMMA SenderTakesTurns ==
    ASSUME TypesInv, SenderReports, sender.pc = "walk", receivers' = receivers,
           NEW i \in 1 .. Len(receivers)
    PROVE  IF ReportsTo(i) = 1
           THEN lastReport' = receivers[i]
           ELSE ReportsTo(i)' = ReportsTo(i) - 1
<1>1. /\ Len(receivers) \in Nat /\ sender.next \in Nat
      /\ i \in Nat /\ 1 <= i /\ i <= Len(receivers)
      /\ receivers # <<>>
      /\ sender \in [pc : {"rest", "walk", "dead"}, next : 0 .. Room, mod : Nat]
  BY AddrCount DEF TypesInv, Typed
<1>2. CASE HasNext(sender)
  <2>1. sender' = [sender EXCEPT !.next = @ + 1] /\ lastReport' = receivers[sender.next + 1]
    BY <1>1, <1>2 DEF SenderReports
  <2>2. sender'.next = sender.next + 1
    BY <1>1, <2>1
  <2>3. QED
    BY <1>1, <1>2, <2>1, <2>2 DEF ReportsTo, HasNext
<1>3. CASE ~HasNext(sender)
  <2>1. sender'.next = 1 /\ lastReport' = receivers[1]
    BY <1>1, <1>3 DEF SenderReports
  <2>2. QED
    BY <1>1, <1>3, <2>1 DEF ReportsTo, HasNext
<1>4. QED
  BY <1>2, <1>3

LEMMA OthersLeaveTurns ==
    ASSUME [Next]_vars, ~Sender
    PROVE  sender' = sender
BY DEF Next, vars, sendVars, App, Register, AddScans, AddThrows, AddAppends,
       RemoveFromReceivers, RemoveFromTable, Receivers, Receive, BeginMatch, MatchThrows,
       MatchNext, MatchLinks, MatchFindsNone, Store

LEMMA GoesRoundStep == TypesInv /\ [Next]_vars => GoesRound
<1> SUFFICES ASSUME TypesInv, [Next]_vars, sender.pc = "walk", receivers' = receivers,
                    NEW i \in 1 .. Len(receivers)
             PROVE  /\ ReportsTo(i) \in 1 .. Len(receivers)
                    /\ SenderReports =>
                         IF ReportsTo(i) = 1
                         THEN lastReport' = receivers[i]
                         ELSE ReportsTo(i)' = ReportsTo(i) - 1
                    /\ ~Sender => ReportsTo(i)' = ReportsTo(i)
  BY DEF GoesRound
<1>1. ReportsTo(i) \in 1 .. Len(receivers)
  BY AddrCount DEF TypesInv, Typed, ReportsTo
<1>2. ~Sender => ReportsTo(i)' = ReportsTo(i)
  BY OthersLeaveTurns DEF ReportsTo
<1>3. QED
  BY <1>1, <1>2, SenderTakesTurns

(* While the receivers stay as they are, the RTCP sender reports to each   *)
(* of them once in as many reports as there are receivers, in their order, *)
(* and nothing the other threads do changes whose turn it is.              *)
THEOREM ReportsGoRound == Spec => [][GoesRound]_vars
<1>1. TypesInv /\ [Next]_vars => [GoesRound]_vars
  BY GoesRoundStep
<1>2. QED
  BY TypesInit, TypesNext, <1>1, PTL DEF Spec

=============================================================================
