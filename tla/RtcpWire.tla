------------------------------- MODULE RtcpWire -------------------------------
(***************************************************************************)
(* Compound RTCP packets on the wire.  The sender thread of one host puts  *)
(* together reports, feedback, application packets and its description and *)
(* encodes them one after another; the receiver thread of another chops    *)
(* the datagram up again, packet by packet, and only then acts on what it  *)
(* has found.  The network loses, repeats and reorders.  Every 32-bit      *)
(* value is its four octets; offsets count from 0, as in the code.         *)
(***************************************************************************)
EXTENDS Integers, Sequences, FiniteSets, SequencesExt, Bitwise

CONSTANTS
    Peer,          \* the SSRC of the sender
    Mine,          \* the SSRCs the receiver may draw
    Info,          \* times and counts of a sender report: five words
    Reports,       \* receiver report blocks: sequences of one block, or of none
    Description,   \* the sender's items, from CNAME to PRIV: <<[type, text]>>
    FbQueues,      \* feedback a peer may send; getFromFbQueue() finds every
                   \* packet too old for that (see RtcpFeedback)
    AppQueues,     \* what getFromAppQueue() may return
    Reason,        \* the reason given in a BYE
    BufferSize,    \* of encode(), and received into: 1500
    InFlight,      \* bound on the datagrams under way at a time
    ConflictLimit  \* the conflict that ends the session: the fifth

\* A longer text has a negative length for the parser, which reads a Java byte.
ASSUME DescriptionAssumption ==
    \A i \in DOMAIN Description : Len(Description[i].text) \in 1..127

VARIABLES
    pc,            \* the sender thread: "idle", "encoding" or "dead"
    sent,          \* CompRtcpPkt.rtcpPkts of the sender
    wire,          \* what encode() has written
    marks,         \* history: where it put each packet
    net,           \* datagrams under way
    rpc,           \* the receiver thread: "wait", "parsing", "dispatching"
                   \* or "ended"
    from,          \* the datagram it is busy with
    raw,           \* its octets, of which the parser overwrites some
    start,         \* offset of the packet to be parsed
    problem,       \* CompRtcpPkt.problem
    parsed,        \* CompRtcpPkt.rtcpPkts of the receiver
    at,            \* how many of them were acted on
    feedback,      \* what RTCPAVPFIntf was told while parsing
    ssrcs,         \* the receiver's SSRCs: all it has had, and the present one
    known,         \* what ssrcTable holds for Peer: "none", "mine" or "found"
    about,         \* the description of the two participants it may hold
    byes           \* those that have said BYE

sendVars == <<pc, sent, wire, marks, net>>
parseVars == <<rpc, from, raw, start, problem, parsed, at, feedback>>
dbVars == <<known, about, byes>>
vars == <<sendVars, parseVars, ssrcs, dbVars>>

NoDatagram == [octets |-> <<>>, sent |-> <<>>, marks |-> <<>>]
Unset == <<255, 255, 255, 255>>      \* -1, the SSRC of a packet without one
Nobody == [type \in 1..8 |-> <<>>]   \* <<>> stands for null
me == Last(ssrcs)

Init ==
    /\ pc = "idle" /\ sent = <<>> /\ wire = <<>> /\ marks = <<>>
    /\ net = {}
    /\ rpc = "wait" /\ from = NoDatagram /\ raw = <<>> /\ start = 0
    /\ problem = 0 /\ parsed = <<>> /\ at = 0 /\ feedback = <<>>
    /\ \E ssrc \in Mine : ssrcs = <<ssrc>>
    /\ known = "none" /\ about = [part \in {"mine", "found"} |-> Nobody] /\ byes = {}

-----------------------------------------------------------------------------
(* Octets.                                                                 *)

Word16(n) == <<(n \div 256) % 256, n % 256>>
Word32(n) == <<(n \div 2^24) % 256, (n \div 2^16) % 256>> \o Word16(n)

\* The buffer received into is longer than the datagram, and zero.
Octet(bytes, i) == IF i < Len(bytes) THEN bytes[i + 1] ELSE 0
Octets(bytes, i, n) == [k \in 1..n |-> Octet(bytes, i + k - 1)]
Word(bytes, i) == Octets(bytes, i, 4)
Int16(bytes, i) == 256 * Octet(bytes, i) + Octet(bytes, i + 1)
Signed(octet) == IF octet > 127 THEN octet - 256 ELSE octet

Zeros(n) == [k \in 1..n |-> 0]
Overwrite(bytes, i, new) ==
    [k \in DOMAIN bytes |-> IF k - i \in DOMAIN new THEN new[k - i] ELSE bytes[k]]

-----------------------------------------------------------------------------
(* encode() of each kind of packet.                                        *)

TypeOf == [SR |-> 200, RR |-> 201, SDES |-> 202, BYE |-> 203, APP |-> 204,
           RTPFB |-> 205, PSFB |-> 206]

(* A plausible error.  The length counts its own word. *)
HeaderCountsAll(count, kind, size) ==
    <<128 + count, TypeOf[kind]>> \o Word16(size \div 4)

\* The length in words, less one: too short if size is no multiple of four.
Header(count, kind, size) == <<128 + count, TypeOf[kind]>> \o Word16(size \div 4 - 1)

(* A plausible error.  The fraction is not cast to a byte. *)
EncodeBlockWide(block) ==
    block.ssrc \o <<block.fraction>> \o Tail(Word32(block.lost)) \o block.rest

\* The lost packets leave their first octet to the fraction of this interval.
EncodeBlock(block) ==
    block.ssrc \o <<block.fraction % 256>> \o Tail(Word32(block.lost)) \o block.rest

EncodeBlocks(blocks) == FlattenSeq([i \in DOMAIN blocks |-> EncodeBlock(blocks[i])])

EncodeSR(pkt) ==
    Header(Len(pkt.blocks), "SR", 28 + 24 * Len(pkt.blocks))
        \o pkt.ssrc \o FlattenSeq(pkt.info) \o EncodeBlocks(pkt.blocks)

EncodeRR(pkt) ==
    Header(Len(pkt.blocks), "RR", 8 + 24 * Len(pkt.blocks))
        \o pkt.ssrc \o EncodeBlocks(pkt.blocks)

\* The end mark and what fills up the last word; none if that is full.
Padding(pos) == <<<<>>, <<0, 1, 0>>, <<0, 0>>, <<0, 3, 0, 0, 0>>>>[(pos % 4) + 1]
EncodeSDES(pkt) ==
    LET item(i) == <<pkt.items[i].type, Len(pkt.items[i].text)>> \o pkt.items[i].text
        chunk == pkt.ssrc \o FlattenSeq([i \in DOMAIN pkt.items |-> item(i)])
        body == chunk \o Padding(4 + Len(chunk))
    IN Header(1, "SDES", 4 + Len(body)) \o body

(* A plausible error.  The length octet of the reason is not counted. *)
EncodeBYEShort(pkt) ==
    LET n == Len(pkt.ssrcs)
        size == 4 * n + 4 + 4 * (Len(pkt.reason) \div 4)
        body == FlattenSeq(pkt.ssrcs) \o <<Len(pkt.reason)>> \o pkt.reason
    IN Header(n, "BYE", size) \o Overwrite(Zeros(size - 4), 0, body)

\* Four words for each SSRC, three of them never written behind the reason.
EncodeBYE(pkt) ==
    LET n == Len(pkt.ssrcs)
        size == 4 * (4 * n + (Len(pkt.reason) + 4) \div 4) + 4
        body == FlattenSeq(pkt.ssrcs) \o <<Len(pkt.reason)>> \o pkt.reason
    IN Header(n, "BYE", size) \o Overwrite(Zeros(size - 4), 0, body)

EncodeAPP(pkt) ==
    Header(pkt.subtype, "APP", 12 + Len(pkt.data)) \o pkt.ssrc \o pkt.name \o pkt.data

\* The constructor keeps neither SSRC.
EncodeRTPFB(pkt) ==
    Header(pkt.fmt, "RTPFB", 12 + Len(pkt.fci)) \o Unset \o Unset \o pkt.fci

\* The feedback proper of each format, as it is written from offset 8 on.
Slice(s) ==
    LET first == Word16(8 * s.first)
        number == Word16(4 * s.number)
    IN <<first[1], first[2] | number[1], number[2], number[2] | s.picture>>
Feedback(pkt) ==
    CASE pkt.fmt = 1 -> <<>>
      [] pkt.fmt = 2 -> FlattenSeq([i \in DOMAIN pkt.fci |-> Slice(pkt.fci[i]) \o Zeros(4)])
      [] pkt.fmt = 3 -> <<pkt.fci.padding, pkt.fci.payload>> \o pkt.fci.bits
      [] pkt.fmt = 15 -> pkt.fci
SizePSFB(pkt) ==
    24 + (CASE pkt.fmt = 1 -> 0
           [] pkt.fmt = 2 -> 4 * Len(pkt.fci)
           [] pkt.fmt = 3 -> 2 + Len(pkt.fci.bits) \div 4
           [] pkt.fmt = 15 -> Len(pkt.fci) \div 4)

\* What offsets 8 to 11 held is lost to the SSRC of the media source.
EncodePSFB(pkt) ==
    LET size == SizePSFB(pkt)
        room == Overwrite(Zeros(size), 8, Feedback(pkt))
    IN Overwrite(room, 0, Header(pkt.fmt, "PSFB", size) \o pkt.ssrc \o pkt.media)

\* Feedback that does not fit into the size it is given throws.
FeedbackFits(pkt) ==
    LET used == Len(Feedback(pkt)) - (IF pkt.fmt = 2 THEN 4 ELSE 0)
    IN pkt.kind = "PSFB" => 8 + used <= SizePSFB(pkt)

Encode(pkt) ==
    CASE pkt.kind = "SR" -> EncodeSR(pkt)
      [] pkt.kind = "RR" -> EncodeRR(pkt)
      [] pkt.kind = "SDES" -> EncodeSDES(pkt)
      [] pkt.kind = "BYE" -> EncodeBYE(pkt)
      [] pkt.kind = "APP" -> EncodeAPP(pkt)
      [] pkt.kind = "RTPFB" -> EncodeRTPFB(pkt)
      [] pkt.kind = "PSFB" -> EncodePSFB(pkt)

-----------------------------------------------------------------------------
(* The sender thread.  Sender and receiver share nothing but the network,  *)
(* so either of them has its turn when the other is between two datagrams. *)

SR == [kind |-> "SR", ssrc |-> Peer, info |-> Info, blocks |-> <<>>]
RR(blocks) == [kind |-> "RR", ssrc |-> Peer, blocks |-> blocks]
SDES == [kind |-> "SDES", ssrc |-> Peer, items |-> Description]
BYE == [kind |-> "BYE", ssrcs |-> <<Peer>>, reason |-> Reason]

\* Feedback goes to the media source it is about; an APP packet carries the
\* SSRC of the host it is for, where that of the sender belongs.
For(target, pkts) ==
    [i \in DOMAIN pkts |->
        CASE pkts[i].kind = "PSFB" -> pkts[i] @@ [ssrc |-> Peer, media |-> target]
          [] pkts[i].kind = "APP" -> pkts[i] @@ [ssrc |-> target]
          [] pkts[i].kind = "RTPFB" -> pkts[i] @@ [ssrc |-> Unset, media |-> Unset]]

Compose(pkts) ==
    /\ pc = "idle" /\ rpc = "wait" /\ Cardinality(net) < InFlight
    /\ pc' = "encoding" /\ sent' = pkts /\ wire' = <<>> /\ marks' = <<>>
    /\ UNCHANGED <<net, parseVars, ssrcs, dbVars>>

\* preparePacket(): a sender report if something was sent and this is a regular
\* report, a receiver report if one is due or there is no sender report.  Its
\* target is an SSRC the receiver has, or has had and Peer still believes in.
PreparePacket(target, sending, due, regular) ==
    LET incSR == sending /\ regular
        incRR == due \/ ~incSR
    IN \E fb \in FbQueues, app \in AppQueues, blocks \in Reports :
        /\ regular \/ app = <<>>
        /\ incRR \/ blocks = <<>>
        /\ Compose((IF incSR THEN <<SR>> \o For(target, fb) ELSE <<>>)
                   \o (IF incRR THEN <<RR(blocks)>> ELSE <<>>)
                   \o (IF incSR THEN <<>> ELSE For(target, fb))
                   \o For(target, app) \o <<SDES>>)

SendByes == Compose(<<SR, BYE>>)

Left == SubSeq(sent, Len(marks) + 1, Len(sent))

\* CompRtcpPkt.encode(), one packet.
EncodeNext ==
    /\ pc = "encoding" /\ Left # <<>>
    /\ FeedbackFits(Head(Left))
    /\ LET longer == wire \o Encode(Head(Left))
       IN Len(longer) <= BufferSize /\ wire' = longer
    /\ marks' = Append(marks, Len(wire))
    /\ UNCHANGED <<pc, sent, net, parseVars, ssrcs, dbVars>>

\* Nothing catches the exception, and the thread ends.
EncodeThrows ==
    /\ pc = "encoding" /\ Left # <<>>
    /\ FeedbackFits(Head(Left)) => Len(wire \o Encode(Head(Left))) > BufferSize
    /\ pc' = "dead"
    /\ UNCHANGED <<sent, wire, marks, net, parseVars, ssrcs, dbVars>>

SendCompRtcpPkt ==
    /\ pc = "encoding" /\ Left = <<>>
    /\ net' = net \cup {[octets |-> wire, sent |-> sent, marks |-> marks]}
    /\ pc' = "idle" /\ sent' = <<>> /\ wire' = <<>> /\ marks' = <<>>
    /\ UNCHANGED <<parseVars, ssrcs, dbVars>>

Sender ==
    \/ \E target \in ToSet(ssrcs) \ {Peer}, sending, due, regular \in BOOLEAN :
        PreparePacket(target, sending, due, regular)
    \/ SendByes \/ EncodeNext \/ EncodeThrows \/ SendCompRtcpPkt

-----------------------------------------------------------------------------
(* Parsing of each kind of packet, at offset s.                            *)

Count(s) == Octet(raw, s) % 32
Length(s) == Int16(raw, s + 2)
Type(s) == IF Octet(raw, s + 1) = 96 THEN 205 ELSE Octet(raw, s + 1)

Is(kind, s) == Type(s) = TypeOf[kind]
Known(s) == \E kind \in DOMAIN TypeOf : Is(kind, s)

\* parseHeaders() and what each constructor asks besides.
HeaderFails(s) ==
    \/ Octet(raw, s) \div 64 # 2
    \/ Octet(raw, s + 1) # Type(s)
    \/ Is("RR", s) /\ Length(s) < 1
    \/ (Is("RTPFB", s) \/ Is("PSFB", s)) /\ Length(s) < 2

BlocksAt(s) == IF Is("SR", s) THEN s + 28 ELSE s + 8
FractionAt(s, i) == BlocksAt(s) + 24 * (i - 1) + 4

(* A plausible error.  The fraction is left where it is. *)
ClearedNot(s) == raw

\* The fraction of each report block is cleared when it has been read ...
Cleared(s) ==
    LET read == IF Is("SR", s) \/ Is("RR", s) THEN {FractionAt(s, i) : i \in 1..Count(s)} ELSE {}
    IN [k \in DOMAIN raw |-> IF k - 1 \in read THEN 0 ELSE raw[k]]

\* ... so that the word it stood in is the lost packets, as an int.
ParseBlocks(s) ==
    [i \in 1..Count(s) |->
        LET f == FractionAt(s, i)
            word == Word(Cleared(s), f)
        IN [ssrc |-> Word(raw, f - 4), fraction |-> Signed(Octet(raw, f)),
            lost |-> 2^24 * Signed(word[1]) + 2^16 * word[2] + Int16(word, 2),
            rest |-> Octets(raw, f + 4, 16)]]

ParseSR(s) ==
    [kind |-> "SR", ssrc |-> Word(raw, s + 4), blocks |-> ParseBlocks(s),
     info |-> [k \in 1..5 |-> IF 4 * Length(s) + 4 > 4 * k + 7
                              THEN Word(raw, s + 4 * k + 4) ELSE Unset]]

ParseRR(s) == [kind |-> "RR", ssrc |-> Word(raw, s + 4), blocks |-> ParseBlocks(s)]

\* The items of the one chunk, read from pos on: pos counts from the start of
\* the datagram, the length from that of the packet.
RECURSIVE ItemsFrom(_, _)
ItemsFrom(pos, length) ==
    IF pos \div 4 > length \/ Octet(raw, pos) = 0 THEN <<>>
    ELSE LET size == Octet(raw, pos + 1)
         IN <<[type |-> Octet(raw, pos), text |-> Octets(raw, pos + 2, size)]>>
                \o ItemsFrom(pos + size + 2, length)

(* A plausible error.  The SSRC of the chunk is not skipped. *)
ParseSDESFromSsrc(s) ==
    [kind |-> "SDES", ssrc |-> Unset, of |-> Word(raw, s + 4),
     items |-> ItemsFrom(s + 4, Length(s))]

ParseSDES(s) ==
    [kind |-> "SDES", ssrc |-> Unset, of |-> Word(raw, s + 4),
     items |-> ItemsFrom(s + 8, Length(s))]

ParseBYE(s) ==
    LET n == Count(s)
        r == s + 4 * (n + 1)
    IN [kind |-> "BYE", ssrc |-> Unset,
        ssrcs |-> [i \in 1..n |-> Word(raw, s + 4 * i)],
        reason |-> IF Length(s) > n + 1 THEN Octets(raw, r + 1, Octet(raw, r)) ELSE <<>>]

(* A plausible error.  The offsets count from the packet. *)
ParseAPPRelative(s) ==
    [kind |-> "APP", ssrc |-> Word(raw, s + 4), subtype |-> Count(s), name |-> Word(raw, s + 8),
     data |-> Octets(raw, s + 12, 4 * Length(s) - 8)]

\* Its offsets count from the start of the datagram, where a report stands.
ParseAPP(s) ==
    [kind |-> "APP", ssrc |-> Word(raw, 4), subtype |-> Count(s), name |-> Word(raw, 8),
     data |-> Octets(raw, 12, 4 * Length(s) - 8)]

ParseRTPFB(s) ==
    LET forMe == Word(raw, s + 8) = me
    IN [kind |-> "RTPFB", fmt |-> Count(s), media |-> Word(raw, s + 8),
        ssrc |-> IF forMe THEN Word(raw, s + 4) ELSE Unset,
        fci |-> IF forMe THEN Octets(raw, 12, 4 * Length(s) - 8) ELSE <<>>]

ParseFeedback(s) ==
    LET n == Length(s) - 2
        line(i) == [first |-> Int16(raw, s + 4 * i + 8) \div 8,
                    number |-> Int16(raw, s + 4 * i + 8) \div 64,
                    picture |-> Octet(raw, s + 4 * i + 11) % 64]
    IN CASE Count(s) = 2 -> [i \in 1..n |-> line(i)]
         [] Count(s) = 3 -> [padding |-> Signed(Octet(raw, s + 12)), payload |-> Signed(Octet(raw, s + 12)),
                             bits |-> Octets(raw, s + 14, 4 * n - 2)]
         [] Count(s) = 15 -> Octets(raw, s + 12, 4 * n)
         [] OTHER -> <<>>

(* A plausible error.  It listens to feedback for everyone. *)
ParsePSFBForAll(s) ==
    [kind |-> "PSFB", fmt |-> Count(s), media |-> me,
     ssrc |-> Word(raw, s + 4), fci |-> ParseFeedback(s)]

\* What is about another source is left unread.
ParsePSFB(s) ==
    LET forMe == Word(raw, s + 8) = me
    IN [kind |-> "PSFB", fmt |-> Count(s), media |-> Word(raw, s + 8),
        ssrc |-> IF forMe THEN Word(raw, s + 4) ELSE Unset,
        fci |-> IF forMe THEN ParseFeedback(s) ELSE <<>>]

Parse(s) ==
    CASE Is("SR", s) -> ParseSR(s)
      [] Is("RR", s) -> ParseRR(s)
      [] Is("SDES", s) -> ParseSDES(s)
      [] Is("BYE", s) -> ParseBYE(s)
      [] Is("APP", s) -> ParseAPP(s)
      [] Is("RTPFB", s) -> ParseRTPFB(s)
      [] Is("PSFB", s) -> ParsePSFB(s)

-----------------------------------------------------------------------------
(* The participant database, for this one sender.  A receiver that the     *)
(* application has added has its address.                                  *)

Found(registered) == IF registered THEN "mine" ELSE "found"

\* addParticipant(2, part) of a part with this description.
Enter(registered, description) ==
    /\ known' = Found(registered)
    /\ about' = [about EXCEPT ![Found(registered)] = description]
    /\ UNCHANGED byes

Learn(description, items) ==
    FoldLeft(LAMBDA d, item : [d EXCEPT ![item.type] = item.text], description, items)

(* A plausible error.  An SSRC not known is not entered. *)
FindParticipantOnly(ssrc) == UNCHANGED dbVars

\* getParticipant() of the SSRC of a packet; one not known is entered.
FindParticipant(ssrc) ==
    IF ssrc = Peer /\ known = "none"
    THEN \E registered \in BOOLEAN : Enter(registered, Nobody)
    ELSE UNCHANGED dbVars

\* A description is entered as soon as it is parsed.
TakeDescription(pkt) ==
    IF pkt.kind = "SDES" /\ pkt.of = Peer
    THEN IF known = "none"
         THEN \E registered \in BOOLEAN : Enter(registered, Learn(Nobody, pkt.items))
         ELSE /\ about' = [about EXCEPT ![known] = Learn(@, pkt.items)]
              /\ UNCHANGED <<known, byes>>
    ELSE UNCHANGED dbVars

-----------------------------------------------------------------------------
(* The receiver thread.                                                    *)

\* The network keeps a datagram: it may arrive late or again.
Receive ==
    /\ rpc = "wait" /\ pc # "encoding"
    /\ \E d \in net :
        /\ Len(d.octets) % 4 = 0     \* or parsePacket() refuses it
        /\ from' = d /\ raw' = d.octets
    /\ rpc' = "parsing" /\ start' = 0 /\ problem' = 0 /\ parsed' = <<>>
    /\ at' = 0 /\ feedback' = <<>>
    /\ UNCHANGED <<sendVars, ssrcs, dbVars>>

\* It may not arrive at all, or no more.
Lose ==
    /\ rpc = "wait" /\ pc # "encoding"
    /\ \E d \in net : net' = net \ {d}
    /\ UNCHANGED <<pc, sent, wire, marks, parseVars, ssrcs, dbVars>>

\* The first packet has to be a report without padding; later checks prevail.
ProblemAt(s) ==
    IF Known(s) /\ HeaderFails(s) THEN -Type(s)
    ELSE IF s = 0 /\ (Octet(raw, s) \div 32) % 2 = 1 THEN -2
    ELSE IF s = 0 /\ ~Is("SR", s) /\ ~Is("RR", s) THEN -1
    ELSE IF s + 4 * (Length(s) + 1) > BufferSize THEN -3 ELSE 0

\* One round of the loop in CompRtcpPkt(rawPkt, ...).
ParseNext ==
    /\ rpc = "parsing" /\ start < Len(raw) /\ problem = 0
    /\ problem' = ProblemAt(start)
    /\ IF Known(start) /\ ~HeaderFails(start)
       THEN LET pkt == Parse(start)
            IN /\ parsed' = Append(parsed, pkt)
               /\ feedback' = IF pkt.kind \in {"RTPFB", "PSFB"} /\ pkt.media = me
                              THEN Append(feedback, pkt) ELSE feedback
               /\ TakeDescription(pkt)
       ELSE UNCHANGED <<parsed, feedback, dbVars>>
    /\ raw' = Cleared(start)
    /\ start' = start + 4 * (Length(start) + 1)
    /\ UNCHANGED <<sendVars, rpc, from, at, ssrcs>>

\* What was parsed before a problem turned up is acted on all the same.
ParseEnds ==
    /\ rpc = "parsing" /\ (start >= Len(raw) \/ problem # 0)
    /\ rpc' = "dispatching"
    /\ UNCHANGED <<sendVars, from, raw, start, problem, parsed, at, feedback, ssrcs, dbVars>>

Rest(next) ==
    /\ rpc' = next /\ from' = NoDatagram /\ raw' = <<>> /\ start' = 0
    /\ problem' = 0 /\ parsed' = <<>> /\ at' = 0 /\ feedback' = <<>>
    /\ UNCHANGED sendVars

\* resolveSsrcConflict() draws another SSRC, unless it has done so too often.
DrawSsrc ==
    /\ Len(ssrcs) < ConflictLimit
    /\ \E ssrc \in Mine \ {me} : ssrcs' = Append(ssrcs, ssrc)

\* A packet with our SSRC: it and those behind it are not acted on.
Conflict ==
    /\ rpc = "dispatching" /\ at < Len(parsed)
    /\ parsed[at + 1].ssrc = me
    /\ \/ DrawSsrc /\ Rest("wait")
       \/ Len(ssrcs) = ConflictLimit /\ Rest("ended") /\ UNCHANGED ssrcs
    /\ UNCHANGED dbVars

DispatchNext ==
    /\ rpc = "dispatching" /\ at < Len(parsed)
    /\ LET pkt == parsed[at + 1]
       IN /\ pkt.ssrc # me
          /\ CASE pkt.kind \in {"SR", "RR", "APP"} -> FindParticipant(pkt.ssrc)
               [] pkt.kind = "BYE" ->
                    /\ byes' = byes \cup (IF Peer \in ToSet(pkt.ssrcs) THEN {known} \ {"none"} ELSE {})
                    /\ UNCHANGED <<known, about>>
               [] OTHER -> UNCHANGED dbVars
    /\ at' = at + 1
    /\ UNCHANGED <<sendVars, rpc, from, raw, start, problem, parsed, feedback, ssrcs>>

DispatchEnds ==
    /\ rpc = "dispatching" /\ at = Len(parsed)
    /\ Rest("wait")
    /\ UNCHANGED <<ssrcs, dbVars>>

\* The RTP receiver may find a conflict as well, at any moment.
OtherConflict ==
    /\ DrawSsrc
    /\ UNCHANGED <<sendVars, parseVars, dbVars>>

Receiver ==
    \/ Receive \/ ParseNext \/ ParseEnds
    \/ Conflict \/ DispatchNext \/ DispatchEnds \/ OtherConflict

Next == Sender \/ Receiver \/ Lose

Spec == Init /\ [][Next]_vars

-----------------------------------------------------------------------------
TypeOK ==
    /\ pc \in {"idle", "encoding", "dead"} /\ rpc \in {"wait", "parsing", "dispatching", "ended"}
    /\ ToSet(wire) \cup ToSet(raw) \subseteq 0..255 /\ Len(wire) <= BufferSize
    /\ Cardinality(net) <= InFlight
    /\ start \in 0..2^18 /\ problem \in {0, -1, -2, -3} \cup -206..-200
    /\ at \in 0..Len(parsed)
    /\ ToSet(ssrcs) \subseteq Mine
    /\ known \in {"none", "mine", "found"} /\ byes \subseteq {"mine", "found"}

\* How many packets of the datagram begin in whole words: a feedback packet
\* that is no multiple of four octets long shifts all that follow.
Aligned == Cardinality({i \in DOMAIN from.marks : \A j \in 1..i : from.marks[j] % 4 = 0})

\* Sender and receiver agree where one packet ends and the next begins:
\* whatever is put together, each packet is parsed where it was written and as
\* the kind it was, nothing is left out and no problem is found.  A feedback
\* packet that is no multiple of four octets long ends the agreement for those
\* behind it; it and those before it are not lost for that.
FramesAgree ==
    rpc \in {"parsing", "dispatching"} =>
        LET n == Len(parsed)
            whole == Aligned = Len(from.sent)
        IN /\ n < Aligned \/ whole => problem = 0
           /\ \A i \in DOMAIN parsed \cap 1..Aligned : parsed[i].kind = from.sent[i].kind
           /\ rpc = "parsing" /\ n < Aligned => start = from.marks[n + 1]
           /\ rpc = "dispatching" => n >= Aligned
           /\ whole => n <= Len(from.sent)

SameBlocks(blocks, others) ==
    /\ Len(blocks) = Len(others)
    /\ \A i \in DOMAIN blocks :
        /\ blocks[i].ssrc = others[i].ssrc /\ blocks[i].rest = others[i].rest
        /\ blocks[i].fraction = Signed(others[i].fraction % 256)
        /\ blocks[i].lost = others[i].lost % 2^24

\* What the reports and the BYE say is what was meant, down to the width of the
\* lost packets (24 bits, and nothing of the fraction that shares their word)
\* and of the fraction (8 bits, read with a sign), even though the parser
\* clears octets of the datagram it is still reading.
ReportsIntact ==
    rpc \in {"parsing", "dispatching"} =>
        \A i \in DOMAIN parsed \cap 1..Aligned :
            LET got == parsed[i]
                meant == from.sent[i]
            IN /\ got.kind \in {"SR", "RR"} =>
                    got.ssrc = meant.ssrc /\ SameBlocks(got.blocks, meant.blocks)
               /\ got.kind = "SR" => got.info = meant.info
               /\ got.kind = "BYE" => got.ssrcs = meant.ssrcs /\ got.reason = meant.reason

\* The parser stops reading a description early, because it compares an offset
\* in the datagram with a length of the packet.  Still no item is torn or made
\* of a neighbour's octets: a participant has learned the first few items, as
\* they are, whatever was received before and in whatever order.
DescriptionIsPrefix ==
    \A part \in DOMAIN about :
        \E n \in 0..Len(Description) :
            about[part] = Learn(Nobody, SubSeq(Description, 1, n))

\* Nobody takes another's packet for one with its own SSRC: a datagram makes
\* the receiver give up its SSRC only if that is the sender's.  An APP packet
\* carries the receiver's SSRC where the sender's belongs, and is saved by
\* being read at an offset that is not its own.
NoFalseConflict ==
    [][rpc = "dispatching" /\ rpc' # rpc /\ at < Len(parsed) => me = Peer]_vars

\* Feedback is handed on by the media source it is about and by nobody else,
\* also when that has changed its SSRC while the feedback was under way.
FeedbackForMe ==
    LET meant == from.sent[Len(parsed')]
    IN meant.kind = "PSFB" /\ meant.media = me
FeedbackOnlyToTarget ==
    [][rpc = "parsing" /\ parsed' # parsed => (feedback' # feedback <=> FeedbackForMe)]_vars

\* A BYE finds its participant: the report before it in the datagram has
\* entered the sender, if nothing else had.
ByeMarksSender ==
    rpc = "dispatching" /\ at = Len(parsed) /\ (\E i \in DOMAIN parsed : parsed[i].kind = "BYE")
        => known \in byes

=============================================================================
