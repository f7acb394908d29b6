---------------------------- MODULE MCPktBuffer ----------------------------
(* Streams for PktBuffer: what a sender may produce, in its order.         *)
EXTENDS PktBuffer

Pkt(s, t) == [seq |-> s, ts |-> t]

(* The timestamp wraps after the third packet (at 2^31-1 instead of        *)
(* 2^32-1, which is beyond TLC's integers).                                *)
TsWrap == [i \in 1 .. 7 |-> Pkt(1000 + i, IF i <= 3 THEN 2147483000 + 160 * i ELSE 160 * i)]

BufferedOrFiltered == {0, 2}

(* A frame of two packets, then frames of one; the sequence number wraps   *)
(* before the last.  As any packet may be lost, this is also every stream  *)
(* of one packet per frame that is part of it.                             *)
Mixed == [i \in 1 .. 5 |-> Pkt((65531 + i) % 65536, <<160, 160, 320, 480, 640>>[i])]

RawToo == {-1, 0, 2}

(* An application asks for raw packets before the first comes or never;    *)
(* the limit it changes at any time.                                       *)
RawFromTheStart ==
    Init /\ [][\/ PopOldestFrame
              \/ \E p \in Packets : Receive(p)
              \/ \E b \in Behaviors \ {-1} : pktBufBehavior # -1 /\ SetBehavior(b)]_vars
=============================================================================
