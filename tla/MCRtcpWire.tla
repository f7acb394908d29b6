------------------------------ MODULE MCRtcpWire ------------------------------
(* Packets for TLC.  Octets differ wherever they can, so that one read in a  *)
(* wrong place shows.                                                        *)
EXTENDS RtcpWire

Word4(n) == <<n, n + 1, n + 2, n + 3>>

Sender1 == <<1, 2, 67, 8>>
Receiver1 == Word4(100)
Receiver2 == Word4(104)
Sources == {Sender1, Receiver1, Receiver2}

Times == [k \in 1..5 |-> Word4(200 + 4 * k)]

\* More than half lost, and so many that 24 bits do not hold them; more
\* received than expected.
Losses == {<<200, 2^24 + 5>>, <<-3, 0>>}
Blocks == {<<>>} \cup {<<[ssrc |-> Receiver1, fraction |-> loss[1], lost |-> loss[2],
                          rest |-> [k \in 1..16 |-> 150 + k]]>> : loss \in Losses}

Items == <<[type |-> 1, text |-> [k \in 1..9 |-> 96 + k]],
           [type |-> 3, text |-> <<64>>],
           [type |-> 6, text |-> [k \in 1..14 |-> 48 + k]]>>

PLI == [kind |-> "PSFB", fmt |-> 1, fci |-> <<>>]
SLI == [kind |-> "PSFB", fmt |-> 2, fci |-> <<[first |-> 300, number |-> 2000, picture |-> 33]>>]
RPSI == [kind |-> "PSFB", fmt |-> 3, fci |-> [padding |-> 8, payload |-> 96, bits |-> <<7, 9>>]]
ALF(n) == [kind |-> "PSFB", fmt |-> 15, fci |-> [k \in 1..n |-> 30 + k]]
NACK == [kind |-> "RTPFB", fmt |-> 1, fci |-> <<1, 44, 0, 3>>]
App == [kind |-> "APP", subtype |-> 33, name |-> Word4(80), data |-> Word4(90)]

Queues == {<<>>, <<PLI, NACK>>, <<SLI, ALF(16)>>, <<RPSI>>, <<RPSI, ALF(8)>>, <<ALF(24)>>}
Apps == {<<>>, <<App>>}
Goodbye == <<98, 121, 101>>
=============================================================================
