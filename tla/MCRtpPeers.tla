------------------------------ MODULE MCRtpPeers ------------------------------
(* A small session for TLC: two peers, one source of each, one they share.  *)
EXTENDS RtpPeers

CONSTANTS a1, a2, s1, s2

OneChanges == {<<s1, a1>>, <<s2, a1>>, <<s2, a2>>}
=============================================================================
