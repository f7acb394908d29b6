--------------------------- MODULE MCRtcpFeedback ---------------------------
(* Thresholds for two receivers: feedback goes out at once, or, while      *)
(* only one of the two is known, early.                                    *)
EXTENDS RtcpFeedback

SmallGroups == {<<2, 2>>, <<0, 1>>}
=============================================================================
