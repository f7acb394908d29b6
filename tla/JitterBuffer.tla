----------------------------- MODULE JitterBuffer -----------------------------
(***************************************************************************)
(* What a buffered PktBuffer promises (class comment and comments of       *)
(* bufferedAddPkt and bufferedPopFrame in rtp/PktBuffer.java): packets are *)
(* held for ordering, late ones and duplicates are dropped, and a gap is   *)
(* skipped only when more than depth packets wait behind it; the           *)
(* application may change depth.                                           *)
(***************************************************************************)
EXTENDS Integers, Sequences, FiniteSets, FiniteSetsExt

CONSTANTS
    Sent   (* how many packets the sender produces, numbered in its order *)

VARIABLES
    depth,     (* how many packets may wait for a missing one *)
    pending,   (* the packets held back             *)
    released   (* the packets released, in order    *)

jvars == <<depth, pending, released>>

JInit == depth \in Nat /\ pending = {} /\ released = <<>>

Late(p) == released # <<>> /\ p <= released[Len(released)]

Accept(p) ==
    /\ p \notin pending
    /\ ~Late(p)
    /\ pending' = pending \cup {p}
    /\ UNCHANGED <<depth, released>>

Follows(p) == released = <<>> \/ p = released[Len(released)] + 1

Release ==
    /\ pending # {}
    /\ Follows(Min(pending)) \/ Cardinality(pending) > depth
    /\ released' = Append(released, Min(pending))
    /\ pending' = pending \ {Min(pending)}
    /\ UNCHANGED depth

ChangeDepth == depth' \in Nat /\ UNCHANGED <<pending, released>>

JNext == Release \/ ChangeDepth \/ \E p \in 1 .. Sent : Accept(p)

Spec == JInit /\ [][JNext]_jvars
=============================================================================
