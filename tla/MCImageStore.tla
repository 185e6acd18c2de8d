---------------------------- MODULE MCImageStore ----------------------------
(* Small instances of ImageStore for TLC.  The two identities stand for    *)
(* the variants stable and daily of one image.                             *)
EXTENDS ImageStore, TLC

CONSTANTS a1, a2, stable, daily

OneAgent == {a1}
TwoAgents == {a1, a2}
OneId == {stable}
TwoIds == {stable, daily}

ThreeOffered == [i \in {stable} |-> 1..3]
TwoEach      == (stable :> {1, 2}) @@ (daily :> {3, 4})

Delete(n) == [kind |-> "delete", agent |-> a1, id |-> stable, n |-> n]
Prune     == [kind |-> "prune", agent |-> a1, id |-> stable, n |-> 1]
NoCalls   == {}
OneDelete == {Delete(1)}
OnePrune  == {Prune}
=============================================================================
