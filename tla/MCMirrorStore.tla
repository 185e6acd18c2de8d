--------------------------- MODULE MCMirrorStore ---------------------------
(* Small instances of MirrorStore for TLC.                                 *)
EXTENDS MirrorStore, TLC

CONSTANTS c1, c2, p1, p2

TwoCommits == {c1, c2}
OneReader  == {p1}
TwoReaders == {p1, p2}
Symmetry   == Permutations(TwoCommits) \cup Permutations(TwoReaders)
=============================================================================
