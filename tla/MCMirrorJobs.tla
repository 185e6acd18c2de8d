--------------------------- MODULE MCMirrorJobs ---------------------------
(* Small instances of MirrorJobs for TLC. Repositories and jobs are model  *)
(* values without an order, so permuting them is sound for safety.         *)
EXTENDS MirrorJobs, TLC

CONSTANTS r1, r2, j1, j2, j3

OneRepo    == {r1}
TwoRepos   == {r1, r2}
OnePush    == [r \in OneRepo |-> 1]
NoPush     == [r \in TwoRepos |-> 0]
OneOfTwo   == [r \in TwoRepos |-> IF r = r1 THEN 1 ELSE 0]
TwoJobs    == {j1, j2}
ThreeJobs  == {j1, j2, j3}

\* Bound: a push meets one repository at work, the competition none.
PushMeetsOne ==
    upstream # NoPush =>
        /\ mpc[r2] = "off" /\ ~backoff[r2] /\ published[r2]
        /\ \A j \in JobIds : job[j].repo # r2

ThreeJobsSymmetry == Permutations(ThreeJobs)
=============================================================================
