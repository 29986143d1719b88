---------------------------- MODULE MCRunStore ----------------------------
(***************************************************************************)
(* RunStore for TLC.  A run on its own goes through every order of claims, *)
(* beats, handbacks, failures and reaps, past the claim cap; two runs that *)
(* compete for one session, or go through two, are followed as far as      *)
(* PairBounds.  Workers, runs and sessions are interchangeable.            *)
(***************************************************************************)
EXTENDS RunStore, TLC

CONSTANTS r1, r2, s1, s2, w1, w2, z1, k1

TwoRuns == {r1, r2}
TwoSessions == {s1, s2}
OneKey == {k1}
MCWorker == {w1, w2}
MCSweeper == {z1}

Symmetry == Permutations(TwoRuns) \cup Permutations(TwoSessions) \cup Permutations(MCWorker)

(* Bound on the states with both runs: three claims, enough for each of    *)
(* two workers to be stale once; leases lapse, but no run grows older than *)
(* a tick.                                                                 *)
PairBounds ==
  (\A r \in TwoRuns : runs[r].status # "absent") =>
    /\ runs[r1].attempts + runs[r2].attempts <= 3
    /\ \A r \in TwoRuns :
         runs[r].startedAt >= -1 /\ runs[r].leaseExpiresAt >= 0 /\ runs[r].dedupKey = NoKey
    /\ \A z \in MCSweeper : sweep[z].age = 0
=============================================================================
