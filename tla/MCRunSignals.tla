---------------------------- MODULE MCRunSignals ----------------------------
(***************************************************************************)
(* RunSignals for TLC: a run in the queue, two more messages for its       *)
(* thread, two replicas.                                                   *)
(***************************************************************************)
EXTENDS RunSignals

CONSTANTS m1, m2, m3, p1, p2, s1

MCThread == {s1}

(* The replicas are alike, so that the one that makes the first claim may  *)
(* be called p1.  (Declaring them symmetric would not be sound for         *)
(* liveness.)                                                              *)
FirstClaimByP1 ==
  (\A m \in Message : spell[m] = 0) /\ spell' # spell => turn'[p1].pc = "claimed"
=============================================================================
