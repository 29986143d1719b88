-------------------------- MODULE MCTurnExecution --------------------------
(***************************************************************************)
(* Small systems for TurnExecution: one run of one session, one            *)
(* polling worker or two, one of them possibly an inline driver.           *)
(***************************************************************************)
EXTENDS TurnExecution, TLC

CONSTANTS r1, s1, w1, w2, z1

OneRun == {r1}
NoRun == {}
OneSession == {s1}
OneWorker == {w1}
TwoWorkers == {w1, w2}
OneInline == {w2}
NoInline == {}
OneSweeper == {z1}

WorkersAlike == Permutations({w1, w2})

(* The terminal listeners are called at once (turn_faults and run_store    *)
(* let other steps come first).                                            *)
SettlesAtOnce == settling # {} => settling' = {}
=============================================================================
