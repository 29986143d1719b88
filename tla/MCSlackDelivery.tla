-------------------------- MODULE MCSlackDelivery --------------------------
(***************************************************************************)
(* Small surfaces: two processes and one run, or one process at a time and *)
(* a few messages.                                                         *)
(***************************************************************************)
EXTENDS SlackDelivery, FiniteSets, TLC

CONSTANTS r1, m1, m2, n1, p1, p2

OneRun == {r1}
TwoMessages == {m1, m2}
OneNote == {n1}
Nothing == {}
OneProcess == {p1}
TwoProcesses == {p1, p2}

Alike == Permutations({p1, p2}) \cup Permutations({m1, m2})

(* The run and the messages are explored apart, as they do not interact    *)
(* but for the room in the tracker, which two messages, or one and a note, *)
(* show.  A second fault comes while at most one process polls.            *)
Sent == {k \in Message \cup Note : deliveries[k].present}
OneConcern ==
  \/ /\ Sent = {}
     /\ faults < MaxFaults \/ \E p \in Process : proc[p].loop = FreshProcess.loop
  \/ /\ run[r1].pc = "none" /\ Cardinality(Sent) <= 2
     /\ Cardinality({p \in Process : proc[p] # FreshProcess}) <= 1

(* MessagePostedOnce is about a process that does not restart.             *)
NoRestart == Sent # {} => ~\E p \in Process : crash(p)
=============================================================================
