-------------------------- MODULE MCCronScheduler --------------------------
(* Two processes, one or two firings at a time, two or three slots.        *)
EXTENDS CronScheduler, TLC

CONSTANTS p1, p2, c1, c2

MCKey == {-(n + 1) : n \in 1..MaxEvents} \cup 0..MaxTime
Reminder == [kind |-> "once", first |-> 1, message |-> TRUE]
Poll == [kind |-> "every", first |-> 0, message |-> TRUE]
Daily == [kind |-> "calendar", first |-> NoTime, message |-> FALSE]
MCContent == {Reminder, Poll, Daily}

(* What follows once a firing has overwritten a row that had moved on is    *)
(* excepted by the properties of the row and not explored.                  *)
NotOvertaken == ~overtaken
(* A second slot overdue: only for a calendar that was there from the       *)
(* beginning, where only the queue fires.                                   *)
Backlog == now = 2 => /\ cron.kind = "calendar" /\ cron.rev = 0
                      /\ lock # Nowhere /\ withheld = {}
                      /\ \A p \in Process : proc[p].mode = "queue"
(* At most one key has a call that might not deliver, and none in a cron    *)
(* that was edited.                                                         *)
OneWithheld == /\ \A j, k \in withheld : j = k
               /\ cron.rev # 0 => withheld = {}
Alike == Permutations({p1, p2}) \cup Permutations({c1, c2})
=============================================================================
