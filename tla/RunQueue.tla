------------------------------ MODULE RunQueue ------------------------------
(***************************************************************************)
(* What the durable run queue promises to the rest of the system, with no  *)
(* tokens, clocks, retries or SQL in sight: a run is submitted once, is    *)
(* worked on in any number of spells, never beside another run of its      *)
(* session, and settles at most once and for good.                         *)
(***************************************************************************)
CONSTANTS RunId, Session

VARIABLES
  phase,    \* [RunId -> Phase]: where each run is in its life
  thread    \* [RunId -> Session]: the session a submitted run belongs to

vars == <<phase, thread>>

Phase == {"absent", "pending", "running", "done", "failed"}

TypeOK == /\ phase \in [RunId -> Phase]
          /\ thread \in [RunId -> Session]

Init == /\ phase = [r \in RunId |-> "absent"]
        /\ thread \in [RunId -> Session]

Submit(r) ==
  /\ phase[r] = "absent"
  /\ phase' = [phase EXCEPT ![r] = "pending"]
  /\ \E s \in Session : thread' = [thread EXCEPT ![r] = s]

Start(r) ==
  /\ phase[r] = "pending"
  /\ \A q \in RunId : phase[q] = "running" => thread[q] # thread[r]
  /\ phase' = [phase EXCEPT ![r] = "running"]
  /\ UNCHANGED thread

Yield(r) ==
  /\ phase[r] = "running"
  /\ phase' = [phase EXCEPT ![r] = "pending"]
  /\ UNCHANGED thread

Settle(r) ==
  /\ phase[r] = "running"
  /\ \E outcome \in {"done", "failed"} : phase' = [phase EXCEPT ![r] = outcome]
  /\ UNCHANGED thread

Next == \E r \in RunId : Submit(r) \/ Start(r) \/ Yield(r) \/ Settle(r)

Spec == Init /\ [][Next]_vars
=============================================================================
