----------------------------- MODULE Triggers -----------------------------
(***************************************************************************)
(* What a cron, a monitor or a webhook does when it fires: runTrigger      *)
(* (triggers/run-trigger.ts) under the idempotency store                   *)
(* (idempotency/idempotency-store.ts), over the outbox of DeliveryStore.   *)
(* A firing has a key; its turn and its delivery carry the same key, so    *)
(* that calls which repeat it, after a failure, a crash or in another      *)
(* process, find what an earlier one left.                                 *)
(*                                                                         *)
(* A call advances by one action per await that touches shared state and   *)
(* may fail at each.  Who calls, and when, is open here; CronScheduler is  *)
(* one caller.  The records of committed keys are kept for 14 days, longer *)
(* than any behaviour explored.                                            *)
(***************************************************************************)
EXTENDS DeliveryStore

CONSTANTS
  Process,    \* server processes
  Call,       \* calls of runTrigger in progress at once
  Nowhere     \* the process of a call that is not made

ASSUME TriggersAssumption == Key # {} /\ "slack" \in Type

VARIABLES
  committed,  \* the idempotency records: keys whose firing is complete
  turn,       \* [Key -> the run with that idempotency key]
  call,       \* [Call -> a call of runTrigger]
  withheld    \* history: keys with a call that might not run or deliver

triggerVars == <<committed, turn, call, withheld>>

(* "queued" until the run ends, then whether there is a reply to deliver.  *)
Turn == {"none", "queued", "reply", "quiet"}

(* Inside idempotency.once() a call reads the record ("check"), runs its   *)
(* body ("body", "turn") and writes the record ("commit").  out is the     *)
(* outcome: "ran", "skipped", "denied" (authzFailed) or "threw".           *)
Inside == {"check", "body", "turn", "commit"}

CallState ==
  [pc: {"idle", "out"} \cup Inside,
   home: Process \cup {Nowhere}, key: Key, message: BOOLEAN,
   out: {"none", "ran", "skipped", "denied", "threw"}]

TriggersTypeOK ==
  /\ TypeOK
  /\ committed \subseteq Key
  /\ turn \in [Key -> Turn]
  /\ call \in [Call -> CallState]
  /\ withheld \subseteq Key

NoCall == [pc |-> "idle", home |-> Nowhere, key |-> CHOOSE k \in Key : TRUE, message |-> FALSE,
           out |-> "none"]

TriggersInit ==
  /\ Init
  /\ committed = {}
  /\ turn = [k \in Key |-> "none"]
  /\ call = [c \in Call |-> NoCall]
  /\ withheld = {}

-----------------------------------------------------------------------------
(* The key is in the set `inflight` of the process.                        *)
InFlight(p, k) ==
  \E c \in Call : call[c].home = p /\ call[c].key = k
                  /\ call[c].pc \in Inside

At(c, pc) == call[c].pc = pc
Goto(c, pc) == call' = [call EXCEPT ![c].pc = pc]
Finish(c, out) == call' = [call EXCEPT ![c].pc = "out", ![c].out = out]

(* once() goes on if no call of the process is inside with the same key.   *)
once(p, k) == ~InFlight(p, k)

(* runTrigger up to the first await of once(): the owner is looked up and  *)
(* may have lost access.                                                   *)
runTrigger(c, p, k, message) ==
  LET Enter(pc, out) ==
        call' = [call EXCEPT ![c] = [pc |-> pc, home |-> p, key |-> k, message |-> message, out |-> out]]
  IN  /\ At(c, "idle")
      /\ \/ Enter("out", "denied")
         \/ ~once(p, k) /\ Enter("out", "skipped")
         \/ once(p, k) /\ Enter("check", "none")
      /\ UNCHANGED <<committed, turn, withheld, deliveries, acked>>

isCommitted(c) ==
  /\ At(c, "check")
  /\ IF call[c].key \in committed THEN Finish(c, "skipped") ELSE Goto(c, "body")
  /\ UNCHANGED <<committed, turn, withheld, deliveries, acked>>

(* The trigger's home may be closed to the owner, its destination be out   *)
(* of sight or not consented to: the firing is complete all the same.      *)
Withhold(c) == withheld' = withheld \cup {call[c].key} /\ UNCHANGED <<deliveries, acked>>

(* reachEnqueue: the reply, or the literal message, goes to the outbox.    *)
reachEnqueue(c) ==
  \/ enqueue(call[c].key, "slack", FALSE, FALSE) /\ UNCHANGED withheld
  \/ Withhold(c)

sendMessage(c) ==
  /\ At(c, "body") /\ call[c].message
  /\ reachEnqueue(c)
  /\ Goto(c, "commit")
  /\ UNCHANGED <<committed, turn>>

(* deps.run is app.turn with the key of the firing: it queues a run, or    *)
(* finds the one that was queued under the key, and waits for its end.     *)
startTurn(c) ==
  /\ At(c, "body") /\ ~call[c].message
  /\ \/ /\ turn' = [turn EXCEPT ![call[c].key] = IF @ = "none" THEN "queued" ELSE @]
        /\ Goto(c, "turn")
        /\ UNCHANGED <<withheld, deliveries, acked>>
     \/ Withhold(c) /\ Goto(c, "commit") /\ UNCHANGED turn
  /\ UNCHANGED committed

(* The run ends (RunStore); its result is stored with it.                  *)
endTurn(k) ==
  /\ turn[k] = "queued"
  /\ turn' = [turn EXCEPT ![k] = "reply"] \/ turn' = [turn EXCEPT ![k] = "quiet"]
  /\ UNCHANGED <<committed, call, withheld, deliveries, acked>>

(* The reply of the turn, if any, is enqueued.                             *)
awaitTurn(c) ==
  /\ At(c, "turn") /\ turn[call[c].key] \in {"reply", "quiet"}
  /\ IF turn[call[c].key] = "reply" THEN reachEnqueue(c) ELSE UNCHANGED <<withheld, deliveries, acked>>
  /\ Goto(c, "commit")
  /\ UNCHANGED <<committed, turn>>

commit(c) ==
  /\ At(c, "commit")
  /\ committed' = committed \cup {call[c].key}
  /\ Finish(c, "ran")
  /\ UNCHANGED <<turn, withheld, deliveries, acked>>

(* Mutant: the record is written whether the firing failed or not.         *)
throwCommits(c) ==
  /\ call[c].pc \in Inside
  /\ committed' = committed \cup {call[c].key}
  /\ Finish(c, "threw")
  /\ UNCHANGED <<turn, withheld, deliveries, acked>>

(* Any of the awaits may reject: the key is no longer in flight, what was  *)
(* done so far stays.                                                      *)
throw(c) ==
  /\ call[c].pc \in Inside
  /\ Finish(c, "threw")
  /\ UNCHANGED <<committed, turn, withheld, deliveries, acked>>

(* The caller has taken the outcome.                                       *)
return(c) ==
  /\ At(c, "out")
  /\ call' = [call EXCEPT ![c] = NoCall]
  /\ UNCHANGED <<committed, turn, withheld, deliveries, acked>>

(* A process dies, with its calls and its set of keys in flight.           *)
die(p) ==
  /\ call' = [c \in Call |-> IF call[c].home = p THEN NoCall ELSE call[c]]
  /\ UNCHANGED <<committed, turn, withheld, deliveries, acked>>

triggerStep(c) ==
  isCommitted(c) \/ sendMessage(c) \/ startTurn(c) \/ awaitTurn(c) \/ commit(c)

TriggersNext ==
  \/ \E c \in Call, p \in Process, k \in Key, message \in BOOLEAN : runTrigger(c, p, k, message)
  \/ \E c \in Call : triggerStep(c) \/ throw(c) \/ return(c)
  \/ \E k \in Key : endTurn(k)
  \/ \E p \in Process : die(p)
  \/ Next /\ UNCHANGED triggerVars      \* the surfaces, and other users of the outbox

TriggersSpec == TriggersInit /\ [][TriggersNext]_<<vars, triggerVars>>

-----------------------------------------------------------------------------
Complete(k) == deliveries[k].present \/ turn[k] = "quiet" \/ k \in withheld

(* A firing that is on record as complete is complete: its message or the  *)
(* reply of its turn is in the outbox, unless the turn ended without one   *)
(* or a call was not to deliver.  Were it otherwise, the retry that finds  *)
(* the record would skip a firing that nobody heard of.                    *)
CommittedIsDone ==
  \A k \in committed : Complete(k)

(* Within a process no two calls are inside once() with the same key.      *)
OneInFlight ==
  \A c, d \in Call :
    /\ c # d /\ call[c].home = call[d].home /\ call[c].key = call[d].key
    /\ {call[c].pc, call[d].pc} \subseteq Inside
    => FALSE
=============================================================================
