--------------------------- MODULE SlackDelivery ---------------------------
(***************************************************************************)
(* How a message gets from the outbox into Slack: the pollers of several   *)
(* server processes (slack/deliveries.ts), their in-memory tracker and     *)
(* postWithVerify (slack/delivery.ts), beside the handler that waits for a *)
(* run and shows its result itself (slack/core-bridge.ts, turn-handler.ts).*)
(* The result of a run is queued under the key of the run when the run     *)
(* ends (delivery/run-result-delivery.ts), for the case that the handler   *)
(* is gone; the handler acknowledges that recovery copy.                   *)
(*                                                                         *)
(* Slack is external: a call succeeds, is refused, or fails without        *)
(* telling whether the message got through; one that failed does not get   *)
(* through later.  Copies that edit a message in place, react, delete or   *)
(* carry only files are not modelled.                                      *)
(***************************************************************************)
EXTENDS Integers, Sequences, Functions

CONSTANTS
  Run,           \* keys of the results of runs
  Message,       \* keys of other messages to a conversation
  Note,          \* keys of messages to a person
  Process,       \* server processes
  ClaimTtl,      \* DELIVERY_CLAIM_MS, in ticks
  Grace,         \* RUN_RECOVERY_GRACE_MS, in ticks
  MaxAttempts,   \* DELIVERY_MAX_ATTEMPTS
  MaxTracked,    \* DELIVERY_MAX_TRACKED
  PostAttempts,  \* attempts of one postWithVerify
  AckAttempts,   \* attempts of ackRunDeliveryWithRetry
  None,
  Faults,        \* kinds of fault explored: see Fault
  MaxFaults      \* bound: how many of them

ASSUME SlackAssumption ==
  /\ Run \cap Message = {} /\ Run \cap Note = {} /\ Message \cap Note = {}
  /\ None \notin Run \cup Message \cup Note /\ None \notin Process
  /\ ClaimTtl \in Nat \ {0} /\ Grace \in Nat /\ MaxFaults \in Nat
  /\ MaxAttempts \in Nat /\ MaxTracked \in Nat \ {0}
  /\ PostAttempts \in Nat \ {0} /\ AckAttempts \in Nat \ {0}

Key == Run \cup Message \cup Note
typeOf(k) == IF k \in Note THEN "principal" ELSE "slack"
Loop == {"slack", "principal"}

VARIABLES
  deliveries, acked,   \* DeliveryStore
  age,       \* [Key -> ticks since created_at, up to Grace]
  run,       \* [Run -> how far the run and its terminal listener are, and its result]
  handler,   \* [Run -> the state of the handler that waits for the run]
  proc,      \* [Process -> pins, tracker and loops of a process]
  slack,     \* [Key -> the messages shown]
  was,       \* history: keys that went through rare events
  faults     \* history: faults so far

storeVars == <<deliveries, acked>>
vars == <<deliveries, acked, age, run, handler, proc, slack, was, faults>>

D == INSTANCE DeliveryStore WITH Type <- Loop

(* The maps of createDeliveryTracker, in insertion order.                  *)
Tracker == [failures: Seq([id: Key, count: Nat]), posted: Seq(Key), dead: Seq(Key)]

(* One of the two loops of a poll; landed: a message of this very call of  *)
(* postWithVerify got through.                                             *)
LoopState ==
  [pc: {"idle", "fetch", "next", "preflight", "post", "scan", "ack"},
   batch: SUBSET Key, cur: Key \cup {None}, attempt: 0..(PostAttempts - 1), landed: BOOLEAN]

HandlerState ==
  [pc: {"none", "submitted", "waiting", "reply", "refuse", "done"}, home: Process \cup {None},
   acking: 0..AckAttempts]     \* attempts left of ackRunDeliveryWithRetry

(* What a run ends with, as far as its delivery is concerned: a reply, a   *)
(* failure note or a refusal for the requester ("reply"), a quarantine     *)
(* refusal for the thread ("refuse"), or nothing to say ("quiet").         *)
Result == {"reply", "refuse", "quiet"}

TypeOK ==
  /\ D!TypeOK
  /\ age \in [Key -> 0..Grace]
  /\ run \in [Run -> [pc: {"none", "running", "settling", "done"}, result: Result \cup {None}]]
  /\ handler \in [Run -> HandlerState]
  /\ proc \in [Process -> [pins: SUBSET Run, tracker: Tracker, loop: [Loop -> LoopState]]]
  /\ slack \in [Key -> [copies: Nat, live: Nat, keyed: BOOLEAN]]
  /\ was \in [outlived: SUBSET Key, exposed: SUBSET Key, unconfirmed: SUBSET Key,
             forgotten: SUBSET Key]
  /\ faults \in 0..MaxFaults

IdleLoop == [pc |-> "idle", batch |-> {}, cur |-> None, attempt |-> 0, landed |-> FALSE]
FreshProcess ==
  [pins |-> {}, tracker |-> [failures |-> <<>>, posted |-> <<>>, dead |-> <<>>],
   loop |-> [l \in Loop |-> IdleLoop]]

Init ==
  /\ D!Init
  /\ age = [k \in Key |-> 0]
  /\ run = [r \in Run |-> [pc |-> "none", result |-> None]]
  /\ handler = [r \in Run |-> [pc |-> "none", home |-> None, acking |-> 0]]
  /\ proc = [p \in Process |-> FreshProcess]
  /\ slack = [k \in Key |-> [copies |-> 0, live |-> 0, keyed |-> FALSE]]
  /\ was = [outlived |-> {}, exposed |-> {}, unconfirmed |-> {}, forgotten |-> {}]
  /\ faults = 0

(* Faults: "listener" an enqueue is lost, "live" a call of the handler     *)
(* fails, "claim" a claim statement fails, "post", "scan" a call of the    *)
(* poller to Slack fails, "ack" an acknowledgement fails, "crash" a        *)
(* process restarts.                                                       *)
Fault(kind) == kind \in Faults /\ faults < MaxFaults /\ faults' = faults + 1

-----------------------------------------------------------------------------
(* createDeliveryTracker.                                                  *)
capMap(s) == IF Len(s) > MaxTracked THEN Tail(s) ELSE s
(* The entry of a map, whose place is the only member of `at`, is deleted. *)
delete(s, at) ==
  IF at = {} THEN s
  ELSE LET i == CHOOSE i \in at : TRUE IN SubSeq(s, 1, i - 1) \o SubSeq(s, i + 1, Len(s))
without(s, k) == delete(s, {i \in DOMAIN s : s[i] = k})
noFailures(t, k) == delete(t.failures, {i \in DOMAIN t.failures : t.failures[i].id = k})

givenUp(t, k) == k \in Range(t.dead)

bury(t, k) ==
  [t EXCEPT !.failures = noFailures(t, k), !.posted = without(@, k),
            !.dead = IF givenUp(t, k) THEN @ ELSE capMap(Append(@, k))]

clear(t, k) == [t EXCEPT !.failures = noFailures(t, k), !.posted = without(@, k)]

(* The oldest posted entry that no longer fits is given up.                *)
markPosted(t, k) ==
  LET u == [t EXCEPT !.posted = Append(@, k)]
  IN IF Len(u.posted) > MaxTracked THEN bury(u, Head(u.posted)) ELSE u

failureCount(t, k) == IF \E f \in Range(t.failures) : f.id = k
                        THEN (CHOOSE f \in Range(t.failures) : f.id = k).count ELSE 0

(* Mutant: a failed acknowledgement forgets that the message was posted.   *)
recordFailureForgets(t, k) ==
  [t EXCEPT !.posted = without(@, k), !.failures = capMap(Append(noFailures(t, k), [id |-> k, count |-> 1]))]

recordFailure(t, k) ==
  LET n == failureCount(t, k) + 1
  IN IF n >= MaxAttempts THEN bury(t, k)
     ELSE [t EXCEPT !.failures =
             IF n > 1 THEN [i \in DOMAIN @ |-> IF @[i].id = k THEN [id |-> k, count |-> n] ELSE @[i]]
                      ELSE capMap(Append(@, [id |-> k, count |-> n]))]

-----------------------------------------------------------------------------
(* A message reaches the outbox from a tool, a trigger or a notice.        *)
send(k) ==
  /\ k \in Message \cup Note /\ ~deliveries[k].present
  /\ D!enqueue(k, typeOf(k), FALSE, FALSE)
  /\ UNCHANGED <<age, run, handler, proc, slack, was, faults>>

(* callCore submits the turn.                                              *)
submitTurn(r, p) ==
  /\ run[r].pc = "none"
  /\ run' = [run EXCEPT ![r].pc = "running"]
  /\ handler' = [handler EXCEPT ![r] = [pc |-> "submitted", home |-> p, acking |-> 0]]
  /\ UNCHANGED <<storeVars, age, proc, slack, was, faults>>

finishRun(r) ==
  /\ run[r].pc = "running"
  /\ \E result \in Result : run' = [run EXCEPT ![r] = [pc |-> "settling", result |-> result]]
  /\ UNCHANGED <<storeVars, age, handler, proc, slack, was, faults>>

(* wireRunResultDeliveries: the terminal listener queues the result, unless *)
(* there is none to show or an agent with surface tools has posted it.  Its *)
(* process may die first, and an error is only logged.                      *)
onTerminal(r) ==
  /\ run[r].pc = "settling"
  /\ run' = [run EXCEPT ![r].pc = "done"]
  /\ \/ run[r].result # "quiet" /\ D!enqueue(r, "slack", FALSE, FALSE) /\ UNCHANGED faults
     \/ run[r].result # "refuse" /\ UNCHANGED <<storeVars, faults>>
     \/ Fault("listener") /\ UNCHANGED storeVars
  /\ UNCHANGED <<age, handler, proc, slack, was>>

(* History: handler and poller may both show these.                        *)
Expose(rs) == was' = [was EXCEPT !.exposed = @ \cup rs]

(* pollRun: the queued run is pinned, and waited for.                      *)
pollRun(r) ==
  /\ handler[r].pc = "submitted"
  /\ handler' = [handler EXCEPT ![r].pc = "waiting"]
  /\ proc' = [proc EXCEPT ![handler[r].home].pins = @ \cup {r}]
  /\ Expose({r} \cap {k \in Run : age[k] = Grace})
  /\ UNCHANGED <<storeVars, age, run, slack, faults>>

(* Mutant: the pin stays.                                                  *)
UnpinForgotten(r) == UNCHANGED proc

Unpin(r) == proc' = [proc EXCEPT ![handler[r].home].pins = @ \ {r}]

(* pollRun goes on: the result arrives.  The acknowledgement is started    *)
(* before the reply is posted, except for a quarantine refusal.  When the  *)
(* wait fails, because the run makes no progress or was parked without a   *)
(* result, the recovery copy is left to the pollers.                       *)
waitRun(r) ==
  /\ handler[r].pc = "waiting"
  /\ \/ /\ run[r].result = "reply" /\ UNCHANGED <<proc, faults>>
        /\ handler' = [handler EXCEPT ![r].pc = "reply", ![r].acking = AckAttempts]
     \/ /\ run[r].result = "refuse" /\ UNCHANGED <<proc, faults>>
        /\ handler' = [handler EXCEPT ![r].pc = "refuse"]
     \/ /\ run[r].result = "quiet" /\ UNCHANGED faults
        /\ handler' = [handler EXCEPT ![r].pc = "done"] /\ Unpin(r)
     \/ /\ Fault("live")
        /\ handler' = [handler EXCEPT ![r].pc = "done"] /\ Unpin(r)
  /\ UNCHANGED <<storeVars, age, run, slack, was>>

(* postReply: no key, no retry.                                            *)
postReply(r) ==
  /\ handler[r].pc = "reply"
  /\ handler' = [handler EXCEPT ![r].pc = "done"]
  /\ \/ slack' = [slack EXCEPT ![r].live = @ + 1] /\ UNCHANGED faults
     \/ slack' = [slack EXCEPT ![r].live = @ + 1] /\ Fault("live")
     \/ Fault("live") /\ UNCHANGED slack
  /\ UNCHANGED <<storeVars, age, run, proc, was>>

(* Mutant: the acknowledgement does not wait for the post.                 *)
postThenAckAnyway(r) ==
  /\ handler[r].pc = "refuse"
  /\ handler' = [handler EXCEPT ![r].pc = "done", ![r].acking = AckAttempts]
  /\ \/ slack' = [slack EXCEPT ![r].live = @ + 1, ![r].keyed = TRUE] /\ UNCHANGED faults
     \/ Fault("live") /\ UNCHANGED slack
  /\ UNCHANGED <<storeVars, age, run, proc, was>>

(* postThenAckRunDelivery: post under the key, then acknowledge; a failed  *)
(* post releases the recovery copy.  The attempts of this postWithVerify   *)
(* are taken as one step.                                                  *)
postThenAck(r) ==
  /\ handler[r].pc = "refuse"
  /\ \/ /\ handler' = [handler EXCEPT ![r].pc = "done", ![r].acking = AckAttempts]
        /\ slack' = [slack EXCEPT ![r].live = @ + 1, ![r].keyed = TRUE]
        /\ UNCHANGED <<proc, faults>>
     \/ /\ handler' = [handler EXCEPT ![r].pc = "done"]
        /\ Unpin(r) /\ Fault("live")
        /\ \/ UNCHANGED slack
           \/ slack' = [slack EXCEPT ![r].live = @ + 1, ![r].keyed = TRUE]
  /\ UNCHANGED <<storeVars, age, run, was>>

(* What the loops of a process have claimed and not begun.                 *)
Claimed(p) == UNION {proc[p].loop[l].batch : l \in Loop}

(* ackRunDeliveryWithRetry, beside the rest of the handler.                *)
ackRun(r) ==
  /\ handler[r].acking > 0
  /\ \/ /\ D!ackByKey(r) /\ Unpin(r) /\ UNCHANGED faults
        /\ handler' = [handler EXCEPT ![r].acking = 0]
        /\ Expose({r} \cap Claimed(handler[r].home))
     \/ /\ Fault("ack") /\ UNCHANGED storeVars
        /\ handler' = [handler EXCEPT ![r].acking = @ - 1]
        /\ IF handler[r].acking = 1 THEN Unpin(r) /\ Expose({r}) ELSE UNCHANGED <<proc, was>>
  /\ UNCHANGED <<age, run, slack>>

-----------------------------------------------------------------------------
at(p, l) == proc[p].loop[l]
In(p, l, pc) == at(p, l).pc = pc
Put(p, l, x) == proc' = [proc EXCEPT ![p].loop[l] = x]

(* The loop goes on with x and the tracker becomes u, which may have had   *)
(* to forget an entry it had given up.                                     *)
Track(p, l, x, u, unconfirmed) ==
  /\ proc' = [proc EXCEPT ![p].loop[l] = x, ![p].tracker = u]
  /\ was' = [was EXCEPT
       !.unconfirmed = @ \cup unconfirmed,
       !.forgotten = @ \cup (Range(proc[p].tracker.dead) \ Range(u.dead))]

(* drainDeliveries: one poll at a time, both loops of it concurrently.  It *)
(* is started by a timer; an enqueue in the same process only hastens it.  *)
pollDeliveries(p) ==
  /\ \A l \in Loop : In(p, l, "idle")
  /\ proc' = [proc EXCEPT ![p].loop = [l \in Loop |-> [IdleLoop EXCEPT !.pc = "fetch"]]]
  /\ UNCHANGED <<storeVars, age, run, handler, slack, was, faults>>

(* fetchDeliveries.  Rows that the claim of another process has locked are *)
(* passed over; an error yields no rows.                                   *)
fetch(p, l) ==
  /\ In(p, l, "fetch")
  /\ \E ks \in SUBSET D!Claimable(l) :
       /\ \/ ks = D!Claimable(l) /\ UNCHANGED faults
          \/ (\E q \in Process \ {p} : In(q, l, "fetch")) /\ UNCHANGED faults
          \/ ks = {} /\ Fault("claim")
       /\ D!claimPending(l, ks)
       /\ Put(p, l, [IdleLoop EXCEPT !.pc = "next", !.batch = ks])
  /\ UNCHANGED <<age, run, handler, slack, was>>

endPoll(p, l) ==
  /\ In(p, l, "next") /\ at(p, l).batch = {}
  /\ Put(p, l, IdleLoop)
  /\ UNCHANGED <<storeVars, age, run, handler, slack, was, faults>>

(* Mutant: the live handler is not looked for.                             *)
LeftToHandlerAged(p, k) == k \in Run /\ age[k] < Grace

(* A copy is left to the live handler: it is at work in this process, or   *)
(* the run ended only a moment ago.                                        *)
LeftToHandler(p, k) == k \in Run /\ (k \in proc[p].pins \/ age[k] < Grace)

(* The loop is ready for its next delivery, or at work on k.               *)
Ready(p, l) == [IdleLoop EXCEPT !.pc = "next", !.batch = at(p, l).batch]
AtWork(p, l, k, pc) == [IdleLoop EXCEPT !.pc = pc, !.batch = at(p, l).batch \ {k}, !.cur = k]

(* The next delivery of the batch, and the start of deliverWithRetry.  The *)
(* batch is in order of creation; any order is explored.                   *)
next(p, l, k) ==
  /\ In(p, l, "next") /\ k \in at(p, l).batch
  /\ LET t == proc[p].tracker
         start == IF k \in Run THEN "preflight" ELSE "post"
     IN \/ /\ LeftToHandler(p, k) \/ givenUp(t, k)
           /\ Put(p, l, [Ready(p, l) EXCEPT !.batch = @ \ {k}])
        \/ /\ ~LeftToHandler(p, k) /\ ~givenUp(t, k)
           /\ Put(p, l, AtWork(p, l, k, IF k \in Range(t.posted) THEN "ack" ELSE start))
  /\ UNCHANGED <<storeVars, age, run, handler, slack, was, faults>>

(* post() returned: the tracker remembers it, and the row is acknowledged. *)
Posted(p, l) ==
  LET k == at(p, l).cur
  IN Track(p, l, AtWork(p, l, k, "ack"), markPosted(proc[p].tracker, k), {})

(* Mutant: a failed post is acknowledged all the same.                     *)
FailedAcks(p, l, unconfirmed) ==
  Track(p, l, AtWork(p, l, at(p, l).cur, "ack"), proc[p].tracker, unconfirmed)

(* post() threw, or the acknowledgement did.                               *)
Failed(p, l, unconfirmed) ==
  Track(p, l, Ready(p, l), recordFailure(proc[p].tracker, at(p, l).cur), unconfirmed)

(* findPostedByKey: the message is there, under its key.  For a run it     *)
(* looks back to shortly before the creation of the row; a refusal that    *)
(* was posted long before the row was queued is not distinguished.         *)
Scanned(k) == slack[k].keyed

(* Mutant: the scan for an earlier copy is skipped.                        *)
preflightSkips(p, l) ==
  /\ In(p, l, "preflight")
  /\ Put(p, l, [at(p, l) EXCEPT !.pc = "post"])
  /\ UNCHANGED <<storeVars, age, run, handler, slack, was, faults>>

(* verifyFirst: is the result of the run in Slack already?                 *)
preflight(p, l) ==
  /\ In(p, l, "preflight")
  /\ \/ Scanned(at(p, l).cur) /\ Posted(p, l) /\ UNCHANGED faults
     \/ /\ ~Scanned(at(p, l).cur) /\ Put(p, l, [at(p, l) EXCEPT !.pc = "post"])
        /\ UNCHANGED <<was, faults>>
     \/ Fault("scan") /\ Failed(p, l, {})
  /\ UNCHANGED <<storeVars, age, run, handler, slack>>

Show(k) == slack' = [slack EXCEPT ![k].copies = @ + 1, ![k].keyed = k \notin Note]

(* Mutant: one attempt too many.                                           *)
AgainOnceMore(p, l) ==
  IF at(p, l).attempt + 1 > PostAttempts THEN Failed(p, l, {})
  ELSE Put(p, l, [at(p, l) EXCEPT !.pc = "post", !.attempt = @ + 1]) /\ UNCHANGED was

(* The attempt is used up; the last one throws.                            *)
Again(p, l) ==
  IF at(p, l).attempt + 1 >= PostAttempts THEN Failed(p, l, {})
  ELSE Put(p, l, [at(p, l) EXCEPT !.pc = "post", !.attempt = @ + 1]) /\ UNCHANGED was

(* An error leaves open whether the message was shown.  A message to a     *)
(* conversation is looked for.                                             *)
Unknown(p, l, landed) ==
  IF at(p, l).cur \in Note THEN Failed(p, l, {at(p, l).cur})
  ELSE /\ Put(p, l, [at(p, l) EXCEPT !.pc = "scan", !.landed = @ \/ landed])
       /\ UNCHANGED was

(* chat.postMessage: shown; refused; rate limited, which postWithVerify    *)
(* waits out; or an error that leaves it open.                             *)
post(p, l) ==
  /\ In(p, l, "post")
  /\ LET k == at(p, l).cur
     IN \/ Show(k) /\ Posted(p, l) /\ UNCHANGED faults
        \/ Fault("post") /\ Failed(p, l, {}) /\ UNCHANGED slack
        \/ Fault("post") /\ k \notin Note /\ Again(p, l) /\ UNCHANGED slack
        \/ Fault("post") /\ Show(k) /\ Unknown(p, l, TRUE)
        \/ Fault("post") /\ Unknown(p, l, FALSE) /\ UNCHANGED slack
  /\ UNCHANGED <<storeVars, age, run, handler>>

(* findPostedByKey after such an error.  For a run it looks back to the    *)
(* creation of the row, otherwise only to the start of this call.          *)
scan(p, l) ==
  /\ In(p, l, "scan")
  /\ LET k == at(p, l).cur
     IN \/ Scanned(k) /\ Posted(p, l) /\ UNCHANGED faults
        \/ (~Scanned(k) \/ (k \in Message /\ ~at(p, l).landed)) /\ Again(p, l) /\ UNCHANGED faults
        \/ Fault("scan") /\ Failed(p, l, {k})
  /\ UNCHANGED <<storeVars, age, run, handler, slack>>

(* The statement of the acknowledgement.                                   *)
acknowledge(k) == IF k \in Note THEN D!recordRecipientThread(k) ELSE D!ack(k)

(* End of deliverWithRetry.  The acknowledgement may fail before or after  *)
(* its statement.                                                          *)
ack(p, l) ==
  /\ In(p, l, "ack")
  /\ LET k == at(p, l).cur
     IN \/ /\ acknowledge(k) /\ UNCHANGED faults
           /\ Track(p, l, Ready(p, l), clear(proc[p].tracker, k), {})
        \/ Fault("ack") /\ Failed(p, l, {}) /\ (acknowledge(k) \/ UNCHANGED storeVars)
  /\ UNCHANGED <<age, run, handler, slack>>

-----------------------------------------------------------------------------
(* A process restarts: its tracker, pins, loops and handlers are gone.     *)
crash(p) ==
  /\ Fault("crash")
  /\ proc' = [proc EXCEPT ![p] = FreshProcess]
  /\ handler' = [r \in Run |-> IF handler[r].home = p
                                 THEN [handler[r] EXCEPT !.pc = "done", !.acking = 0]
                                 ELSE handler[r]]
  /\ Expose({r \in Run : handler[r].home = p /\ handler[r].acking > 0})
  /\ UNCHANGED <<storeVars, age, run, slack>>

(* Is somebody at work on a claimed delivery?                              *)
Working(k) == \E p \in Process, l \in Loop :
  k \in at(p, l).batch \cup {at(p, l).cur}

Tick ==
  /\ D!Tick
  /\ age' = [k \in Key |-> IF deliveries[k].present /\ age[k] < Grace THEN age[k] + 1 ELSE age[k]]
  /\ was' = [was EXCEPT !.outlived = @ \cup {k \in Key : deliveries[k].claim = 1 /\ Working(k)}]
  /\ UNCHANGED <<run, handler, proc, slack, faults>>

loopStep(p, l) ==
  \/ fetch(p, l) \/ endPoll(p, l) \/ preflight(p, l) \/ post(p, l) \/ scan(p, l) \/ ack(p, l)
  \/ \E k \in at(p, l).batch : next(p, l, k)

handlerStep(r) == pollRun(r) \/ waitRun(r) \/ postReply(r) \/ postThenAck(r)

Next ==
  \/ \E k \in Key : send(k)
  \/ \E r \in Run, p \in Process : submitTurn(r, p)
  \/ \E r \in Run : finishRun(r) \/ onTerminal(r) \/ handlerStep(r) \/ ackRun(r)
  \/ \E p \in Process : pollDeliveries(p) \/ crash(p)
  \/ \E p \in Process, l \in Loop : loopStep(p, l)
  \/ Tick

Spec == Init /\ [][Next]_vars

(* The poll timer fires, calls return, time passes.  Nothing is assumed of *)
(* runs, faults or new messages.                                           *)
Fairness ==
  /\ \A r \in Run : WF_vars(onTerminal(r)) /\ WF_vars(handlerStep(r)) /\ WF_vars(ackRun(r))
  /\ \A p \in Process : WF_vars(pollDeliveries(p)) /\ \A l \in Loop : WF_vars(loopStep(p, l))
  /\ WF_vars(Tick)

FairSpec == Spec /\ Fairness

-----------------------------------------------------------------------------
(* An acknowledgement sticks, whether the handler's comes before the       *)
(* listener has queued the copy or a poller's after it.                    *)
AckSticks == D!AckSticks

(* No copy is claimed by any poller once it is acknowledged, and what was  *)
(* queued first under a key stays.                                         *)
QueuedOnce == D!QueuedOnce

(* A row the poller acknowledged was shown in Slack, whatever failures,    *)
(* evictions and restarts came before.                                     *)
AckedWasShown ==
  \A k \in Key : acked[k] \in {"ack", "recipientThread"} =>
    slack[k].copies > 0 \/ (slack[k].live > 0 /\ slack[k].keyed)

(* The recovery copy of a run is posted once, over all processes, restarts *)
(* and ambiguous errors, unless somebody took longer over it than its      *)
(* claim lasts.                                                            *)
CopyPostedOnce ==
  \A r \in Run : slack[r].copies > 1 => r \in was.outlived

(* With one process, the answer of a run is not shown both by its handler  *)
(* and from the recovery copy, unless the copy was free before the handler *)
(* pinned the run, sat in a batch, already claimed, when the handler       *)
(* acknowledged it, or was never acknowledged: every attempt failed or the *)
(* process restarted first.                                                *)
ShownByOne ==
  \A r \in Run : slack[r].live > 0 /\ slack[r].copies > 0 => r \in was.exposed

(* A quarantine refusal reaches the thread although the handler may fail   *)
(* or die at any point, or the pollers give up.                            *)
RefusalShown ==
  \A r \in Run :
    (run[r].result = "refuse") ~>
      (\/ slack[r].live + slack[r].copies > 0
       \/ \E p \in Process : givenUp(proc[p].tracker, r))

(* With one process that does not restart, a message to a conversation is  *)
(* posted once, however often its acknowledgement fails, unless Slack left *)
(* open whether it was shown or the tracker had to forget that it was      *)
(* given up.                                                               *)
MessagePostedOnce ==
  \A k \in Message : slack[k].copies > 1 => k \in was.unconfirmed \cup was.forgotten

(* A queued message is delivered, or given up by a process that tried it   *)
(* often enough.                                                           *)
EveryDeliveryResolved ==
  \A k \in Key :
    D!pending(k) ~> ~D!pending(k) \/ \E p \in Process : givenUp(proc[p].tracker, k)
=============================================================================
