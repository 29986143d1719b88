--------------------------- MODULE CronScheduler ---------------------------
(***************************************************************************)
(* The cron scheduler (cron/scheduler.ts, cron-store.ts, schedule.ts,      *)
(* job-queue.ts) of several processes over one cron.  A process fires it   *)
(* from the job queue, where the slot is claimed in the store first, or,   *)
(* if it has no queue or its queue did not start, from interval ticks      *)
(* under the leader lease (persistence/leader-lease.ts), where the slot is *)
(* marked last.  Both kinds run side by side while a deployment replaces   *)
(* one by the other.  The firing itself is runTrigger (Triggers).          *)
(*                                                                         *)
(* Times are ticks; a slot is the time a firing is due, and its key.  The  *)
(* log of firings kept in the row is read by people only and left out, as  *)
(* are several crons: they share nothing but the batch of a tick.          *)
(***************************************************************************)
EXTENDS Triggers

CONSTANTS
  Content,     \* what users ask for: [kind, first, message], first = NoTime if not given,
               \* message: a literal text rather than a task
  Every,       \* everyMs
  Period,      \* of the calendar
  MaxTime,     \* bound: the last tick
  Faults,      \* kinds of fault explored: "throw", "crash", "lock", "stop"
  MaxEvents    \* bound: faults and requests of users

VARIABLES
  now,
  cron,        \* the row
  jobs,        \* slots with a job in the fire queue
  proc,        \* [Process -> what start() arrived at, and what hold() is in progress]
  lock,        \* the process whose connection has the advisory lock of the lease
  fire,        \* [Call -> the firing that makes the call]
  taken,       \* history: the slot last claimed or marked since the schedule was set,
               \* NoTime if none, or if its firing is excepted
  overtaken,   \* history: has the end of a firing overwritten a row that had moved on?
  events       \* history: faults and requests so far

cronVars == <<now, cron, jobs, proc, lock, fire, taken, overtaken, events>>
allVars == <<vars, triggerVars, cronVars>>

NoTime == -1
Time == 0..MaxTime
Kind == {"once", "every", "calendar"}

(* Slots and manual runs have their keys.                                  *)
ASSUME CronAssumption ==
  /\ {Every, Period} \subseteq Nat \ {0} /\ {MaxTime, MaxEvents} \subseteq Nat
  /\ Content \subseteq [kind: Kind, first: Time \cup {NoTime}, message: BOOLEAN]
  /\ Time \cup {-(n + 1) : n \in 1..MaxEvents} \subseteq Key

(* rev tells the schedules the row has had apart; it is history.           *)
Cron == [present: BOOLEAN, kind: Kind, first: Nat \cup {NoTime}, message: BOOLEAN,
         enabled: BOOLEAN, archived: BOOLEAN, lastFiredAt: Time \cup {NoTime},
         nextFireAt: Nat \cup {NoTime}, rev: Nat]

(* via "job": step "claim" is between the read of the row and claimSlot().  *)
(* In "threw", fire() has rejected though runTrigger had returned.  "mark"  *)
(* is between the two statements of markFired.  kind, rev and prior are     *)
(* from the row as it was read.                                             *)
Fire == [step: {"idle", "claim", "fire", "threw", "settle", "mark"}, via: {"none", "job", "tick", "manual"},
         home: Process \cup {Nowhere}, slot: Key, t: Time, kind: Kind, message: BOOLEAN,
         prior: Time \cup {NoTime}, rev: Nat]

CronTypeOK ==
  /\ TriggersTypeOK
  /\ now \in Time /\ cron \in Cron /\ jobs \subseteq Nat
  /\ proc \in [Process -> [mode: {"off", "queue", "interval", "stopped"}, hold: {"no", "tick", "guard"}]]
  /\ lock \in Process \cup {Nowhere}
  /\ fire \in [Call -> Fire]
  /\ taken \in Time \cup {NoTime} /\ overtaken \in BOOLEAN /\ events \in 0..MaxEvents

NoCron == [present |-> FALSE, kind |-> "once", first |-> NoTime, message |-> FALSE, enabled |-> FALSE,
           archived |-> FALSE, lastFiredAt |-> NoTime, nextFireAt |-> NoTime, rev |-> 0]
NoFire == [step |-> "idle", via |-> "none", home |-> Nowhere, slot |-> NoCall.key, t |-> 0,
           kind |-> "once", message |-> FALSE, prior |-> NoTime, rev |-> 0]

(* Rows written before nextFireAt was stored lack it.                      *)
OldRow(content) ==
  [NoCron EXCEPT !.present = TRUE, !.kind = content.kind, !.first = content.first,
                 !.message = content.message, !.enabled = TRUE]

CronInit ==
  /\ TriggersInit
  /\ now = 0
  /\ cron \in {NoCron} \cup {OldRow(content) : content \in Content}
  /\ jobs = {}
  /\ proc \in [Process -> [mode: {"queue", "interval"}, hold: {"no"}]]
  /\ lock = Nowhere
  /\ fire = [c \in Call |-> NoFire]
  /\ taken = NoTime /\ overtaken = FALSE /\ events = 0

Event == events < MaxEvents /\ events' = events + 1

Fault(kind) == kind \in Faults /\ Event

-----------------------------------------------------------------------------
(* schedule.ts                                                             *)

(* The first match of the calendar after t.  There is always one: a        *)
(* five-field expression names no year, and normalizeSchedule refuses one  *)
(* that never matches.                                                     *)
nextCalendarFireAfter(t) == (t \div Period + 1) * Period

normalizeSchedule(schedule) ==
  IF schedule.kind = "calendar" THEN nextCalendarFireAfter(now)
  ELSE IF schedule.first # NoTime THEN schedule.first
  ELSE IF schedule.kind = "every" THEN now + Every
  ELSE now

(* createdAt of a row without nextFireAt is 0.                             *)
recoverNextFireAt(row) ==
  IF row.nextFireAt # NoTime THEN row.nextFireAt
  ELSE IF row.kind = "calendar"
         THEN nextCalendarFireAfter(IF row.lastFiredAt = NoTime THEN 0 ELSE row.lastFiredAt)
  ELSE IF row.lastFiredAt = NoTime THEN (IF row.first = NoTime THEN 0 ELSE row.first)
  ELSE IF row.kind = "every" THEN row.lastFiredAt + Every
  ELSE NoTime

advanceNextFireAt(kind, firedAt) ==
  CASE kind = "calendar" -> nextCalendarFireAfter(firedAt)
    [] kind = "every"    -> firedAt + Every
    [] OTHER             -> NoTime

-----------------------------------------------------------------------------
(* cron-store.ts: what each statement makes of the row.                    *)
Live(row) == row.present /\ ~row.archived /\ row.enabled

(* The slot a live row waits for, as due() and the queue see it.           *)
Slots(row) == IF Live(row) THEN {recoverNextFireAt(row)} \ {NoTime} ELSE {}

withSchedule(row, schedule) ==
  [row EXCEPT !.kind = schedule.kind,
              !.first = IF schedule.kind = "calendar" THEN NoTime ELSE normalizeSchedule(schedule),
              !.nextFireAt = normalizeSchedule(schedule), !.rev = events + 1]

setEnabled(row, on) ==
  IF row.present THEN [row EXCEPT !.enabled = on, !.archived = @ /\ ~on] ELSE row

(* The firing's time, or for a calendar its slot, is where the next slot   *)
(* is counted from.                                                        *)
advanceFrom(kind, slot, at) == IF kind = "calendar" THEN slot ELSE at

(* Mutant: the claim stamps the row with its next slot.                    *)
claimedAhead(row, slot, at) ==
  [row EXCEPT !.lastFiredAt = advanceNextFireAt(row.kind, at),
              !.nextFireAt = advanceNextFireAt(row.kind, advanceFrom(row.kind, slot, at))]

claimed(row, slot, at) ==
  [row EXCEPT !.lastFiredAt = at,
              !.nextFireAt = advanceNextFireAt(row.kind, advanceFrom(row.kind, slot, at))]

-----------------------------------------------------------------------------
(* leader-lease.ts: hold() finds the lease free, in this process and in    *)
(* the database.                                                           *)
free(p) == proc[p].hold = "no" /\ lock = Nowhere

hold(p, what) ==
  /\ free(p)
  /\ lock' = p
  /\ proc' = [proc EXCEPT ![p].hold = what]

(* Mutant: the lock stays with the connection.                             *)
unholdForgets(p) ==
  /\ proc' = [proc EXCEPT ![p].hold = "no"]
  /\ UNCHANGED lock

(* hold() unlocks, which finds nothing to unlock if the connection died.   *)
unhold(p) ==
  /\ lock' = IF lock = p THEN Nowhere ELSE lock
  /\ proc' = [proc EXCEPT ![p].hold = "no"]

(* The connection dies: a tick goes on unawares, a guard ends.             *)
loseLock(p) ==
  /\ lock = p /\ Fault("lock")
  /\ lock' = Nowhere
  /\ proc' = [proc EXCEPT ![p].hold = IF @ = "guard" THEN "no" ELSE @]
  /\ UNCHANGED <<vars, triggerVars, now, cron, jobs, fire, taken, overtaken>>

-----------------------------------------------------------------------------
(* enqueueFire: one queued job per slot; a queue that was stopped sends    *)
(* nothing.                                                                *)
enqueueFire(p, slots) == IF proc[p].mode = "queue" THEN jobs \cup slots ELSE jobs

(* start(): the job queue starts, or there is none or it fails to start    *)
(* and interval ticks take its place.                                      *)
start(p) ==
  /\ proc[p].mode = "off"
  /\ \E mode \in {"queue", "interval"} : proc' = [proc EXCEPT ![p].mode = mode]
  /\ UNCHANGED <<vars, triggerVars, now, cron, jobs, lock, fire, taken, overtaken, events>>

(* stop(): firings in progress go on.                                      *)
stop(p) ==
  /\ proc[p].mode \in {"queue", "interval"} /\ Fault("stop")
  /\ IF proc[p].hold = "guard"
       THEN lock' = (IF lock = p THEN Nowhere ELSE lock)
            /\ proc' = [proc EXCEPT ![p] = [mode |-> "stopped", hold |-> "no"]]
       ELSE proc' = [proc EXCEPT ![p].mode = "stopped"] /\ UNCHANGED lock
  /\ UNCHANGED <<vars, triggerVars, now, cron, jobs, fire, taken, overtaken>>

(* A process dies and will be started again.  What its firings had claimed *)
(* stays claimed.                                                          *)
crash(p) ==
  /\ proc[p].mode # "off" /\ Fault("crash")
  /\ die(p)
  /\ proc' = [proc EXCEPT ![p] = [mode |-> "off", hold |-> "no"]]
  /\ lock' = IF lock = p THEN Nowhere ELSE lock
  /\ fire' = [c \in Call |-> IF fire[c].home = p THEN NoFire ELSE fire[c]]
  /\ taken' = IF \E c \in Call : fire[c].home = p /\ fire[c].slot = taken /\ fire[c].via = "job"
               THEN NoTime ELSE taken
  /\ UNCHANGED <<now, cron, jobs, overtaken>>

(* The guard of a process with a queue keeps interval peers from scanning. *)
leaseGuard(p) ==
  /\ proc[p].mode = "queue" /\ hold(p, "guard")
  /\ UNCHANGED <<vars, triggerVars, now, cron, jobs, fire, taken, overtaken, events>>

(* reconcile, the queue's own tick.                                        *)
reconcile(p) ==
  /\ proc[p].mode = "queue"
  /\ jobs' = enqueueFire(p, Slots(cron))
  /\ UNCHANGED <<vars, triggerVars, now, cron, proc, lock, fire, taken, overtaken, events>>

-----------------------------------------------------------------------------
Started(p, via, slot) ==
  [step |-> "fire", via |-> via, home |-> p, slot |-> slot, t |-> now, kind |-> cron.kind,
   message |-> cron.message, prior |-> cron.lastFiredAt, rev |-> cron.rev]

(* fireJob up to claimSlot: the queue hands out a job that is due, and the *)
(* row is read.                                                            *)
fireJob(c, p, slot) ==
  /\ proc[p].mode = "queue" /\ fire[c].step = "idle"
  /\ slot \in jobs /\ slot <= now
  /\ jobs' = jobs \ {slot}
  /\ fire' = IF slot \in Slots(cron)
               THEN [fire EXCEPT ![c] = [Started(p, "job", slot) EXCEPT !.step = "claim"]]
               ELSE fire
  /\ UNCHANGED <<vars, triggerVars, now, cron, proc, lock, taken, overtaken, events>>

(* Mutant: the claim does not look at the row again.                       *)
StillWaitsUnchecked(slot) == cron.present

(* claimSlot succeeds if the row still waits for this slot.                *)
StillWaits(slot) == slot \in Slots(cron)

claimSlot(c) ==
  /\ fire[c].step = "claim"
  /\ \/ /\ StillWaits(fire[c].slot)
        /\ cron' = claimed(cron, fire[c].slot, fire[c].t)
        /\ fire' = [fire EXCEPT ![c].step = "fire", ![c].rev = cron.rev]
        /\ runTrigger(c, fire[c].home, fire[c].slot, fire[c].message)
        /\ taken' = IF call'[c].out = "skipped" THEN NoTime ELSE fire[c].slot
     \/ /\ ~StillWaits(fire[c].slot)
        /\ fire' = [fire EXCEPT ![c] = NoFire]
        /\ UNCHANGED <<vars, triggerVars, cron, taken>>
  /\ UNCHANGED <<now, jobs, proc, lock, overtaken, events>>

(* claimSlot rejects, its update being written or not.  The job is not     *)
(* retried, and what was claimed stays claimed.                            *)
claimThrows(c) ==
  /\ fire[c].step = "claim" /\ Fault("throw")
  /\ fire' = [fire EXCEPT ![c] = NoFire]
  /\ \/ /\ StillWaits(fire[c].slot)
        /\ cron' = claimed(cron, fire[c].slot, fire[c].t)
        /\ taken' = NoTime
     \/ UNCHANGED <<cron, taken>>
  /\ UNCHANGED <<vars, triggerVars, now, jobs, proc, lock, overtaken>>

(* An interval tick: under the lease, the slots that are due are fired.  A *)
(* tick that finds none changes nothing.                                   *)
tick(c, p) ==
  /\ proc[p].mode = "interval" /\ fire[c].step = "idle" /\ hold(p, "tick")
  /\ \E slot \in Slots(cron) :
       /\ slot <= now
       /\ fire' = [fire EXCEPT ![c] = Started(p, "tick", slot)]
       /\ runTrigger(c, p, slot, cron.message)
  /\ UNCHANGED <<now, cron, jobs, taken, overtaken, events>>

(* The key of a manual run (randomUUID).                                   *)
manualKey == -(events + 2)

(* Mutant: a manual run passes once() by.                                  *)
runNowDirect(c, p) ==
  /\ proc[p].mode # "off" /\ fire[c].step = "idle" /\ Live(cron) /\ Event
  /\ fire' = [fire EXCEPT ![c] = Started(p, "manual", manualKey)]
  /\ call' = [call EXCEPT ![c] = [pc |-> "body", home |-> p, key |-> manualKey,
                                  message |-> cron.message, out |-> "none"]]
  /\ UNCHANGED <<vars, committed, turn, withheld, now, cron, jobs, proc, lock, taken, overtaken>>

runNow(c, p) ==
  /\ proc[p].mode # "off" /\ fire[c].step = "idle" /\ Live(cron) /\ Event
  /\ fire' = [fire EXCEPT ![c] = Started(p, "manual", manualKey)]
  /\ runTrigger(c, p, manualKey, cron.message)
  /\ UNCHANGED <<now, cron, jobs, proc, lock, taken, overtaken>>

-----------------------------------------------------------------------------
(* The rest of a firing, once runTrigger has returned or thrown.           *)
Failed(c) == call[c].out \in {"denied", "threw"} \/ fire[c].step = "threw"

(* A cron whose owner lost access is switched off, and so is a one-shot    *)
(* that has fired, by its schedule as it was read.                         *)
disables(c) == call[c].out = "denied" \/ (call[c].out # "threw" /\ fire[c].kind = "once")

(* The cron is switched off in a statement of its own, before the slot is  *)
(* settled.                                                                *)
disable(c) ==
  /\ fire[c].step = "fire" /\ At(c, "out") /\ disables(c)
  /\ cron' = setEnabled(cron, FALSE)
  /\ fire' = [fire EXCEPT ![c].step = "settle"]
  /\ UNCHANGED <<vars, triggerVars, now, jobs, proc, lock, taken, overtaken, events>>

(* The firing is over, but recordFire or setEnabled rejects.  A call that  *)
(* was skipped is not recorded.                                            *)
fireThrows(c) ==
  /\ fire[c].step = "fire" /\ At(c, "out") /\ Fault("throw")
  /\ call[c].out = "skipped" => disables(c)
  /\ fire' = [fire EXCEPT ![c].step = "threw"]
  /\ UNCHANGED <<vars, triggerVars, now, cron, jobs, proc, lock, taken, overtaken>>

(* fire() has returned or thrown.                                          *)
Fired(c, via) ==
  /\ fire[c].via = via /\ At(c, "out")
  /\ fire[c].step \in {IF disables(c) THEN "settle" ELSE "fire", "threw"}

Done(c) == fire' = [fire EXCEPT ![c] = NoFire] /\ return(c)

(* Mutant: a failed firing keeps its claim.                                *)
unclaimSlotNever(c) == cron

(* unclaimSlot: the slot is owed again, unless a later one was claimed or  *)
(* marked meanwhile.                                                       *)
IsLastClaim(c) == cron.present /\ cron.lastFiredAt = fire[c].t

unclaimSlot(c) ==
  IF IsLastClaim(c)
    THEN [cron EXCEPT !.lastFiredAt = fire[c].prior, !.nextFireAt = fire[c].slot]
    ELSE cron

(* The call is a firing of the queue that has its claim.                   *)
Claimant(c) == fire[c].via = "job" /\ fire[c].step # "claim"

(* A claim is told by its time, which is not enough if the schedule was    *)
(* replaced since, or if a later slot was claimed at the same instant, or  *)
(* by a firing that ended and left the time of an older claim in the row.  *)
Mistaken(c) ==
  /\ IsLastClaim(c)
  /\ \/ cron.rev # fire[c].rev
     \/ \E d \in Call : Claimant(d) /\ fire[d].rev = fire[c].rev /\ fire[d].slot > fire[c].slot

(* The end of fireJob: a firing that failed gives the slot back, another   *)
(* one queues the next slot.                                               *)
settleJob(c) ==
  /\ Fired(c, "job")
  /\ IF Failed(c) THEN cron' = unclaimSlot(c) /\ UNCHANGED jobs
                  ELSE jobs' = enqueueFire(fire[c].home, Slots(cron)) /\ UNCHANGED cron
  /\ overtaken' = (overtaken \/ (Failed(c) /\ Mistaken(c)))
  /\ Done(c)
  /\ UNCHANGED <<now, proc, lock, taken, events>>

(* A tick whose firing failed leaves the slot due.                         *)
settleTick(c) ==
  /\ Fired(c, "tick")
  /\ IF Failed(c) \/ ~cron.present
       THEN Done(c) /\ unhold(fire[c].home)
       ELSE /\ fire' = [fire EXCEPT ![c].step = "mark", ![c].kind = cron.kind]
            /\ UNCHANGED <<vars, triggerVars, proc, lock>>
  /\ UNCHANGED <<now, cron, jobs, taken, overtaken, events>>

(* markFired writes what follows from the row it has read.                 *)
markFired(c) ==
  /\ fire[c].step = "mark"
  /\ cron' = IF ~cron.present THEN cron ELSE
       [claimed([cron EXCEPT !.kind = fire[c].kind], fire[c].slot, fire[c].t) EXCEPT !.kind = cron.kind]
  /\ taken' = fire[c].slot
  /\ overtaken' = (overtaken \/ recoverNextFireAt(cron) # fire[c].slot)
  /\ Done(c) /\ unhold(fire[c].home)
  /\ UNCHANGED <<now, jobs, events>>

(* What a firing has left to do rejects: unclaimSlot, and the slot stays   *)
(* claimed; enqueueNext, which reconcile makes up for; or markFired, and   *)
(* the slot stays due.                                                     *)
settleThrows(c) ==
  /\ Fault("throw")
  /\ \/ /\ Fired(c, "job") /\ UNCHANGED <<proc, lock>>
        /\ taken' = IF Failed(c) /\ IsLastClaim(c) /\ ~Mistaken(c) /\ fire[c].slot = taken
                      THEN NoTime ELSE taken
     \/ /\ (Fired(c, "tick") /\ ~Failed(c)) \/ fire[c].step = "mark"
        /\ unhold(fire[c].home) /\ UNCHANGED taken
  /\ Done(c)
  /\ UNCHANGED <<now, cron, jobs, overtaken>>

settleManual(c) ==
  /\ Fired(c, "manual")
  /\ Done(c)
  /\ UNCHANGED <<now, cron, jobs, proc, lock, taken, overtaken, events>>

-----------------------------------------------------------------------------
(* What users do, at some process; notifyChanged queues the new slot.      *)
notifyChanged(p) == jobs' = enqueueFire(p, Slots(cron'))

create(p, content) ==
  /\ ~cron.present
  /\ cron' = [withSchedule(NoCron, content) EXCEPT !.present = TRUE, !.enabled = TRUE, !.message = content.message]
  /\ taken' = NoTime /\ notifyChanged(p)

reschedule(p, schedule) ==
  /\ cron.present
  /\ cron' = withSchedule(cron, schedule)
  /\ taken' = NoTime /\ notifyChanged(p)

switch(p, on) ==
  /\ cron.present /\ cron.enabled # on
  /\ cron' = setEnabled(cron, on)
  /\ UNCHANGED taken /\ notifyChanged(p)

archive(p) ==
  /\ cron.present
  /\ cron' = [cron EXCEPT !.archived = TRUE, !.enabled = FALSE]
  /\ UNCHANGED taken /\ notifyChanged(p)

delete ==
  /\ cron.present
  /\ cron' = NoCron /\ taken' = NoTime
  /\ UNCHANGED jobs

user(p) ==
  /\ proc[p].mode # "off" /\ Event
  /\ \/ \E content \in Content : create(p, content)
     \/ \E content \in Content : reschedule(p, content)
     \/ \E on \in BOOLEAN : switch(p, on)
     \/ archive(p)
     \/ delete
  /\ UNCHANGED <<vars, triggerVars, now, proc, lock, fire, overtaken>>

clock ==
  /\ now < MaxTime /\ now' = now + 1
  /\ Tick
  /\ UNCHANGED <<triggerVars, cron, jobs, proc, lock, fire, taken, overtaken, events>>

step(c) == triggerStep(c) /\ UNCHANGED cronVars

fail(c) ==
  /\ throw(c) /\ Fault("throw")
  /\ UNCHANGED <<now, cron, jobs, proc, lock, fire, taken, overtaken>>

turnEnds == (\E k \in Key : endTurn(k)) /\ UNCHANGED cronVars

proceed(c) ==
  \/ claimSlot(c) \/ step(c) \/ disable(c) \/ settleJob(c) \/ settleTick(c) \/ markFired(c)
  \/ settleManual(c)

CronNext ==
  \/ \E p \in Process : start(p) \/ stop(p) \/ crash(p) \/ leaseGuard(p) \/ loseLock(p) \/ reconcile(p)
  \/ \E c \in Call, p \in Process :
       (\E slot \in jobs : fireJob(c, p, slot)) \/ tick(c, p) \/ runNow(c, p)
  \/ \E c \in Call :
       proceed(c) \/ fail(c) \/ claimThrows(c) \/ fireThrows(c) \/ settleThrows(c)
  \/ turnEnds
  \/ \E p \in Process : user(p)
  \/ clock

CronSpec == CronInit /\ [][CronNext]_allVars

(* Fairness: a process starts and its timers and the queue's workers run,  *)
(* a call that can go on does, and runs end.                               *)
Fairness ==
  /\ \A p \in Process : WF_allVars(start(p)) /\ WF_allVars(reconcile(p))
  /\ \A c \in Call : WF_allVars(proceed(c))
  /\ \A p \in Process : SF_allVars(\E c \in Call : tick(c, p))
  /\ \A p \in Process : SF_allVars(\E c \in Call : \E slot \in jobs : fireJob(c, p, slot))
  /\ WF_allVars(turnEnds)

FairCronSpec == CronSpec /\ Fairness

-----------------------------------------------------------------------------
(* The slot claimed or marked last is not lost: it is complete, is being   *)
(* fired, or is owed again, however firings of several processes overlap,  *)
(* fail or are denied.  (An earlier slot whose firing fails after a later  *)
(* one was claimed is given up: unclaimSlot leaves the row to the later    *)
(* claim.)  The exceptions are a process that dies with the claim, a       *)
(* claimSlot that rejects after its update and an unclaimSlot that         *)
(* rejects, a claim whose call is skipped because the process still fires  *)
(* the slot for an earlier schedule, and the end of a firing that          *)
(* overwrites a row that has moved on: a markFired of an interval tick     *)
(* beside the queue, or an unclaimSlot that takes another claim for its    *)
(* own (Mistaken).                                                         *)
LastSlotKept ==
  \/ overtaken \/ taken \in committed \cup {NoTime}
  \/ cron.nextFireAt \in 0..taken
  \/ \E c \in Call : fire[c].slot = taken /\ fire[c].step # "idle"

(* The queue never has one slot of a schedule fired twice at a time, with  *)
(* the same exception of a row overwritten.                                *)
ClaimedByOne ==
  \A c, d \in Call :
    /\ c # d /\ fire[c].slot = fire[d].slot /\ fire[c].rev = fire[d].rev
    /\ fire[c].via = "job" /\ fire[d].via = "job" /\ ~overtaken
    => fire[c].step = "claim" \/ fire[d].step = "claim"

(* When a schedule is replaced by one that starts later, no earlier slot   *)
(* is claimed any more.                                                    *)
StaleSlotsDoNotFire ==
  [][\A c \in Call : fire[c].step = "claim" /\ fire'[c].step = "fire" => fire[c].slot >= cron.first]_allVars

(* Whatever the scheduler does is a use of triggers and outbox as open as  *)
(* their own specification allows.                                         *)
ImplementsTriggers == TriggersSpec

(* After the last disturbance the scheduler catches up: in the end nothing *)
(* is due and the slot last taken is complete, unless the cron is switched *)
(* off, as one whose owner has no access is.                               *)
CatchesUp ==
  <>[](\/ (\A slot \in Slots(cron) : slot > now) /\ taken \in committed \cup {NoTime}
       \/ ~Live(cron)
       \/ overtaken)
=============================================================================
