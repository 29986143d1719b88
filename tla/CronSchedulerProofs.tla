------------------------ MODULE CronSchedulerProofs -------------------------
(***************************************************************************)
(* The proofs about the scheduler, CronScheduler, about Triggers, which it *)
(* uses, and about the outbox, DeliveryStore, which Triggers uses.         *)
(*                                                                         *)
(* First the slots: that none is lost and none is claimed by two firings   *)
(* rests on SlotInv, which says of every firing what it is at each step,   *)
(* where its slot lies and who holds it.  The steps that claim no slot     *)
(* come before those that claim one, give it back, record it or end a      *)
(* firing.                                                                 *)
(*                                                                         *)
(* Of the triggers, CommittedIsDone alone is not inductive: a call about   *)
(* to write the record must have seen to the delivery, and what it saw to  *)
(* must stay.  The first is CommitReady; the second follows from the       *)
(* outbox, whose rows never go (RowStep).                                  *)
(*                                                                         *)
(* The scheduler is a legal user of triggers and outbox, so that what is   *)
(* proved about these holds of it.  This refinement needs the types: a     *)
(* firing calls runTrigger with a key only if its slot has come, and at a  *)
(* process only if it still has one.                                       *)
(***************************************************************************)
EXTENDS CronScheduler, TLAPS

(* The scheduler's own variables are well typed.                           *)
OwnTypes ==
  /\ now \in Time /\ cron \in Cron /\ jobs \subseteq Nat
  /\ proc \in [Process -> [mode: {"off", "queue", "interval", "stopped"}, hold: {"no", "tick", "guard"}]]
  /\ lock \in Process \cup {Nowhere}
  /\ fire \in [Call -> Fire]
  /\ taken \in Time \cup {NoTime} /\ overtaken \in BOOLEAN /\ events \in 0..MaxEvents

(* A firing in progress has a process, and a slot that has come unless it  *)
(* is a manual run.                                                        *)
Legal(x) ==
  x.step # "idle" => /\ x.home \in Process
                     /\ x.via # "manual" => x.slot \in Time
                     /\ x.step \in {"claim", "mark"} => x.via # "manual"

FiresAtSlot == \A c \in Call : Legal(fire[c])

-----------------------------------------------------------------------------
(* What a firing is at each step, and where its slot lies.                 *)
Formed(x) ==
  /\ x.via = "none" <=> x.step = "idle"
  /\ x.step = "claim" => x.via = "job"
  /\ x.step = "mark" => x.via = "tick"
  /\ x.via = "manual" => x.slot < 0
  /\ x.via \in {"job", "tick"} => 0 <= x.slot /\ x.slot <= x.t

(* A firing past its claim has a call with its slot as key, no other has   *)
(* one; the call ends with an outcome.                                     *)
Called(c) ==
  /\ fire[c].step \in {"idle", "claim"} => call[c].pc = "idle"
  /\ fire[c].step \in {"fire", "threw", "settle", "mark"} =>
       call[c].key = fire[c].slot /\ call[c].home = fire[c].home
  /\ call[c].pc = "out" => call[c].out # "none"

(* A process has firings of one kind, one at a time if it is a tick.       *)
Hosted(c) ==
  /\ fire[c].via = "job" => proc[fire[c].home].mode \in {"queue", "stopped"}
  /\ fire[c].via = "tick" => /\ proc[fire[c].home].mode \in {"interval", "stopped"}
                             /\ proc[fire[c].home].hold = "tick"

Alone(c, d) ==
  fire[c].via = "tick" /\ fire[d].via \in {"job", "tick"} /\ fire[c].home = fire[d].home => c = d

(* A call that ran is on record, and so is the slot of a tick skipped.     *)
Recorded(c) ==
  /\ call[c].out = "ran" => call[c].key \in committed
  /\ fire[c].via = "tick" /\ call[c].out = "skipped" => fire[c].slot \in committed
  /\ fire[c].step = "mark" => fire[c].slot \in committed

(* No two schedules have the same number.                                  *)
Numbered == cron.rev <= events /\ \A c \in Call : fire[c].rev <= events

FiringsOK ==
  /\ Numbered
  /\ \A c \in Call : Formed(fire[c]) /\ Called(c) /\ Hosted(c) /\ Recorded(c)
  /\ \A c, d \in Call : Alone(c, d)

(* The row waits for no slot that is claimed.                              *)
Passed(row, slot) == recoverNextFireAt(row) = NoTime \/ slot < recoverNextFireAt(row)

ClaimsPassed ==
  cron.present /\ ~overtaken =>
    \A c \in Call : Claimant(c) /\ fire[c].rev = cron.rev => Passed(cron, fire[c].slot)

(* The claim of the slot last taken is the one the row shows, so that its  *)
(* firing gives the slot back if it fails.                                 *)
Carries(c) ==
  /\ Claimant(c) /\ fire[c].slot = taken
  /\ cron.present /\ cron.rev = fire[c].rev /\ cron.lastFiredAt = fire[c].t
  /\ call[c].out \notin {"ran", "skipped"}
  /\ \A d \in Call : Claimant(d) /\ fire[d].rev = cron.rev => d = c \/ fire[d].slot < taken

TakenKept ==
  \/ overtaken \/ taken \in committed \cup {NoTime}
  \/ cron.nextFireAt \in 0..taken
  \/ \E c \in Call : Carries(c)

SlotsOK == ClaimsPassed /\ ClaimedByOne /\ TakenKept

SlotInv == TriggersTypeOK /\ OwnTypes /\ FiresAtSlot /\ FiringsOK /\ SlotsOK

-----------------------------------------------------------------------------
(* The assumptions in a form the provers can use.                          *)
LEMMA Bounds ==
  /\ Every \in Nat /\ Every > 0 /\ Period \in Nat /\ Period > 0 /\ MaxTime \in Nat /\ MaxEvents \in Nat
  /\ \A x \in Content : x.kind \in Kind /\ x.first \in Time \cup {NoTime} /\ x.message \in BOOLEAN
  /\ Time \subseteq Key /\ Time \subseteq Nat /\ 0 \in Time
  /\ \A n \in 0..MaxEvents : n < MaxEvents => -(n + 2) \in Key
<1>1. \A n \in 0..MaxEvents : n < MaxEvents => -(n + 2) \in Key
  <2> SUFFICES ASSUME NEW n \in 0..MaxEvents, n < MaxEvents PROVE -(n + 2) \in Key
    BY Zenon
  <2>1. n + 1 \in 1..MaxEvents /\ -(n + 2) = -((n + 1) + 1)
    BY CronAssumption
  <2> QED
    BY <2>1, CronAssumption, Zenon
<1> QED
  BY <1>1, CronAssumption DEF Time

(* The calendar's next slot is a time.                                     *)
LEMMA CalendarType == ASSUME NEW t \in Nat PROVE nextCalendarFireAfter(t) \in Nat
<1>1. t \div Period \in Nat
  BY Bounds
<1>2. \A m \in Nat : (m + 1) * Period \in Nat
  BY Bounds
<1> QED
  BY <1>1, <1>2, Zenon DEF nextCalendarFireAfter

(* So are the other slots.                                                 *)
LEMMA SlotTypes ==
  ASSUME OwnTypes
  PROVE  /\ \A x \in Content : normalizeSchedule(x) \in Nat
         /\ \A kind \in Kind, t \in Nat : advanceNextFireAt(kind, t) \in Nat \cup {NoTime}
         /\ \A row \in Cron : recoverNextFireAt(row) \in Nat \cup {NoTime}
<1>1. now \in Nat
  BY Bounds, Zenon DEF OwnTypes
<1>2. ASSUME NEW x \in Content PROVE normalizeSchedule(x) \in Nat
  <2>1. x.first # NoTime => x.first \in Nat
    BY Bounds, Zenon
  <2> QED
    BY <1>1, <2>1, Bounds, CalendarType DEF normalizeSchedule
<1>3. ASSUME NEW kind \in Kind, NEW t \in Nat PROVE advanceNextFireAt(kind, t) \in Nat \cup {NoTime}
  BY Bounds, CalendarType DEF advanceNextFireAt
<1>4. ASSUME NEW row \in Cron PROVE recoverNextFireAt(row) \in Nat \cup {NoTime}
  <2>1. /\ row.nextFireAt \in Nat \cup {NoTime} /\ row.first \in Nat \cup {NoTime}
        /\ row.lastFiredAt \in Nat \cup {NoTime}
    BY Bounds, Zenon DEF Cron
  <2>2. nextCalendarFireAfter(IF row.lastFiredAt = NoTime THEN 0 ELSE row.lastFiredAt) \in Nat
    BY <2>1, CalendarType, Zenon
  <2>3. row.lastFiredAt # NoTime => row.lastFiredAt + Every \in Nat
    BY <2>1, Bounds
  <2> QED
    BY <2>1, <2>2, <2>3, Zenon DEF recoverNextFireAt
<1> QED
  BY <1>2, <1>3, <1>4, Zenon

(* What the statements of the store make of a row is a row.                *)
LEMMA RowTypes ==
  ASSUME OwnTypes
  PROVE  /\ NoCron \in Cron
         /\ \A row \in Cron, x \in Content : withSchedule(row, x) \in Cron
         /\ \A row \in Cron, on \in BOOLEAN : setEnabled(row, on) \in Cron
         /\ \A row \in Cron, slot, at \in Time : claimed(row, slot, at) \in Cron
<1>1. NoCron \in Cron
  BY Zenon DEF NoCron, Cron, Kind
<1>2. ASSUME NEW row \in Cron, NEW x \in Content PROVE withSchedule(row, x) \in Cron
  <2> DEFINE first == IF x.kind = "calendar" THEN NoTime ELSE normalizeSchedule(x)
             next == normalizeSchedule(x)
             rev == events + 1
  <2>1. x.kind \in Kind /\ first \in Nat \cup {NoTime} /\ next \in Nat \cup {NoTime} /\ rev \in Nat
    BY Bounds, SlotTypes DEF OwnTypes
  <2>2. withSchedule(row, x) =
          [row EXCEPT !.kind = x.kind, !.first = first, !.nextFireAt = next, !.rev = rev]
    BY Zenon DEF withSchedule
  <2> HIDE DEF first, next, rev
  <2> QED
    BY <2>1, <2>2, Zenon DEF Cron
<1>3. ASSUME NEW row \in Cron, NEW on \in BOOLEAN PROVE setEnabled(row, on) \in Cron
  BY Zenon DEF setEnabled, Cron
<1>4. ASSUME NEW row \in Cron, NEW slot \in Time, NEW at \in Time PROVE claimed(row, slot, at) \in Cron
  <2> DEFINE next == advanceNextFireAt(row.kind, advanceFrom(row.kind, slot, at))
  <2>1. row.kind \in Kind /\ advanceFrom(row.kind, slot, at) \in Nat
    BY Bounds, Zenon DEF Cron, advanceFrom
  <2>2. next \in Nat \cup {NoTime}
    BY <2>1, SlotTypes, Zenon
  <2>3. claimed(row, slot, at) = [row EXCEPT !.lastFiredAt = at, !.nextFireAt = next]
    BY Zenon DEF claimed
  <2> HIDE DEF next
  <2> QED
    BY <2>2, <2>3, Zenon DEF Cron
<1> QED
  BY <1>1, <1>2, <1>3, <1>4, Zenon

(* The slots a row waits for are times.                                    *)
LEMMA SlotsAreTimes ==
  ASSUME OwnTypes
  PROVE  Slots(cron) \subseteq Nat /\ \A slot \in Slots(cron) : slot <= now => slot \in Time
<1>1. recoverNextFireAt(cron) \in Nat \cup {NoTime}
  BY SlotTypes, Zenon DEF OwnTypes
<1>2. Slots(cron) \subseteq Nat
  BY <1>1, Zenon DEF Slots
<1> QED
  BY <1>2, Bounds DEF OwnTypes, Time

-----------------------------------------------------------------------------
(* The calendar's next slot is later.                                      *)
LEMMA CalendarLater == ASSUME NEW t \in Nat PROVE nextCalendarFireAfter(t) > t
<1>1. PICK n \in Nat, m \in Nat : n = Period /\ m = t \div Period /\ n > 0
  BY Bounds
<1>2. t < n * m + n
  BY <1>1
<1>3. n * m + n = (m + 1) * n
  BY <1>1
<1> QED
  BY <1>1, <1>2, <1>3, Zenon DEF nextCalendarFireAfter

(* A row whose slot was claimed or marked waits for a later one, if any,   *)
(* even if the schedule it was advanced by is not its own.                 *)
LEMMA Advances ==
  ASSUME NEW row \in Cron, NEW kind \in Kind, NEW slot \in Nat, NEW at \in Nat, slot <= at,
         row.lastFiredAt = at, row.nextFireAt = advanceNextFireAt(kind, advanceFrom(kind, slot, at))
  PROVE  Passed(row, slot)
<1>1. CASE kind # "once"
  <2>1. row.nextFireAt \in Nat /\ slot < row.nextFireAt
    BY <1>1, Bounds, CalendarType, CalendarLater DEF Kind, advanceNextFireAt, advanceFrom
  <2> QED
    BY <2>1 DEF Passed, recoverNextFireAt, NoTime
<1>2. CASE kind = "once"
  <2>1. row.nextFireAt = NoTime /\ row.lastFiredAt # NoTime
    BY <1>2 DEF advanceNextFireAt, NoTime
  <2>2. nextCalendarFireAfter(at) > at /\ at + Every > at
    BY Bounds, CalendarLater
  <2>3. nextCalendarFireAfter(at) \in Nat /\ at + Every \in Nat
    BY Bounds, CalendarType
  <2> QED
    BY <2>1, <2>2, <2>3 DEF Passed, recoverNextFireAt, Cron, Kind
<1> QED
  BY <1>1, <1>2, Zenon

-----------------------------------------------------------------------------
(* A call that is entered is new, or is turned away at the door.           *)
LEMMA Entered ==
  ASSUME TriggersTypeOK, NEW c \in Call, NEW p, NEW k, NEW message, runTrigger(c, p, k, message)
  PROVE  /\ call[c].pc = "idle" /\ committed' = committed
         /\ \A d \in Call : d # c => call'[d] = call[d]
         /\ call'[c].key = k /\ call'[c].home = p
         /\ call'[c].pc = "out" => call'[c].out # "none"
         /\ call'[c].out \in {"none", "denied", "skipped"}
         /\ call'[c].out = "skipped" =>
              \E d \in Call : call[d].home = p /\ call[d].key = k /\ call[d].pc \in Inside
  BY DEF TriggersTypeOK, runTrigger, At, once, InFlight

(* A call that goes on keeps its key, and is on record when it has run.    *)
LEMMA Advanced ==
  ASSUME TriggersTypeOK, NEW c \in Call, triggerStep(c) \/ throw(c)
  PROVE  /\ call[c].pc \in Inside /\ committed \subseteq committed'
         /\ \A d \in Call : d # c => call'[d] = call[d]
         /\ call'[c].key = call[c].key /\ call'[c].home = call[c].home
         /\ call'[c].pc = "out" => call'[c].out # "none"
         /\ \/ call'[c].out = call[c].out
            \/ call'[c].out = "threw"
            \/ call'[c].key \in committed'
<1>1. call \in [Call -> CallState] /\ call[c] \in CallState
  BY Zenon DEF TriggersTypeOK
<1>2. ASSUME NEW pc \in Inside, Goto(c, pc)
      PROVE  /\ \A d \in Call : d # c => call'[d] = call[d]
             /\ call'[c].key = call[c].key /\ call'[c].home = call[c].home
             /\ call'[c].pc = pc /\ call'[c].pc # "out" /\ call'[c].out = call[c].out
  BY <1>1, <1>2, Zenon DEF Goto, CallState, Inside
<1>3. ASSUME NEW out, Finish(c, out)
      PROVE  /\ \A d \in Call : d # c => call'[d] = call[d]
             /\ call'[c].key = call[c].key /\ call'[c].home = call[c].home
             /\ call'[c].pc = "out" /\ call'[c].out = out
  BY <1>1, <1>3, Zenon DEF Finish, CallState
<1>4. CASE isCommitted(c)
  BY <1>2, <1>3, <1>4 DEF isCommitted, At, Inside
<1>5. CASE sendMessage(c) \/ startTurn(c) \/ awaitTurn(c)
  BY <1>2, <1>5, Zenon DEF sendMessage, startTurn, awaitTurn, At, Inside
<1>6. CASE commit(c)
  BY <1>3, <1>6 DEF commit, At, Inside
<1>7. CASE throw(c)
  BY <1>3, <1>7 DEF throw
<1> QED
  BY <1>4, <1>5, <1>6, <1>7, Zenon DEF triggerStep

(* A call that returns is gone.                                            *)
LEMMA Returned ==
  ASSUME TriggersTypeOK, NEW c \in Call, return(c)
  PROVE  /\ committed' = committed /\ \A d \in Call : d # c => call'[d] = call[d]
         /\ call'[c].pc = "idle" /\ call'[c].out = "none"
  BY Zenon DEF TriggersTypeOK, return, NoCall

-----------------------------------------------------------------------------
(* Only one firing changes.                                                *)
LEMMA OthersOK ==
  ASSUME FiringsOK, NEW c \in Call,
         \A d \in Call : d # c => fire'[d] = fire[d] /\ call'[d] = call[d],
         committed \subseteq committed', Numbered',
         \A d \in Call : d # c => Hosted(d)',
         Formed(fire[c])', Called(c)', Hosted(c)', Recorded(c)',
         \/ fire'[c].via \in {"none", "manual"}
         \/ fire'[c].via = fire[c].via /\ fire'[c].home = fire[c].home
         \/ \A d \in Call : d # c => Alone(c, d)' /\ Alone(d, c)'
  PROVE  FiringsOK'
<1>1. ASSUME NEW d \in Call PROVE (Formed(fire[d]) /\ Called(d) /\ Hosted(d) /\ Recorded(d))'
  <2>1. CASE d = c
    BY <2>1, Zenon
  <2>2. CASE d # c
    <3>1. Formed(fire[d]) /\ Called(d) /\ Recorded(d)
      BY Zenon DEF FiringsOK
    <3> QED
      BY <2>2, <3>1, Zenon DEF Formed, Called, Recorded
  <2> QED
    BY <2>1, <2>2, Zenon
<1>2. ASSUME NEW d \in Call, NEW e \in Call PROVE Alone(d, e)'
  <2>1. Alone(d, e)
    BY Zenon DEF FiringsOK
  <2> QED
    BY <2>1 DEF Alone
<1> QED
  BY <1>1, <1>2, Zenon DEF FiringsOK

(* What the slots depend on in the row.                                    *)
RowKept ==
  /\ cron'.present = cron.present /\ cron'.rev = cron.rev /\ cron'.kind = cron.kind
  /\ cron'.first = cron.first /\ cron'.lastFiredAt = cron.lastFiredAt
  /\ cron'.nextFireAt = cron.nextFireAt

(* Nothing is claimed or given back, and what is claimed stays so until it *)
(* is on record.                                                           *)
LEMMA SlotsKept ==
  ASSUME SlotsOK, RowKept, taken' = taken, overtaken' = overtaken, committed \subseteq committed',
         \A c \in Call : Claimant(c)' =>
           /\ Claimant(c) /\ fire'[c].slot = fire[c].slot /\ fire'[c].rev = fire[c].rev,
         \A c \in Call : Carries(c) =>
           \/ taken \in committed'
           \/ Claimant(c)' /\ fire'[c].t = fire[c].t /\ call'[c].out \notin {"ran", "skipped"}
  PROVE  SlotsOK'
<1>1. recoverNextFireAt(cron') = recoverNextFireAt(cron)
  BY Zenon DEF RowKept, recoverNextFireAt
<1>2. ClaimsPassed'
  BY <1>1, Zenon DEF SlotsOK, ClaimsPassed, Passed, RowKept
<1>3. ClaimedByOne'
  BY ZenonT(30) DEF SlotsOK, ClaimedByOne, Claimant
<1>4. TakenKept'
  <2>1. ASSUME NEW c \in Call, Carries(c), taken \notin committed' PROVE Carries(c)'
    BY <2>1, Zenon DEF Carries, RowKept
  <2> QED
    BY <2>1, Zenon DEF SlotsOK, TakenKept, RowKept
<1> QED
  BY <1>2, <1>3, <1>4, Zenon DEF SlotsOK

(* Steps that touch neither firings nor calls nor the slots of the row.    *)
LEMMA QuietStep ==
  ASSUME SlotInv, UNCHANGED <<fire, call, committed, taken, overtaken>>, RowKept, events <= events',
         OwnTypes', \A c \in Call : Hosted(c)'
  PROVE  FiringsOK' /\ SlotsOK'
<1>1. FiringsOK /\ SlotsOK /\ OwnTypes
  BY Zenon DEF SlotInv
<1>2. Numbered'
  <2>1. /\ events \in Nat /\ events' \in Nat /\ cron.rev \in Nat
        /\ \A c \in Call : fire[c].rev \in Nat
    BY <1>1, Bounds DEF OwnTypes, Cron, Fire
  <2>2. cron.rev <= events /\ \A c \in Call : fire[c].rev <= events
    BY <1>1, Zenon DEF FiringsOK, Numbered
  <2> QED
    BY <2>1, <2>2 DEF RowKept, Numbered
<1>3. FiringsOK'
  BY <1>1, <1>2, Zenon DEF FiringsOK, Formed, Called, Recorded, Alone
<1>4. SlotsOK'
  BY <1>1, SlotsKept, Zenon DEF Claimant, Carries
<1> QED
  BY <1>3, <1>4, Zenon

(* A firing of the queue or of a tick is at a process.                     *)
LEMMA AtProcess ==
  ASSUME SlotInv, NEW c \in Call, fire[c].via # "none"
  PROVE  fire[c].home \in Process /\ Legal(fire[c]) /\ fire[c].step # "idle"
  BY Zenon DEF SlotInv, FiresAtSlot, FiringsOK, Formed, Legal

(* The lease and the timers.                                               *)
LEMMA ProcessSlots ==
  ASSUME SlotInv, OwnTypes', NEW p \in Process,
         start(p) \/ stop(p) \/ leaseGuard(p) \/ loseLock(p) \/ reconcile(p)
  PROVE  FiringsOK' /\ SlotsOK'
<1>1. OwnTypes /\ FiresAtSlot
  BY Zenon DEF SlotInv
<1>2. UNCHANGED <<fire, call, committed, cron, taken, overtaken>>
  BY Zenon DEF start, stop, leaseGuard, loseLock, reconcile, triggerVars
<1>3. events <= events'
  BY <1>1, Bounds DEF OwnTypes, start, stop, leaseGuard, loseLock, reconcile, Fault, Event
<1>4. ASSUME NEW q \in Process
      PROVE  /\ proc[q].mode \in {"queue", "stopped"} => proc'[q].mode \in {"queue", "stopped"}
             /\ proc[q].mode \in {"interval", "stopped"} => proc'[q].mode \in {"interval", "stopped"}
             /\ proc[q].hold = "tick" => proc'[q].hold = "tick"
  BY <1>1 DEF OwnTypes, start, stop, leaseGuard, loseLock, reconcile, hold, free
<1>5. ASSUME NEW c \in Call PROVE Hosted(c)'
  <2>1. Hosted(c)
    BY Zenon DEF SlotInv, FiringsOK
  <2> QED
    BY <1>2, <1>4, <2>1, AtProcess, Zenon DEF Hosted
<1> QED
  BY <1>2, <1>3, <1>5, QuietStep, Zenon DEF RowKept

(* The clock and the turns.                                                *)
LEMMA ClockSlots ==
  ASSUME SlotInv, OwnTypes', clock \/ turnEnds \/ UNCHANGED allVars
  PROVE  FiringsOK' /\ SlotsOK'
<1>1. OwnTypes /\ FiresAtSlot
  BY Zenon DEF SlotInv
<1>2. UNCHANGED <<fire, call, committed, cron, taken, overtaken, events, proc>>
  BY Zenon DEF clock, turnEnds, endTurn, cronVars, allVars, triggerVars
<1>3. \A c \in Call : Hosted(c)'
  BY <1>2, Zenon DEF SlotInv, FiringsOK, Hosted
<1>4. events <= events'
  BY <1>1, <1>2, Bounds DEF OwnTypes
<1> QED
  BY <1>2, <1>3, <1>4, QuietStep, Zenon DEF RowKept

(* The clients of the store.                                               *)
LEMMA UserSlots ==
  ASSUME SlotInv, OwnTypes', NEW p \in Process, user(p)
  PROVE  FiringsOK' /\ SlotsOK'
<1>1. OwnTypes /\ FiresAtSlot /\ FiringsOK /\ SlotsOK
  BY Zenon DEF SlotInv
<1>2. UNCHANGED <<fire, call, committed, proc, overtaken>>
  BY Zenon DEF user, triggerVars
<1>3. events \in Nat /\ events' = events + 1
  BY <1>1, Bounds DEF user, Event, OwnTypes
<1>4. \A c \in Call : Hosted(c)'
  BY <1>1, <1>2, Zenon DEF FiringsOK, Hosted
<1>5. CASE (\E on \in BOOLEAN : switch(p, on)) \/ archive(p)
  <2>1. ASSUME NEW on \in BOOLEAN, switch(p, on) PROVE RowKept /\ taken' = taken
    <3>1. cron \in Cron /\ cron' = setEnabled(cron, on) /\ taken' = taken
      BY <1>1, <2>1, Zenon DEF switch, OwnTypes
    <3> QED
      BY <3>1, Zenon DEF setEnabled, RowKept, Cron
  <2>2. ASSUME archive(p) PROVE RowKept /\ taken' = taken
    <3>1. cron \in Cron /\ cron' = [cron EXCEPT !.archived = TRUE, !.enabled = FALSE] /\ taken' = taken
      BY <1>1, <2>2, Zenon DEF archive, OwnTypes
    <3> QED
      BY <3>1, Zenon DEF RowKept, Cron
  <2>3. RowKept /\ taken' = taken
    BY <1>5, <2>1, <2>2, Zenon
  <2> QED
    BY <1>2, <1>3, <1>4, <2>3, QuietStep
<1>6. CASE (\E content \in Content : create(p, content) \/ reschedule(p, content)) \/ delete
  <2>1. taken' = NoTime
    BY <1>6, Zenon DEF create, reschedule, delete
  <2>2. (cron'.present /\ cron'.rev = events + 1) \/ (~cron'.present /\ cron'.rev = 0)
    <3>1. ASSUME NEW content \in Content, create(p, content)
          PROVE  cron'.present /\ cron'.rev = events + 1
      <4> DEFINE row == withSchedule(NoCron, content)
      <4>1. row \in Cron /\ row.rev = events + 1
        BY <1>1, RowTypes, Zenon DEF withSchedule, NoCron
      <4>2. cron' = [row EXCEPT !.present = TRUE, !.enabled = TRUE, !.message = content.message]
        BY <3>1, Zenon DEF create
      <4> HIDE DEF row
      <4> QED
        BY <4>1, <4>2, Zenon DEF Cron
    <3>2. ASSUME NEW content \in Content, reschedule(p, content)
          PROVE  cron'.present /\ cron'.rev = events + 1
      BY <1>1, <3>2, Zenon DEF reschedule, withSchedule, OwnTypes, Cron
    <3>3. CASE delete
      BY <3>3, Zenon DEF delete, NoCron
    <3> QED
      BY <1>6, <3>1, <3>2, <3>3, Zenon
  <2>3. \A c \in Call : fire[c].rev \in Nat /\ fire[c].rev <= events
    BY <1>1, Zenon DEF OwnTypes, Fire, FiringsOK, Numbered
  <2>4. Numbered'
    BY <1>2, <1>3, <2>2, <2>3 DEF Numbered
  <2>5. FiringsOK'
    BY <1>1, <1>2, <1>4, <2>4, Zenon DEF FiringsOK, Formed, Called, Recorded, Alone
  <2>6. ClaimsPassed'
    BY <1>2, <1>3, <2>2, <2>3 DEF ClaimsPassed
  <2>7. ClaimedByOne' /\ TakenKept'
    BY <1>1, <1>2, <2>1, Zenon DEF SlotsOK, ClaimedByOne, TakenKept
  <2> QED
    BY <2>5, <2>6, <2>7, Zenon DEF SlotsOK
<1> QED
  BY <1>5, <1>6, Zenon DEF user

(* A process that dies: its firings, and the claims they had, are gone.    *)
LEMMA CrashSlots ==
  ASSUME SlotInv, NEW p \in Process, crash(p)
  PROVE  FiringsOK' /\ SlotsOK'
<1>1. OwnTypes /\ FiringsOK /\ SlotsOK
  BY Zenon DEF SlotInv
<1>2. UNCHANGED <<cron, overtaken, committed>> /\ events \in Nat /\ events' = events + 1
  BY <1>1, Bounds DEF crash, die, Fault, Event, OwnTypes
<1>3. ASSUME NEW c \in Call
      PROVE  /\ fire'[c] = NoFire \/ (fire[c].home # p /\ fire'[c] = fire[c])
             /\ call'[c] = IF call[c].home = p THEN NoCall ELSE call[c]
             /\ fire[c].home # p => fire'[c] = fire[c]
  BY Zenon DEF crash, die
<1>4. \A q \in Process : q # p => proc'[q] = proc[q]
  BY <1>1, Zenon DEF crash, OwnTypes
<1>5. NoFire.step = "idle" /\ NoFire.via = "none" /\ NoFire.rev = 0
  BY Zenon DEF NoFire
<1>6. NoCall.pc = "idle" /\ NoCall.out = "none"
  BY Zenon DEF NoCall
<1>7. ASSUME NEW c \in Call PROVE (Formed(fire[c]) /\ Called(c) /\ Hosted(c) /\ Recorded(c))'
  <2>1. Formed(fire[c]) /\ Called(c) /\ Hosted(c) /\ Recorded(c)
    BY <1>1, Zenon DEF FiringsOK
  <2>2. call'[c] = NoCall \/ call'[c] = call[c]
    BY <1>3, Zenon
  <2>3. CASE fire'[c] = NoFire
    <3>1. call'[c].pc = "idle"
      <4>1. fire[c].step \in {"idle", "claim", "fire", "threw", "settle", "mark"}
        BY <1>1, Zenon DEF OwnTypes, Fire
      <4>2. CASE fire[c].step \in {"idle", "claim"}
        BY <1>6, <2>1, <2>2, <4>2, Zenon DEF Called
      <4>3. CASE fire[c].step \in {"fire", "threw", "settle", "mark"}
        <5>1. fire[c].home = p /\ call[c].home = p
          BY <1>3, <1>5, <2>1, <2>3, <4>3, Zenon DEF Called
        <5> QED
          BY <1>3, <1>6, <5>1, Zenon
      <4> QED
        BY <4>1, <4>2, <4>3, Zenon
    <3> QED
      BY <1>2, <1>5, <1>6, <2>1, <2>2, <2>3, <3>1, Zenon DEF Formed, Called, Hosted, Recorded
  <2>4. CASE fire[c].home # p /\ fire'[c] = fire[c]
    <3>1. Formed(fire'[c])
      BY <2>1, <2>4, Zenon
    <3>2. Called(c)'
      BY <1>3, <1>6, <2>1, <2>4, Zenon DEF Called
    <3>3. Hosted(c)'
      BY <1>4, <2>1, <2>4, AtProcess, Zenon DEF Hosted
    <3>4. Recorded(c)'
      BY <1>2, <1>6, <2>1, <2>2, <2>4, Zenon DEF Recorded
    <3> QED
      BY <3>1, <3>2, <3>3, <3>4, Zenon
  <2> QED
    BY <1>3, <2>3, <2>4, Zenon
<1>8. ASSUME NEW c \in Call, NEW d \in Call PROVE Alone(c, d)'
  BY <1>1, <1>3, <1>5, Zenon DEF FiringsOK, Alone
<1>9. Numbered'
  <2>1. cron.rev \in Nat /\ cron.rev <= events /\ \A c \in Call : fire[c].rev \in Nat /\ fire[c].rev <= events
    BY <1>1, Zenon DEF OwnTypes, Cron, Fire, FiringsOK, Numbered
  <2> QED
    BY <1>2, <1>3, <1>5, <2>1 DEF Numbered
<1>10. FiringsOK'
  BY <1>7, <1>8, <1>9, Zenon DEF FiringsOK
<1>11. \A c \in Call : Claimant(c)' => Claimant(c) /\ fire'[c] = fire[c]
  BY <1>3, <1>5, Zenon DEF Claimant
<1>12. ClaimsPassed' /\ ClaimedByOne'
  BY <1>1, <1>2, <1>11, ZenonT(30) DEF SlotsOK, ClaimsPassed, ClaimedByOne, Claimant
<1>13. TakenKept'
  <2>1. taken' = NoTime \/ (taken' = taken /\ \A c \in Call : ~(fire[c].home = p /\ fire[c].slot = taken /\ fire[c].via = "job"))
    BY Zenon DEF crash
  <2>2. ASSUME NEW c \in Call, Carries(c), taken' # NoTime PROVE Carries(c)'
    <3>1. fire'[c] = fire[c] /\ fire[c].via = "job" /\ fire[c].step # "claim" /\ fire[c].home # p
      BY <1>3, <2>1, <2>2, Zenon DEF Carries, Claimant
    <3>2. call'[c] = NoCall \/ call'[c] = call[c]
      BY <1>3, Zenon
    <3>3. Claimant(c)' /\ fire'[c].slot = taken' /\ call'[c].out \notin {"ran", "skipped"}
      BY <1>6, <2>1, <2>2, <3>1, <3>2, Zenon DEF Carries, Claimant
    <3>4. \A d \in Call : Claimant(d)' /\ fire'[d].rev = cron.rev => d = c \/ fire'[d].slot < taken'
      BY <1>11, <2>1, <2>2, Zenon DEF Carries
    <3> QED
      BY <1>2, <2>2, <3>1, <3>3, <3>4, Zenon DEF Carries
  <2> QED
    BY <1>1, <1>2, <2>1, <2>2, Zenon DEF SlotsOK, TakenKept
<1> QED
  BY <1>10, <1>12, <1>13, Zenon DEF SlotsOK

(* The row, the claims and the processes stay; a call goes on or fails.    *)
LEMMA CallSlots ==
  ASSUME SlotInv, NEW c \in Call, step(c) \/ fail(c)
  PROVE  FiringsOK' /\ SlotsOK'
<1>1. OwnTypes /\ FiresAtSlot /\ FiringsOK /\ SlotsOK /\ TriggersTypeOK
  BY Zenon DEF SlotInv
<1>2. triggerStep(c) \/ throw(c)
  BY Zenon DEF step, fail
<1>3. UNCHANGED <<fire, cron, proc, taken, overtaken>>
  BY Zenon DEF step, fail, cronVars
<1>4. events \in Nat /\ events' \in Nat /\ events <= events'
  BY <1>1, Bounds DEF step, fail, cronVars, Fault, Event, OwnTypes
<1>5. Numbered'
  BY <1>1, <1>3, <1>4 DEF OwnTypes, Cron, Fire, FiringsOK, Numbered
<1>6. /\ call[c].pc \in Inside /\ committed \subseteq committed'
      /\ \A d \in Call : d # c => call'[d] = call[d]
      /\ call'[c].key = call[c].key /\ call'[c].home = call[c].home
      /\ call'[c].pc = "out" => call'[c].out # "none"
      /\ \/ call'[c].out = call[c].out
         \/ call'[c].out = "threw"
         \/ call'[c].key \in committed'
  BY <1>1, <1>2, Advanced, Zenon
<1>7. Formed(fire[c]) /\ Called(c) /\ Hosted(c) /\ Recorded(c)
  BY <1>1, Zenon DEF FiringsOK
<1>8. fire[c].step \in {"fire", "threw", "settle", "mark"} /\ call[c].key = fire[c].slot
  BY <1>1, <1>6, <1>7, Zenon DEF Called, Inside, OwnTypes, Fire
<1>9. Called(c)' /\ Recorded(c)'
  BY <1>3, <1>6, <1>7, <1>8, Zenon DEF Called, Recorded
<1>10. \A d \in Call : Hosted(d)'
  BY <1>1, <1>3, Zenon DEF FiringsOK, Hosted
<1>11. Formed(fire[c])'
  BY <1>3, <1>7, Zenon
<1>12. FiringsOK'
  BY <1>1, <1>3, <1>5, <1>6, <1>9, <1>10, <1>11, OthersOK, Zenon
<1>13. ASSUME NEW d \in Call, Carries(d), taken \notin committed'
       PROVE  Claimant(d)' /\ fire'[d].t = fire[d].t /\ call'[d].out \notin {"ran", "skipped"}
  <2>1. CASE d # c
    BY <1>3, <1>6, <1>13, <2>1, Zenon DEF Carries, Claimant
  <2>2. CASE d = c
    BY <1>3, <1>6, <1>8, <1>13, <2>2, Zenon DEF Carries, Claimant
  <2> QED
    BY <2>1, <2>2, Zenon
<1>14. SlotsOK'
  BY <1>1, <1>3, <1>6, <1>13, SlotsKept, Zenon DEF RowKept, Claimant
<1> QED
  BY <1>12, <1>14, Zenon

-----------------------------------------------------------------------------
(* A firing starts: it has no claim yet.                                   *)
LEMMA StartSlots ==
  ASSUME SlotInv, OwnTypes', NEW c \in Call, NEW p \in Process,
         (\E slot \in jobs : fireJob(c, p, slot)) \/ tick(c, p) \/ runNow(c, p)
  PROVE  FiringsOK' /\ SlotsOK'
<1>1. OwnTypes /\ FiresAtSlot /\ FiringsOK /\ SlotsOK /\ TriggersTypeOK
  BY Zenon DEF SlotInv
<1>2. UNCHANGED <<cron, taken, overtaken>> /\ fire[c].step = "idle"
  BY Zenon DEF fireJob, tick, runNow
<1>3. cron.rev \in Nat /\ cron.rev <= events /\ events \in Nat /\ now \in Nat
  BY <1>1, Bounds DEF OwnTypes, Cron, FiringsOK, Numbered
<1>4. \A d \in Call : fire[d].rev \in Nat /\ fire[d].rev <= events
  BY <1>1, Zenon DEF OwnTypes, Fire, FiringsOK, Numbered
<1>5. Formed(fire[c]) /\ Called(c) /\ call[c].pc = "idle" /\ fire[c].via = "none"
  BY <1>1, <1>2, Zenon DEF FiringsOK, Formed, Called
<1>6. ASSUME NEW x, fire' = [fire EXCEPT ![c] = x], Formed(x), ~(x.via = "job" /\ x.step # "claim"),
             x.rev \in Nat, x.rev <= events, events' \in Nat, events <= events', committed' = committed,
             \A d \in Call : d # c => call'[d] = call[d] /\ Hosted(d)',
             Called(c)', Hosted(c)', Recorded(c)',
             x.via = "manual" \/ \A d \in Call : d # c => Alone(c, d)' /\ Alone(d, c)'
      PROVE  FiringsOK' /\ SlotsOK'
  <2>1. fire'[c] = x /\ \A d \in Call : d # c => fire'[d] = fire[d]
    BY <1>1, <1>6, Zenon DEF OwnTypes
  <2>2. Numbered'
    BY <1>2, <1>3, <1>4, <1>6, <2>1 DEF Numbered
  <2>3. Formed(fire[c])'
    BY <1>6, <2>1, Zenon
  <2>4. FiringsOK'
    BY <1>1, <1>6, <2>1, <2>2, <2>3, OthersOK, Zenon
  <2>5. \A d \in Call : Claimant(d)' => Claimant(d) /\ fire'[d] = fire[d]
    BY <1>6, <2>1, Zenon DEF Claimant
  <2>6. ASSUME NEW d \in Call, Carries(d)
        PROVE  Claimant(d)' /\ fire'[d].t = fire[d].t /\ call'[d].out \notin {"ran", "skipped"}
    <3>1. d # c
      BY <1>5, <2>6, Zenon DEF Carries, Claimant
    <3> QED
      BY <1>6, <2>1, <2>6, <3>1, Zenon DEF Carries, Claimant
  <2>7. SlotsOK'
    BY <1>1, <1>2, <1>6, <2>5, <2>6, SlotsKept, Zenon DEF RowKept
  <2> QED
    BY <2>4, <2>7, Zenon
<1>7. CASE \E slot \in jobs : fireJob(c, p, slot)
  <2>1. PICK slot \in jobs : fireJob(c, p, slot)
    BY <1>7, Zenon
  <2>2. UNCHANGED <<call, committed, proc, events>> /\ proc[p].mode = "queue" /\ slot \in Nat /\ slot <= now
    BY <1>1, <2>1, Zenon DEF fireJob, triggerVars, OwnTypes
  <2>3. CASE slot \notin Slots(cron)
    <3>1. fire' = fire
      BY <2>1, <2>3, Zenon DEF fireJob
    <3>2. \A d \in Call : Hosted(d)'
      BY <1>1, <2>2, <3>1, Zenon DEF FiringsOK, Hosted
    <3> QED
      BY <1>2, <1>3, <2>2, <3>1, <3>2, QuietStep DEF RowKept
  <2>4. CASE slot \in Slots(cron)
    <3> DEFINE x == [Started(p, "job", slot) EXCEPT !.step = "claim"]
    <3>1. /\ x.step = "claim" /\ x.via = "job" /\ x.home = p /\ x.slot = slot /\ x.t = now
          /\ x.rev = cron.rev
      BY Zenon DEF Started
    <3>2. fire' = [fire EXCEPT ![c] = x]
      BY <2>1, <2>4, Zenon DEF fireJob
    <3> HIDE DEF x
    <3>3. fire'[c] = x /\ \A d \in Call : d # c => fire'[d] = fire[d]
      BY <1>1, <3>2, Zenon DEF OwnTypes
    <3>4. Formed(x)
      BY <2>2, <3>1 DEF Formed
    <3>5. Called(c)' /\ Hosted(c)' /\ Recorded(c)'
      <4>1. call[c].out = "ran" => call[c].key \in committed
        BY <1>1, Zenon DEF FiringsOK, Recorded
      <4> QED
        BY <1>5, <2>2, <3>1, <3>3, <4>1, Zenon DEF Called, Hosted, Recorded
    <3>6. ASSUME NEW d \in Call, d # c PROVE call'[d] = call[d] /\ Hosted(d)' /\ Alone(c, d)' /\ Alone(d, c)'
      <4>1. Hosted(d)
        BY <1>1, Zenon DEF FiringsOK
      <4> QED
        BY <2>2, <3>1, <3>3, <3>6, <4>1, Zenon DEF Hosted, Alone
    <3>7. /\ x.rev \in Nat /\ x.rev <= events /\ events' \in Nat /\ events <= events'
          /\ ~(x.via = "job" /\ x.step # "claim")
      BY <1>3, <2>2, <3>1
    <3>8. /\ \A d \in Call : d # c => call'[d] = call[d] /\ Hosted(d)'
          /\ \A d \in Call : d # c => Alone(c, d)' /\ Alone(d, c)'
      BY <3>6, Zenon
    <3> QED
      BY <1>6, <2>2, <3>2, <3>4, <3>5, <3>7, <3>8, Zenon
  <2> QED
    BY <2>3, <2>4, Zenon
<1>8. CASE tick(c, p)
  <2>1. PICK slot \in Slots(cron) :
          /\ slot <= now /\ fire' = [fire EXCEPT ![c] = Started(p, "tick", slot)]
          /\ runTrigger(c, p, slot, cron.message)
    BY <1>8, Zenon DEF tick
  <2>2. slot \in Nat
    BY <1>1, SlotsAreTimes, Zenon
  <2>3. /\ proc[p].mode = "interval" /\ proc[p].hold = "no" /\ events' = events
        /\ proc'[p].mode = "interval" /\ proc'[p].hold = "tick"
        /\ \A q \in Process : q # p => proc'[q] = proc[q]
    BY <1>1, <1>8, Zenon DEF tick, hold, free, OwnTypes
  <2> DEFINE x == Started(p, "tick", slot)
  <2>4. /\ x.step = "fire" /\ x.via = "tick" /\ x.home = p /\ x.slot = slot /\ x.t = now
        /\ x.rev = cron.rev
    BY Zenon DEF Started
  <2>5. fire' = [fire EXCEPT ![c] = x]
    BY <2>1, Zenon
  <2> HIDE DEF x
  <2>6. fire'[c] = x /\ \A d \in Call : d # c => fire'[d] = fire[d]
    BY <1>1, <2>5, Zenon DEF OwnTypes
  <2>7. /\ committed' = committed
        /\ \A d \in Call : d # c => call'[d] = call[d]
        /\ call'[c].key = slot /\ call'[c].home = p
        /\ call'[c].pc = "out" => call'[c].out # "none"
        /\ call'[c].out \in {"none", "denied", "skipped"}
        /\ call'[c].out = "skipped" =>
             \E d \in Call : call[d].home = p /\ call[d].key = slot /\ call[d].pc \in Inside
    BY <1>1, <2>1, Entered
  <2>8. ASSUME NEW d \in Call, fire[d].via \in {"job", "tick"} PROVE fire[d].home # p \/ fire[d].via = "job"
    <3>1. Hosted(d)
      BY <1>1, Zenon DEF FiringsOK
    <3> QED
      BY <2>3, <2>8, <3>1, Zenon DEF Hosted
  <2>9. ASSUME NEW d \in Call, fire[d].via = "job" PROVE fire[d].home # p
    <3>1. Hosted(d)
      BY <1>1, Zenon DEF FiringsOK
    <3> QED
      BY <2>3, <2>9, <3>1, Zenon DEF Hosted
  <2>10. call'[c].out # "skipped"
    <3> SUFFICES ASSUME NEW d \in Call, call[d].home = p, call[d].key = slot, call[d].pc \in Inside
                 PROVE  FALSE
      BY <2>7, Zenon
    <3>1. Formed(fire[d]) /\ Called(d) /\ fire[d] \in Fire
      BY <1>1, Zenon DEF FiringsOK, OwnTypes
    <3>2. fire[d].step \in {"fire", "threw", "settle", "mark"}
      BY <3>1, Zenon DEF Called, Fire, Inside
    <3>3. fire[d].home = p /\ fire[d].slot = slot
      BY <3>1, <3>2, Zenon DEF Called
    <3>4. fire[d].via \in {"job", "tick"}
      BY <2>2, <3>1, <3>2, <3>3 DEF Formed, Fire
    <3> QED
      BY <2>8, <2>9, <3>3, <3>4, Zenon
  <2>11. Formed(x)
    BY <2>1, <2>2, <2>4 DEF Formed
  <2>12. Called(c)' /\ Hosted(c)' /\ Recorded(c)'
    BY <2>3, <2>4, <2>6, <2>7, <2>10, Zenon DEF Called, Hosted, Recorded
  <2>13. ASSUME NEW d \in Call, d # c PROVE Hosted(d)' /\ Alone(c, d)' /\ Alone(d, c)'
    <3>1. Hosted(d)
      BY <1>1, Zenon DEF FiringsOK
    <3>2. fire[d].via \in {"job", "tick"} => fire[d].home \in Process /\ fire[d].home # p
      BY <2>8, <2>9, AtProcess, Zenon
    <3> QED
      BY <2>3, <2>4, <2>6, <2>13, <3>1, <3>2, ZenonT(30) DEF Hosted, Alone
  <2>14. /\ x.rev \in Nat /\ x.rev <= events /\ events' \in Nat /\ events <= events'
         /\ ~(x.via = "job" /\ x.step # "claim")
    BY <1>3, <2>3, <2>4
  <2>15. /\ \A d \in Call : d # c => call'[d] = call[d] /\ Hosted(d)'
         /\ \A d \in Call : d # c => Alone(c, d)' /\ Alone(d, c)'
    BY <2>7, <2>13, Zenon
  <2> QED
    BY <1>6, <2>5, <2>7, <2>11, <2>12, <2>14, <2>15, Zenon
<1>9. CASE runNow(c, p)
  <2>1. runTrigger(c, p, manualKey, cron.message) /\ UNCHANGED proc /\ events' = events + 1
    BY <1>9, Zenon DEF runNow, Event
  <2>2. manualKey < 0
    BY <1>3 DEF manualKey
  <2> DEFINE x == Started(p, "manual", manualKey)
  <2>3. x.step = "fire" /\ x.via = "manual" /\ x.home = p /\ x.slot = manualKey /\ x.rev = cron.rev
    BY Zenon DEF Started
  <2>4. fire' = [fire EXCEPT ![c] = x]
    BY <1>9, Zenon DEF runNow
  <2> HIDE DEF x
  <2>5. fire'[c] = x /\ \A d \in Call : d # c => fire'[d] = fire[d]
    BY <1>1, <2>4, Zenon DEF OwnTypes
  <2>6. /\ committed' = committed
        /\ \A d \in Call : d # c => call'[d] = call[d]
        /\ call'[c].key = manualKey /\ call'[c].home = p
        /\ call'[c].pc = "out" => call'[c].out # "none"
        /\ call'[c].out \in {"none", "denied", "skipped"}
    BY <1>1, <2>1, Entered
  <2>7. Formed(x)
    BY <2>2, <2>3, Zenon DEF Formed
  <2>8. Called(c)' /\ Hosted(c)' /\ Recorded(c)'
    BY <2>3, <2>5, <2>6, Zenon DEF Called, Hosted, Recorded
  <2>9. \A d \in Call : d # c => Hosted(d)'
    BY <1>1, <2>1, <2>5, Zenon DEF FiringsOK, Hosted
  <2>10. events' \in Nat /\ events <= events'
    BY <1>3, <2>1
  <2> QED
    BY <1>3, <1>6, <2>3, <2>4, <2>6, <2>7, <2>8, <2>9, <2>10, Zenon
<1> QED
  BY <1>7, <1>8, <1>9, Zenon

-----------------------------------------------------------------------------
(* The slot of a firing of the queue or of a tick is a time that has come. *)
LEMMA SlotHasCome ==
  ASSUME SlotInv, NEW c \in Call, fire[c].via \in {"job", "tick"}
  PROVE  fire[c].slot \in Nat /\ fire[c].t \in Nat /\ fire[c].slot <= fire[c].t
<1>1. Legal(fire[c]) /\ fire[c].step # "idle"
  BY AtProcess, Zenon
<1>2. Formed(fire[c]) /\ fire[c] \in Fire
  BY Zenon DEF SlotInv, OwnTypes, FiringsOK
<1> QED
  BY <1>1, <1>2, Bounds, Zenon DEF Legal, Formed, Fire

(* A firing is over.                                                       *)
LEMMA Ended ==
  ASSUME SlotInv, NEW c \in Call, fire' = [fire EXCEPT ![c] = NoFire],
         call'[c].pc = "idle", call'[c] = call[c] \/ call'[c].out = "none",
         committed' = committed, events' \in {events, events + 1}, cron'.rev = cron.rev,
         \A d \in Call : d # c => call'[d] = call[d] /\ Hosted(d)'
  PROVE  /\ FiringsOK'
         /\ \A d \in Call : Claimant(d)' => d # c /\ Claimant(d) /\ fire'[d] = fire[d]
<1>1. fire'[c] = NoFire /\ \A d \in Call : d # c => fire'[d] = fire[d]
  BY Zenon DEF SlotInv, OwnTypes
<1>2. NoFire.step = "idle" /\ NoFire.via = "none" /\ NoFire.rev = 0
  BY Zenon DEF NoFire
<1>3. FiringsOK /\ Recorded(c) /\ events \in Nat
  BY Bounds DEF SlotInv, OwnTypes, FiringsOK
<1>4. Numbered'
  <2>1. cron.rev \in Nat /\ \A d \in Call : fire[d].rev \in Nat
    BY Zenon DEF SlotInv, OwnTypes, Cron, Fire
  <2>2. cron.rev <= events /\ \A d \in Call : fire[d].rev <= events
    BY <1>3, Zenon DEF FiringsOK, Numbered
  <2> QED
    BY <1>1, <1>2, <1>3, <2>1, <2>2 DEF Numbered
<1>5. Formed(fire[c])' /\ Called(c)' /\ Hosted(c)' /\ Recorded(c)'
  BY <1>1, <1>2, <1>3, Zenon DEF Formed, Called, Hosted, Recorded
<1>6. FiringsOK'
  BY <1>1, <1>2, <1>3, <1>4, <1>5, OthersOK, Zenon
<1> QED
  BY <1>1, <1>2, <1>6, Zenon DEF Claimant

(* The claim of a slot: the row waits for it, so no other firing has it,   *)
(* and waits for a later one afterwards.                                   *)
LEMMA ClaimSlots ==
  ASSUME SlotInv, OwnTypes', NEW c \in Call, claimSlot(c)
  PROVE  FiringsOK' /\ SlotsOK'
<1>1. OwnTypes /\ FiresAtSlot /\ FiringsOK /\ SlotsOK /\ TriggersTypeOK
  BY Zenon DEF SlotInv
<1>2. /\ fire[c] \in Fire /\ Formed(fire[c]) /\ Called(c) /\ fire[c].step = "claim" /\ fire[c].via = "job"
      /\ call[c].pc = "idle" /\ ~Claimant(c)
  BY <1>1, Zenon DEF claimSlot, OwnTypes, FiringsOK, Formed, Called, Claimant
<1>3. UNCHANGED <<proc, overtaken, events>>
  BY Zenon DEF claimSlot
<1>4. CASE ~StillWaits(fire[c].slot)
  <2>1. fire' = [fire EXCEPT ![c] = NoFire] /\ UNCHANGED <<call, committed, cron, taken>>
    BY <1>4, Zenon DEF claimSlot, triggerVars
  <2>2. \A d \in Call : d # c => fire'[d] = fire[d]
    BY <1>1, <2>1, Zenon DEF OwnTypes
  <2>3. \A d \in Call : d # c => call'[d] = call[d] /\ Hosted(d)'
    BY <1>1, <1>3, <2>1, <2>2 DEF FiringsOK, Hosted
  <2>4. FiringsOK' /\ \A d \in Call : Claimant(d)' => Claimant(d) /\ fire'[d] = fire[d]
    BY <1>2, <1>3, <2>1, <2>3, Ended, Zenon
  <2>5. ASSUME NEW d \in Call, Carries(d)
        PROVE  Claimant(d)' /\ fire'[d].t = fire[d].t /\ call'[d].out \notin {"ran", "skipped"}
    <3>1. d # c
      BY <1>2, <2>5, Zenon DEF Carries
    <3> QED
      BY <2>1, <2>2, <2>5, <3>1, Zenon DEF Carries, Claimant
  <2> QED
    BY <1>1, <1>3, <2>1, <2>4, <2>5, SlotsKept, Zenon DEF RowKept
<1>5. CASE StillWaits(fire[c].slot)
  <2>1. PICK s \in Nat, t \in Nat : s = fire[c].slot /\ t = fire[c].t /\ s <= t
    BY <1>2, SlotHasCome, Zenon
  <2>2. cron.present /\ recoverNextFireAt(cron) = s
    BY <1>5, <2>1, Zenon DEF StillWaits, Slots, Live
  <2>3. /\ cron' = claimed(cron, s, t)
        /\ fire' = [fire EXCEPT ![c].step = "fire", ![c].rev = cron.rev]
        /\ runTrigger(c, fire[c].home, s, fire[c].message)
        /\ taken' = IF call'[c].out = "skipped" THEN NoTime ELSE s
    BY <1>5, <2>1, Zenon DEF claimSlot
  <2> DEFINE x == [fire[c] EXCEPT !.step = "fire", !.rev = cron.rev]
  <2>4. /\ x.step = "fire" /\ x.via = "job" /\ x.home = fire[c].home /\ x.slot = s /\ x.t = t
        /\ x.rev = cron.rev
    BY <1>2, <2>1, Zenon DEF Fire
  <2>5. fire' = [fire EXCEPT ![c] = x]
    BY <2>3, Zenon
  <2> HIDE DEF x
  <2>6. fire'[c] = x /\ \A d \in Call : d # c => fire'[d] = fire[d]
    BY <1>1, <2>5, Zenon DEF OwnTypes
  <2>7. /\ cron \in Cron /\ cron' \in Cron /\ cron'.present /\ cron'.rev = cron.rev
        /\ cron'.lastFiredAt = t
        /\ cron'.nextFireAt = advanceNextFireAt(cron.kind, advanceFrom(cron.kind, s, t))
    <3>1. cron \in Cron
      BY <1>1, Zenon DEF OwnTypes
    <3> QED
      BY <2>2, <2>3, <3>1, Zenon DEF claimed, Cron, OwnTypes
  <2>8. Passed(cron', s)
    <3>1. cron.kind \in Kind
      BY <2>7, Zenon DEF Cron
    <3> QED
      BY <2>1, <2>7, <3>1, Advances, Zenon
  <2>9. /\ committed' = committed
        /\ \A d \in Call : d # c => call'[d] = call[d]
        /\ call'[c].key = s /\ call'[c].home = fire[c].home
        /\ call'[c].pc = "out" => call'[c].out # "none"
        /\ call'[c].out \in {"none", "denied", "skipped"}
    BY <1>1, <2>3, Entered
  <2>10. FiringsOK'
    <3>1. Numbered'
      BY <1>1, <1>3, <2>4, <2>6, <2>7, Zenon DEF FiringsOK, Numbered
    <3>2. Formed(fire[c])' /\ Called(c)' /\ Recorded(c)'
      BY <2>1, <2>4, <2>6, <2>9 DEF Formed, Called, Recorded
    <3>3. \A d \in Call : Hosted(d)'
      BY <1>1, <1>2, <1>3, <2>4, <2>6 DEF FiringsOK, Hosted
    <3>4. fire'[c].via = fire[c].via /\ fire'[c].home = fire[c].home
      BY <1>2, <2>4, <2>6, Zenon
    <3> QED
      BY <1>1, <2>6, <2>9, <3>1, <3>2, <3>3, <3>4, OthersOK, Zenon
  <2>11. ASSUME NEW d \in Call, ~overtaken, d # c, Claimant(d)', fire'[d].rev = cron.rev
         PROVE  fire[d].slot \in Nat /\ fire[d].slot < s
    <3>1. Claimant(d) /\ fire[d].rev = cron.rev /\ fire[d].via = "job"
      BY <2>6, <2>11, Zenon DEF Claimant
    <3>2. fire[d].slot \in Nat
      BY <3>1, SlotHasCome, Zenon
    <3>3. Passed(cron, fire[d].slot)
      BY <1>1, <2>2, <2>11, <3>1, Zenon DEF SlotsOK, ClaimsPassed
    <3> QED
      BY <2>1, <2>2, <3>2, <3>3 DEF Passed, NoTime
  <2>12. ClaimsPassed'
    <3> SUFFICES ASSUME ~overtaken, NEW d \in Call, Claimant(d)', fire'[d].rev = cron'.rev
                 PROVE  Passed(cron', fire'[d].slot)
      BY <1>3, Zenon DEF ClaimsPassed
    <3>1. CASE d = c
      BY <2>4, <2>6, <2>8, <3>1, Zenon
    <3>2. CASE d # c
      <4>1. fire'[d].slot \in Nat /\ fire'[d].slot < s
        BY <2>6, <2>7, <2>11, <3>2, Zenon
      <4>2. recoverNextFireAt(cron') \in Nat \cup {NoTime}
        BY <1>1, <2>7, SlotTypes, Zenon
      <4> QED
        BY <2>1, <2>8, <4>1, <4>2 DEF Passed, NoTime
    <3> QED
      BY <3>1, <3>2, Zenon
  <2>13. ClaimedByOne'
    <3> SUFFICES ASSUME ~overtaken, NEW d \in Call, NEW e \in Call, d # e, Claimant(d)', Claimant(e)',
                        fire'[d].slot = fire'[e].slot, fire'[d].rev = fire'[e].rev
                 PROVE  FALSE
      BY <1>3, Zenon DEF ClaimedByOne, Claimant
    <3>1. CASE d # c /\ e # c
      BY <1>1, <2>6, <3>1, ZenonT(30) DEF SlotsOK, ClaimedByOne, Claimant
    <3>2. CASE d = c
      <4>1. fire'[e].slot = s /\ fire'[e].rev = cron.rev /\ fire'[e] = fire[e]
        BY <2>4, <2>6, <3>2, Zenon
      <4> QED
        BY <2>1, <2>11, <3>2, <4>1
    <3>3. CASE e = c
      <4>1. fire'[d].slot = s /\ fire'[d].rev = cron.rev /\ fire'[d] = fire[d]
        BY <2>4, <2>6, <3>3, Zenon
      <4> QED
        BY <2>1, <2>11, <3>3, <4>1
    <3> QED
      BY <3>1, <3>2, <3>3, Zenon
  <2>14. TakenKept'
    <3> SUFFICES ASSUME ~overtaken, call'[c].out # "skipped" PROVE Carries(c)'
      BY <1>3, <2>3, Zenon DEF TakenKept
    <3>1. taken' = s
      BY <2>3, Zenon
    <3>2. Claimant(c)' /\ fire'[c].slot = s /\ fire'[c].rev = cron'.rev /\ fire'[c].t = t
      BY <2>4, <2>6, <2>7, Zenon DEF Claimant
    <3>3. \A d \in Call : Claimant(d)' /\ fire'[d].rev = cron'.rev => d = c \/ fire'[d].slot < s
      BY <2>6, <2>7, <2>11, Zenon
    <3> QED
      BY <2>7, <2>9, <3>1, <3>2, <3>3, Zenon DEF Carries
  <2> QED
    BY <2>10, <2>12, <2>13, <2>14, Zenon DEF SlotsOK
<1> QED
  BY <1>4, <1>5, Zenon

(* A firing that fails gives its slot back if the row shows its claim.     *)
LEMMA UnclaimSlots ==
  ASSUME SlotInv, NEW c \in Call, settleJob(c), Failed(c), IsLastClaim(c)
  PROVE  FiringsOK' /\ SlotsOK'
<1>1. OwnTypes /\ FiringsOK /\ SlotsOK /\ TriggersTypeOK /\ fire[c] \in Fire /\ cron \in Cron
  BY Zenon DEF SlotInv, OwnTypes
<1>2. /\ fire[c].via = "job" /\ fire[c].step \in {"settle", "fire", "threw"} /\ UNCHANGED <<proc, taken, events>>
      /\ overtaken' = (overtaken \/ Mistaken(c)) /\ cron' = unclaimSlot(c)
      /\ fire' = [fire EXCEPT ![c] = NoFire] /\ return(c)
  BY Zenon DEF settleJob, Fired, Done
<1>3. /\ committed' = committed /\ \A d \in Call : d # c => call'[d] = call[d]
      /\ call'[c].pc = "idle" /\ call'[c].out = "none"
  BY <1>1, <1>2, Returned, Zenon
<1>4. fire'[c] = NoFire /\ \A d \in Call : d # c => fire'[d] = fire[d]
  BY <1>1, <1>2, Zenon DEF OwnTypes
<1>5. PICK s \in Nat : s = fire[c].slot
  BY <1>2, SlotHasCome, Zenon
<1>6. /\ cron.present /\ cron'.present /\ cron'.rev = cron.rev /\ cron'.nextFireAt = s
      /\ recoverNextFireAt(cron') = s
  BY <1>1, <1>2, <1>5 DEF unclaimSlot, IsLastClaim, Cron, recoverNextFireAt, NoTime
<1>7. \A d \in Call : d # c => Hosted(d)'
  BY <1>1, <1>2, <1>4, ZenonT(30) DEF FiringsOK, Hosted
<1>8. FiringsOK' /\ \A d \in Call : Claimant(d)' => d # c /\ Claimant(d) /\ fire'[d] = fire[d]
  BY <1>2, <1>3, <1>6, <1>7, Ended, Zenon
<1>9. SlotsOK'
  <2> SUFFICES ASSUME ~overtaken, ~Mistaken(c) PROVE SlotsOK'
    BY <1>2, Zenon DEF SlotsOK, ClaimsPassed, ClaimedByOne, TakenKept
  <2>1. cron.rev = fire[c].rev /\ Claimant(c)
    BY <1>2, Zenon DEF Mistaken, Claimant
  <2>2. ASSUME NEW d \in Call, Claimant(d)', fire'[d].rev = cron'.rev
        PROVE  fire'[d].slot \in Nat /\ fire'[d].slot < s
    <3>1. d # c /\ Claimant(d) /\ fire'[d] = fire[d] /\ fire[d].rev = fire[c].rev /\ fire[d].via = "job"
      BY <1>6, <1>8, <2>1, <2>2, Zenon DEF Claimant
    <3>2. fire[d].slot \in Nat
      BY <3>1, SlotHasCome, Zenon
    <3>3. ~(fire[d].slot > s)
      BY <1>5, <3>1, Zenon DEF Mistaken
    <3>4. fire[d].slot # s
      BY <1>1, <1>5, <2>1, <3>1, Zenon DEF SlotsOK, ClaimedByOne, Claimant
    <3> QED
      BY <1>5, <3>1, <3>2, <3>3, <3>4
  <2>3. ClaimsPassed'
    BY <1>6, <2>2, Zenon DEF ClaimsPassed, Passed
  <2>4. ClaimedByOne'
    BY <1>1, <1>8 DEF SlotsOK, ClaimedByOne, Claimant
  <2>5. TakenKept'
    <3>1. Passed(cron, s)
      BY <1>1, <1>5, <1>6, <2>1, Zenon DEF SlotsOK, ClaimsPassed
    <3>2. CASE cron.nextFireAt \in 0..taken
      <4>1. taken \in Nat /\ cron.nextFireAt \in Nat
        BY <1>1, <3>2, Bounds DEF OwnTypes, NoTime, Cron
      <4>2. recoverNextFireAt(cron) = cron.nextFireAt /\ cron.nextFireAt # NoTime
        BY <4>1 DEF recoverNextFireAt, NoTime
      <4>3. s < cron.nextFireAt
        BY <3>1, <4>2, Zenon DEF Passed
      <4> QED
        BY <1>2, <1>6, <3>2, <4>1, <4>3 DEF TakenKept
    <3>3. ASSUME NEW d \in Call, Carries(d) PROVE s \in 0..taken
      <4>1. fire[d].slot \in Nat /\ fire[d].slot = taken
        BY <3>3, SlotHasCome, Zenon DEF Carries, Claimant
      <4>2. d = c \/ s < taken
        BY <1>5, <2>1, <3>3, Zenon DEF Carries
      <4> QED
        BY <1>5, <4>1, <4>2
    <3> QED
      BY <1>1, <1>2, <1>3, <1>6, <3>2, <3>3, Zenon DEF SlotsOK, TakenKept
  <2> QED
    BY <2>3, <2>4, <2>5, Zenon DEF SlotsOK
<1> QED
  BY <1>8, <1>9, Zenon

(* The other ways a firing of the queue ends leave the row alone.          *)
LEMMA SettleJobSlots ==
  ASSUME SlotInv, NEW c \in Call, settleJob(c)
  PROVE  FiringsOK' /\ SlotsOK'
<1> SUFFICES ASSUME ~(Failed(c) /\ IsLastClaim(c)) PROVE FiringsOK' /\ SlotsOK'
  BY UnclaimSlots, Zenon
<1>1. OwnTypes /\ FiringsOK /\ SlotsOK /\ TriggersTypeOK /\ Called(c) /\ Recorded(c)
  BY Zenon DEF SlotInv, FiringsOK
<1>2. /\ fire[c].via = "job" /\ fire[c].step \in {"settle", "fire", "threw"} /\ call[c].pc = "out"
      /\ UNCHANGED <<proc, taken, events>>
      /\ fire' = [fire EXCEPT ![c] = NoFire] /\ return(c)
  BY Zenon DEF settleJob, Fired, Done, At
<1>3. overtaken' = overtaken /\ cron' = cron
  BY <1>1, Zenon DEF settleJob, Mistaken, unclaimSlot, OwnTypes
<1>4. /\ committed' = committed /\ \A d \in Call : d # c => call'[d] = call[d]
      /\ call'[c].pc = "idle" /\ call'[c].out = "none"
  BY <1>1, <1>2, Returned, Zenon
<1>5. fire'[c] = NoFire /\ \A d \in Call : d # c => fire'[d] = fire[d]
  BY <1>1, <1>2, Zenon DEF OwnTypes
<1>6. \A d \in Call : d # c => Hosted(d)'
  BY <1>1, <1>2, <1>5, ZenonT(30) DEF FiringsOK, Hosted
<1>7. FiringsOK' /\ \A d \in Call : Claimant(d)' => d # c /\ Claimant(d) /\ fire'[d] = fire[d]
  BY <1>2, <1>3, <1>4, <1>6, Ended, Zenon
<1>8. ~Carries(c)
  <2>1. CASE Failed(c)
    BY <2>1, Zenon DEF Carries, IsLastClaim
  <2>2. CASE ~Failed(c)
    <3>1. call[c].out \in {"ran", "skipped"}
      BY <1>1, <1>2, <2>2, Zenon DEF Failed, Called, TriggersTypeOK, CallState
    <3> QED
      BY <3>1, Zenon DEF Carries
  <2> QED
    BY <2>1, <2>2, Zenon
<1>9. ASSUME NEW d \in Call, Carries(d)
      PROVE  Claimant(d)' /\ fire'[d].t = fire[d].t /\ call'[d].out \notin {"ran", "skipped"}
  <2>1. d # c
    BY <1>8, <1>9, Zenon
  <2> QED
    BY <1>4, <1>5, <1>9, <2>1, Zenon DEF Carries, Claimant
<1> QED
  BY <1>1, <1>2, <1>3, <1>4, <1>7, <1>9, SlotsKept, Zenon DEF RowKept

(* A one-shot, or a cron whose owner is denied, is switched off.           *)
LEMMA DisableSlots ==
  ASSUME SlotInv, NEW c \in Call, disable(c)
  PROVE  FiringsOK' /\ SlotsOK'
<1>1. OwnTypes /\ FiringsOK /\ SlotsOK /\ fire[c] \in Fire
  BY Zenon DEF SlotInv, OwnTypes
<1>2. /\ fire[c].step = "fire" /\ UNCHANGED <<call, committed, proc, taken, overtaken, events>>
      /\ cron' = setEnabled(cron, FALSE)
  BY Zenon DEF disable, triggerVars
<1>3. RowKept
  BY <1>1, <1>2, Zenon DEF setEnabled, RowKept, OwnTypes, Cron
<1> DEFINE x == [fire[c] EXCEPT !.step = "settle"]
<1>4. /\ x.step = "settle" /\ x.via = fire[c].via /\ x.home = fire[c].home /\ x.slot = fire[c].slot
      /\ x.t = fire[c].t /\ x.rev = fire[c].rev
  BY <1>1, Zenon DEF Fire
<1>5. fire' = [fire EXCEPT ![c] = x]
  BY Zenon DEF disable
<1> HIDE DEF x
<1>6. fire'[c] = x /\ \A d \in Call : d # c => fire'[d] = fire[d]
  BY <1>1, <1>5, Zenon DEF OwnTypes
<1>7. Formed(fire[c]) /\ Called(c) /\ Recorded(c)
  BY <1>1, Zenon DEF FiringsOK
<1>8. Formed(fire[c])' /\ Called(c)' /\ Recorded(c)'
  BY <1>2, <1>4, <1>6, <1>7, Zenon DEF Formed, Called, Recorded
<1>9. \A d \in Call : Hosted(d)'
  BY <1>1, <1>2, <1>4, <1>6 DEF FiringsOK, Hosted
<1>10. Numbered'
  BY <1>1, <1>2, <1>3, <1>4, <1>6, Zenon DEF FiringsOK, Numbered, RowKept
<1>11. fire'[c].via = fire[c].via /\ fire'[c].home = fire[c].home
  BY <1>4, <1>6, Zenon
<1>12. FiringsOK'
  BY <1>1, <1>2, <1>6, <1>8, <1>9, <1>10, <1>11, OthersOK, Zenon
<1>13. ASSUME NEW d \in Call
       PROVE  /\ Claimant(d)' <=> Claimant(d)
              /\ fire'[d].slot = fire[d].slot /\ fire'[d].rev = fire[d].rev /\ fire'[d].t = fire[d].t
  BY <1>2, <1>4, <1>6, Zenon DEF Claimant
<1>14. \A d \in Call : Carries(d) => Claimant(d) /\ call[d].out \notin {"ran", "skipped"}
  BY Zenon DEF Carries
<1>15. SlotsOK'
  BY <1>1, <1>2, <1>3, <1>13, <1>14, SlotsKept, Zenon
<1> QED
  BY <1>12, <1>15, Zenon

(* The lease a tick gives back was its own.                                *)
LEMMA Unheld ==
  ASSUME SlotInv, NEW c \in Call, fire[c].via = "tick", unhold(fire[c].home),
         \A d \in Call : d # c => fire'[d] = fire[d]
  PROVE  \A d \in Call : d # c => Hosted(d)'
<1>1. proc \in [Process -> [mode: {"off", "queue", "interval", "stopped"}, hold: {"no", "tick", "guard"}]]
  BY Zenon DEF SlotInv, OwnTypes
<1>2. PICK p \in Process : p = fire[c].home
  BY AtProcess, Zenon
<1>3. /\ \A q \in Process : proc'[q].mode = proc[q].mode
      /\ \A q \in Process : q # p => proc'[q].hold = proc[q].hold
  BY <1>1, <1>2, ZenonT(30) DEF unhold
<1> SUFFICES ASSUME NEW d \in Call, d # c PROVE Hosted(d)'
  BY Zenon
<1>4. Hosted(d) /\ Alone(c, d)
  BY Zenon DEF SlotInv, FiringsOK
<1>5. fire[d].via \in {"job", "tick"} => fire[d].home \in Process /\ fire[d].home # p
  BY <1>2, <1>4, AtProcess, Zenon DEF Alone
<1> QED
  BY <1>3, <1>4, <1>5, ZenonT(30) DEF Hosted

(* A tick whose firing failed ends, any other is on record and to be       *)
(* marked.                                                                 *)
LEMMA SettleTickSlots ==
  ASSUME SlotInv, NEW c \in Call, settleTick(c)
  PROVE  FiringsOK' /\ SlotsOK'
<1>1. OwnTypes /\ FiringsOK /\ SlotsOK /\ TriggersTypeOK /\ fire[c] \in Fire
  BY Zenon DEF SlotInv, OwnTypes
<1>2. /\ fire[c].via = "tick" /\ fire[c].step \in {"settle", "fire", "threw"} /\ call[c].pc = "out"
      /\ UNCHANGED <<cron, taken, overtaken, events>>
  BY Zenon DEF settleTick, Fired, At
<1>3. Formed(fire[c]) /\ Called(c) /\ Recorded(c)
  BY <1>1, Zenon DEF FiringsOK
<1>4. ASSUME \A d \in Call : d # c => fire'[d] = fire[d] /\ call'[d] = call[d],
             committed' = committed, fire'[c].via # "job"
      PROVE  SlotsOK'
  <2>1. ~Carries(c)
    BY <1>2, Zenon DEF Carries, Claimant
  <2>2. ASSUME NEW d \in Call, Carries(d)
        PROVE  Claimant(d)' /\ fire'[d].t = fire[d].t /\ call'[d].out \notin {"ran", "skipped"}
    <3>1. d # c
      BY <2>1, <2>2, Zenon
    <3> QED
      BY <1>4, <2>2, <3>1, Zenon DEF Carries, Claimant
  <2>3. \A d \in Call : Claimant(d)' => Claimant(d) /\ fire'[d] = fire[d]
    BY <1>4, Zenon DEF Claimant
  <2> QED
    BY <1>1, <1>2, <1>4, <2>2, <2>3, SlotsKept, Zenon DEF RowKept
<1>5. CASE Failed(c) \/ ~cron.present
  <2>1. fire' = [fire EXCEPT ![c] = NoFire] /\ return(c) /\ unhold(fire[c].home)
    BY <1>5, Zenon DEF settleTick, Done
  <2>2. fire'[c] = NoFire /\ \A d \in Call : d # c => fire'[d] = fire[d]
    BY <1>1, <2>1, Zenon DEF OwnTypes
  <2>3. /\ committed' = committed /\ \A d \in Call : d # c => call'[d] = call[d]
        /\ call'[c].pc = "idle" /\ call'[c].out = "none"
    BY <1>1, <2>1, Returned, Zenon
  <2>4. \A d \in Call : d # c => Hosted(d)'
    BY <1>2, <2>1, <2>2, Unheld, Zenon
  <2>5. FiringsOK'
    BY <1>2, <2>1, <2>3, <2>4, Ended, Zenon
  <2>6. fire'[c].via # "job"
    BY <2>2 DEF NoFire
  <2> QED
    BY <1>4, <2>2, <2>3, <2>5, <2>6, Zenon
<1>6. CASE ~(Failed(c) \/ ~cron.present)
  <2> DEFINE x == [fire[c] EXCEPT !.step = "mark", !.kind = cron.kind]
  <2>1. fire' = [fire EXCEPT ![c] = x] /\ UNCHANGED <<call, committed, proc>>
    BY <1>6, Zenon DEF settleTick, triggerVars
  <2>2. /\ x.step = "mark" /\ x.via = "tick" /\ x.home = fire[c].home /\ x.slot = fire[c].slot
        /\ x.t = fire[c].t /\ x.rev = fire[c].rev
    BY <1>1, <1>2, Zenon DEF Fire
  <2> HIDE DEF x
  <2>3. fire'[c] = x /\ \A d \in Call : d # c => fire'[d] = fire[d]
    BY <1>1, <2>1, Zenon DEF OwnTypes
  <2>4. fire[c].slot \in committed
    <3>1. call[c].out \in {"ran", "skipped"}
      BY <1>1, <1>2, <1>3, <1>6, Zenon DEF Failed, Called, TriggersTypeOK, CallState
    <3> QED
      BY <1>2, <1>3, <3>1, Zenon DEF Recorded, Called
  <2>5. Formed(fire[c])' /\ Called(c)' /\ Recorded(c)'
    BY <1>2, <1>3, <2>1, <2>2, <2>3, <2>4 DEF Formed, Called, Recorded
  <2>6. \A d \in Call : Hosted(d)'
    BY <1>1, <1>2, <2>1, <2>2, <2>3 DEF FiringsOK, Hosted
  <2>7. Numbered'
    BY <1>1, <1>2, <2>2, <2>3, Zenon DEF FiringsOK, Numbered
  <2>8. fire'[c].via = fire[c].via /\ fire'[c].home = fire[c].home /\ fire'[c].via # "job"
    BY <1>2, <2>2, <2>3, Zenon
  <2>9. FiringsOK'
    BY <1>1, <2>1, <2>3, <2>5, <2>6, <2>7, <2>8, OthersOK, Zenon
  <2> QED
    BY <1>4, <2>1, <2>3, <2>8, <2>9, Zenon
<1> QED
  BY <1>5, <1>6, Zenon

(* A tick that marks its slot: unless the row has moved on, that is the    *)
(* slot it waits for, and no firing of the queue has claimed it.           *)
LEMMA MarkSlots ==
  ASSUME SlotInv, OwnTypes', NEW c \in Call, markFired(c)
  PROVE  FiringsOK' /\ SlotsOK'
<1>1. /\ OwnTypes /\ FiresAtSlot /\ FiringsOK /\ SlotsOK /\ TriggersTypeOK
      /\ fire[c] \in Fire /\ cron \in Cron
  BY Zenon DEF SlotInv, OwnTypes
<1>2. /\ fire[c].step = "mark" /\ taken' = fire[c].slot /\ UNCHANGED events
      /\ fire' = [fire EXCEPT ![c] = NoFire] /\ return(c) /\ unhold(fire[c].home)
      /\ overtaken' = (overtaken \/ recoverNextFireAt(cron) # fire[c].slot)
  BY Zenon DEF markFired, Done
<1>3. Formed(fire[c]) /\ Recorded(c)
  BY <1>1, Zenon DEF FiringsOK
<1>4. fire[c].via = "tick" /\ fire[c].slot \in committed
  BY <1>2, <1>3, Zenon DEF Formed, Recorded
<1>5. PICK s \in Nat, t \in Nat : s = fire[c].slot /\ t = fire[c].t /\ s <= t
  BY <1>4, SlotHasCome, Zenon
<1>6. fire'[c] = NoFire /\ \A d \in Call : d # c => fire'[d] = fire[d]
  BY <1>1, <1>2, Zenon DEF OwnTypes
<1>7. /\ committed' = committed /\ \A d \in Call : d # c => call'[d] = call[d]
      /\ call'[c].pc = "idle" /\ call'[c].out = "none"
  BY <1>1, <1>2, Returned, Zenon
<1>8. /\ cron'.present = cron.present /\ cron'.rev = cron.rev
      /\ cron.present => /\ cron'.lastFiredAt = t
                         /\ cron'.nextFireAt =
                              advanceNextFireAt(fire[c].kind, advanceFrom(fire[c].kind, s, t))
  <2> DEFINE next == advanceNextFireAt(fire[c].kind, advanceFrom(fire[c].kind, s, t))
             row == [cron EXCEPT !.kind = fire[c].kind]
  <2>1. row \in Cron /\ row.present = cron.present /\ row.rev = cron.rev /\ row.kind = fire[c].kind
    BY <1>1, Zenon DEF Cron, Fire
  <2>2. cron.present => cron' = [claimed(row, s, t) EXCEPT !.kind = cron.kind]
    BY <1>5, Zenon DEF markFired
  <2> HIDE DEF row
  <2>3. claimed(row, s, t) = [row EXCEPT !.lastFiredAt = t, !.nextFireAt = next]
    BY <2>1, Zenon DEF claimed
  <2> HIDE DEF next
  <2>4. CASE cron.present
    BY <2>1, <2>2, <2>3, <2>4, Zenon DEF Cron, next
  <2>5. CASE ~cron.present
    BY <2>5, Zenon DEF markFired
  <2> QED
    BY <2>4, <2>5, Zenon
<1>9. \A d \in Call : d # c => Hosted(d)'
  BY <1>2, <1>4, <1>6, Unheld, Zenon
<1>10. FiringsOK' /\ \A d \in Call : Claimant(d)' => d # c /\ Claimant(d) /\ fire'[d] = fire[d]
  BY <1>2, <1>7, <1>8, <1>9, Ended, Zenon
<1>11. TakenKept'
  BY <1>2, <1>4, <1>7, Zenon DEF TakenKept
<1>12. ClaimedByOne'
  <2>1. ~overtaken' => ~overtaken
    BY <1>2, Zenon
  <2> QED
    BY <1>1, <1>10, <2>1 DEF SlotsOK, ClaimedByOne, Claimant
<1>13. ClaimsPassed'
  <2> SUFFICES ASSUME cron'.present, ~overtaken', NEW d \in Call, Claimant(d)', fire'[d].rev = cron'.rev
               PROVE  Passed(cron', fire'[d].slot)
    BY Zenon DEF ClaimsPassed
  <2>1. cron.present /\ ~overtaken /\ recoverNextFireAt(cron) = s
    BY <1>2, <1>5, <1>8, Zenon
  <2>2. Claimant(d) /\ fire'[d] = fire[d] /\ fire[d].rev = cron.rev /\ fire[d].via = "job"
    BY <1>8, <1>10, Zenon DEF Claimant
  <2>3. fire[d].slot \in Nat
    BY <2>2, SlotHasCome, Zenon
  <2>4. Passed(cron, fire[d].slot)
    BY <1>1, <2>1, <2>2, Zenon DEF SlotsOK, ClaimsPassed
  <2>5. fire[d].slot < s
    BY <1>5, <2>1, <2>3, <2>4 DEF Passed, NoTime
  <2>6. cron' \in Cron /\ fire[c].kind \in Kind
    BY <1>1, Zenon DEF OwnTypes, Fire
  <2>7. Passed(cron', s)
    BY <1>5, <1>8, <2>1, <2>6, Advances, Zenon
  <2>8. recoverNextFireAt(cron') \in Nat \cup {NoTime}
    BY <1>1, <2>6, SlotTypes, Zenon
  <2> QED
    BY <1>5, <2>2, <2>3, <2>5, <2>7, <2>8 DEF Passed, NoTime
<1> QED
  BY <1>10, <1>11, <1>12, <1>13, Zenon DEF SlotsOK

(* A manual run ends.                                                      *)
LEMMA ManualSlots ==
  ASSUME SlotInv, NEW c \in Call, settleManual(c)
  PROVE  FiringsOK' /\ SlotsOK'
<1>1. OwnTypes /\ FiringsOK /\ SlotsOK /\ TriggersTypeOK
  BY Zenon DEF SlotInv
<1>2. /\ fire[c].via = "manual" /\ UNCHANGED <<cron, proc, taken, overtaken, events>>
      /\ fire' = [fire EXCEPT ![c] = NoFire] /\ return(c)
  BY Zenon DEF settleManual, Fired, Done
<1>3. fire'[c] = NoFire /\ \A d \in Call : d # c => fire'[d] = fire[d]
  BY <1>1, <1>2, Zenon DEF OwnTypes
<1>4. /\ committed' = committed /\ \A d \in Call : d # c => call'[d] = call[d]
      /\ call'[c].pc = "idle" /\ call'[c].out = "none"
  BY <1>1, <1>2, Returned, Zenon
<1>5. \A d \in Call : d # c => Hosted(d)'
  BY <1>1, <1>2, <1>3 DEF FiringsOK, Hosted
<1>6. FiringsOK' /\ \A d \in Call : Claimant(d)' => d # c /\ Claimant(d) /\ fire'[d] = fire[d]
  BY <1>2, <1>4, <1>5, Ended, Zenon
<1>7. ASSUME NEW d \in Call, Carries(d)
      PROVE  Claimant(d)' /\ fire'[d].t = fire[d].t /\ call'[d].out \notin {"ran", "skipped"}
  <2>1. d # c
    BY <1>2, <1>7, Zenon DEF Carries, Claimant
  <2> QED
    BY <1>3, <1>4, <1>7, <2>1, Zenon DEF Carries, Claimant
<1> QED
  BY <1>1, <1>2, <1>4, <1>6, <1>7, SlotsKept, Zenon DEF RowKept

-----------------------------------------------------------------------------
(* A claim that rejects leaves nothing to be kept if it was written, and   *)
(* the row alone otherwise.                                                *)
LEMMA ClaimThrowsSlots ==
  ASSUME SlotInv, OwnTypes', NEW c \in Call, claimThrows(c)
  PROVE  FiringsOK' /\ SlotsOK'
<1>1. OwnTypes /\ FiringsOK /\ SlotsOK /\ TriggersTypeOK
  BY Zenon DEF SlotInv
<1>2. /\ fire[c].step = "claim" /\ fire[c].via = "job" /\ call[c].pc = "idle" /\ ~Claimant(c)
      /\ fire' = [fire EXCEPT ![c] = NoFire] /\ UNCHANGED <<call, committed, proc, overtaken>>
      /\ events' \in {events, events + 1}
  BY <1>1, Zenon DEF claimThrows, FiringsOK, Formed, Called, Claimant, triggerVars, Fault, Event
<1>3. \A d \in Call : d # c => fire'[d] = fire[d]
  BY <1>1, <1>2, Zenon DEF OwnTypes
<1>4. \A d \in Call : d # c => call'[d] = call[d] /\ Hosted(d)'
  BY <1>1, <1>2, <1>3 DEF FiringsOK, Hosted
<1>5. cron'.rev = cron.rev
  BY <1>1, Zenon DEF claimThrows, claimed, OwnTypes, Cron
<1>6. FiringsOK' /\ \A d \in Call : Claimant(d)' => Claimant(d) /\ fire'[d] = fire[d]
  BY <1>2, <1>4, <1>5, Ended, Zenon
<1>7. CASE UNCHANGED <<cron, taken>>
  <2>1. ASSUME NEW d \in Call, Carries(d)
        PROVE  Claimant(d)' /\ fire'[d].t = fire[d].t /\ call'[d].out \notin {"ran", "skipped"}
    <3>1. d # c
      BY <1>2, <2>1, Zenon DEF Carries
    <3> QED
      BY <1>2, <1>3, <2>1, <3>1, Zenon DEF Carries, Claimant
  <2> QED
    BY <1>1, <1>2, <1>6, <1>7, <2>1, SlotsKept, Zenon DEF RowKept
<1>8. CASE /\ StillWaits(fire[c].slot)
           /\ cron' = claimed(cron, fire[c].slot, fire[c].t)
           /\ taken' = NoTime
  <2>1. PICK s \in Nat, t \in Nat : s = fire[c].slot /\ t = fire[c].t /\ s <= t
    BY <1>2, SlotHasCome, Zenon
  <2>2. cron.present /\ recoverNextFireAt(cron) = s
    BY <1>8, <2>1, Zenon DEF StillWaits, Slots, Live
  <2>3. /\ cron.kind \in Kind /\ cron'.lastFiredAt = t
        /\ cron'.nextFireAt = advanceNextFireAt(cron.kind, advanceFrom(cron.kind, s, t))
    <3>1. cron \in Cron
      BY <1>1, Zenon DEF OwnTypes
    <3> QED
      BY <1>8, <2>1, <3>1, Zenon DEF claimed, Cron
  <2>4. cron' \in Cron
    BY Zenon DEF OwnTypes
  <2>5. Passed(cron', s) /\ recoverNextFireAt(cron') \in Nat \cup {NoTime}
    BY <1>1, <2>1, <2>3, <2>4, Advances, SlotTypes, Zenon
  <2>6. ASSUME NEW d \in Call, ~overtaken, Claimant(d)', fire'[d].rev = cron'.rev
        PROVE  Passed(cron', fire'[d].slot)
    <3>1. Claimant(d) /\ fire'[d] = fire[d] /\ fire[d].rev = cron.rev /\ fire[d].via = "job"
      BY <1>5, <1>6, <2>6, Zenon DEF Claimant
    <3>2. fire[d].slot \in Nat
      BY <3>1, SlotHasCome, Zenon
    <3>3. Passed(cron, fire[d].slot)
      BY <1>1, <2>2, <2>6, <3>1, Zenon DEF SlotsOK, ClaimsPassed
    <3>4. fire[d].slot < s
      BY <2>1, <2>2, <3>2, <3>3 DEF Passed, NoTime
    <3> QED
      BY <2>1, <2>5, <3>1, <3>2, <3>4 DEF Passed, NoTime
  <2>7. ClaimsPassed'
    BY <1>2, <2>6, Zenon DEF ClaimsPassed
  <2>8. ClaimedByOne'
    BY <1>1, <1>2, <1>6 DEF SlotsOK, ClaimedByOne, Claimant
  <2>9. TakenKept'
    BY <1>8, Zenon DEF TakenKept
  <2> QED
    BY <1>6, <2>7, <2>8, <2>9, Zenon DEF SlotsOK
<1> QED
  BY <1>7, <1>8, Zenon DEF claimThrows

(* What fire() does after the call rejects: the firing has failed.         *)
LEMMA FireThrowsSlots ==
  ASSUME SlotInv, NEW c \in Call, fireThrows(c)
  PROVE  FiringsOK' /\ SlotsOK'
<1>1. OwnTypes /\ FiringsOK /\ SlotsOK /\ fire[c] \in Fire
  BY Zenon DEF SlotInv, OwnTypes
<1>2. /\ fire[c].step = "fire" /\ UNCHANGED <<call, committed, cron, proc, taken, overtaken>>
      /\ events' = events + 1
  BY Zenon DEF fireThrows, triggerVars, Fault, Event
<1> DEFINE x == [fire[c] EXCEPT !.step = "threw"]
<1>3. /\ x.step = "threw" /\ x.via = fire[c].via /\ x.home = fire[c].home /\ x.slot = fire[c].slot
      /\ x.t = fire[c].t /\ x.rev = fire[c].rev
  BY <1>1, Zenon DEF Fire
<1>4. fire' = [fire EXCEPT ![c] = x]
  BY Zenon DEF fireThrows
<1> HIDE DEF x
<1>5. fire'[c] = x /\ \A d \in Call : d # c => fire'[d] = fire[d]
  BY <1>1, <1>4, Zenon DEF OwnTypes
<1>6. Formed(fire[c]) /\ Called(c) /\ Recorded(c)
  BY <1>1, Zenon DEF FiringsOK
<1>7. Formed(fire[c])' /\ Called(c)' /\ Recorded(c)'
  BY <1>2, <1>3, <1>5, <1>6, Zenon DEF Formed, Called, Recorded
<1>8. \A d \in Call : Hosted(d)'
  BY <1>1, <1>2, <1>3, <1>5 DEF FiringsOK, Hosted
<1>9. Numbered'
  <2>1. cron.rev \in Nat /\ events \in Nat /\ \A d \in Call : fire[d].rev \in Nat /\ fire'[d].rev = fire[d].rev
    BY <1>1, <1>3, <1>5, Bounds DEF OwnTypes, Cron, Fire
  <2>2. cron.rev <= events /\ \A d \in Call : fire[d].rev <= events
    BY <1>1, Zenon DEF FiringsOK, Numbered
  <2> QED
    BY <1>2, <2>1, <2>2 DEF Numbered
<1>10. fire'[c].via = fire[c].via /\ fire'[c].home = fire[c].home
  BY <1>3, <1>5, Zenon
<1>11. FiringsOK'
  BY <1>1, <1>2, <1>5, <1>7, <1>8, <1>9, <1>10, OthersOK, Zenon
<1>12. ASSUME NEW d \in Call
       PROVE  /\ Claimant(d)' <=> Claimant(d)
              /\ fire'[d].slot = fire[d].slot /\ fire'[d].rev = fire[d].rev /\ fire'[d].t = fire[d].t
  BY <1>2, <1>3, <1>5, Zenon DEF Claimant
<1>13. \A d \in Call : Carries(d) => Claimant(d) /\ call[d].out \notin {"ran", "skipped"}
  BY Zenon DEF Carries
<1>14. SlotsOK'
  BY <1>1, <1>2, <1>12, <1>13, SlotsKept, Zenon DEF RowKept
<1> QED
  BY <1>11, <1>14, Zenon

(* The end of a firing rejects: the claim it could not give back is the    *)
(* last one taken, which then need not be kept, or one the row has moved   *)
(* on from.                                                                *)
LEMMA SettleThrowsSlots ==
  ASSUME SlotInv, NEW c \in Call, settleThrows(c)
  PROVE  FiringsOK' /\ SlotsOK'
<1>1. OwnTypes /\ FiringsOK /\ SlotsOK /\ TriggersTypeOK /\ Called(c) /\ Formed(fire[c])
  BY Zenon DEF SlotInv, FiringsOK
<1>2. /\ fire' = [fire EXCEPT ![c] = NoFire] /\ return(c) /\ UNCHANGED <<cron, overtaken>>
      /\ events' \in {events, events + 1}
  BY Zenon DEF settleThrows, Done, Fault, Event
<1>3. /\ committed' = committed /\ \A d \in Call : d # c => call'[d] = call[d]
      /\ call'[c].pc = "idle" /\ call'[c].out = "none"
  BY <1>1, <1>2, Returned, Zenon
<1>4. fire'[c] = NoFire /\ \A d \in Call : d # c => fire'[d] = fire[d]
  BY <1>1, <1>2, Zenon DEF OwnTypes
<1>5. \/ fire[c].via = "job" /\ UNCHANGED proc
      \/ fire[c].via = "tick" /\ unhold(fire[c].home) /\ taken' = taken
  BY <1>1, Zenon DEF settleThrows, Fired, Formed
<1>6. \A d \in Call : d # c => Hosted(d)'
  <2>1. CASE fire[c].via = "job" /\ UNCHANGED proc
    BY <1>1, <1>4, <2>1, ZenonT(30) DEF FiringsOK, Hosted
  <2>2. CASE fire[c].via = "tick" /\ unhold(fire[c].home)
    BY <1>4, <2>2, Unheld, Zenon
  <2> QED
    BY <1>5, <2>1, <2>2, Zenon
<1>7. FiringsOK' /\ \A d \in Call : Claimant(d)' => d # c /\ Claimant(d) /\ fire'[d] = fire[d]
  BY <1>2, <1>3, <1>6, Ended, Zenon
<1>8. CASE taken' = NoTime
  <2>1. ClaimsPassed'
    BY <1>1, <1>2, <1>7, Zenon DEF SlotsOK, ClaimsPassed
  <2>2. ClaimedByOne'
    BY <1>1, <1>2, <1>7 DEF SlotsOK, ClaimedByOne, Claimant
  <2>3. TakenKept'
    BY <1>8, Zenon DEF TakenKept
  <2> QED
    BY <1>7, <2>1, <2>2, <2>3, Zenon DEF SlotsOK
<1>9. CASE taken' # NoTime
  <2>1. taken' = taken
    BY <1>9, Zenon DEF settleThrows
  <2>2. ~Carries(c)
    <3> SUFFICES ASSUME Carries(c) PROVE FALSE
      BY Zenon
    <3>1. /\ fire[c].via = "job" /\ fire[c].slot = taken /\ IsLastClaim(c) /\ cron.rev = fire[c].rev
          /\ call[c].out \notin {"ran", "skipped"}
      BY Zenon DEF Carries, Claimant, IsLastClaim
    <3>2. Fired(c, "job")
      BY <1>1, <3>1, Zenon DEF settleThrows, Formed, Fired
    <3>3. Failed(c)
      BY <1>1, <3>1, <3>2, Zenon DEF Fired, At, Failed, Called, TriggersTypeOK, CallState
    <3>4. ~Mistaken(c)
      <4>1. fire[c].slot \in Nat
        BY <3>1, SlotHasCome, Zenon
      <4> SUFFICES ASSUME NEW d \in Call, Claimant(d), fire[d].rev = fire[c].rev, fire[d].slot > fire[c].slot
                   PROVE  FALSE
        BY <3>1, Zenon DEF Mistaken
      <4>2. fire[d].slot \in Nat
        BY SlotHasCome, Zenon DEF Claimant
      <4>3. d = c \/ fire[d].slot < fire[c].slot
        BY <3>1, Zenon DEF Carries
      <4> QED
        BY <4>1, <4>2, <4>3
    <3>5. fire[c].via # "tick" /\ fire[c].step # "mark"
      BY <1>1, <3>1, Zenon DEF Formed
    <3> QED
      BY <1>9, <3>1, <3>3, <3>4, <3>5, Zenon DEF settleThrows, Fired
  <2>3. ASSUME NEW d \in Call, Carries(d)
        PROVE  Claimant(d)' /\ fire'[d].t = fire[d].t /\ call'[d].out \notin {"ran", "skipped"}
    <3>1. d # c
      BY <2>2, <2>3, Zenon
    <3> QED
      BY <1>3, <1>4, <2>3, <3>1, Zenon DEF Carries, Claimant
  <2> QED
    BY <1>1, <1>2, <1>3, <1>7, <2>1, <2>3, SlotsKept, Zenon DEF RowKept
<1> QED
  BY <1>8, <1>9, Zenon

-----------------------------------------------------------------------------
(* Every step keeps it.                                                    *)
LEMMA NextSlots ==
  ASSUME SlotInv, OwnTypes', [CronNext]_allVars
  PROVE  FiringsOK' /\ SlotsOK'
<1>1. ASSUME NEW c \in Call, proceed(c) \/ fail(c) PROVE FiringsOK' /\ SlotsOK'
  BY <1>1, ClaimSlots, CallSlots, DisableSlots, SettleJobSlots, SettleTickSlots, MarkSlots, ManualSlots, Zenon
     DEF proceed
<1>2. ASSUME NEW c \in Call, claimThrows(c) \/ fireThrows(c) \/ settleThrows(c) PROVE FiringsOK' /\ SlotsOK'
  BY <1>2, ClaimThrowsSlots, FireThrowsSlots, SettleThrowsSlots, Zenon
<1> QED
  BY <1>1, <1>2, ProcessSlots, CrashSlots, StartSlots, UserSlots, ClockSlots, Zenon DEF CronNext

(* Nothing is claimed at the start.                                        *)
LEMMA InitSlots ==
  ASSUME CronInit
  PROVE  FiringsOK /\ SlotsOK
<1>1. \A c \in Call : fire[c] = NoFire /\ call[c] = NoCall
  BY Zenon DEF CronInit, TriggersInit
<1>2. NoFire.step = "idle" /\ NoFire.via = "none" /\ NoFire.rev = 0
  BY Zenon DEF NoFire
<1>3. NoCall.pc = "idle" /\ NoCall.out = "none"
  BY Zenon DEF NoCall
<1>4. cron.rev = 0 /\ events = 0 /\ taken = NoTime
  <2>1. NoCron.rev = 0 /\ \A x \in Content : OldRow(x).rev = 0
    BY Zenon DEF NoCron, OldRow
  <2> QED
    BY <2>1 DEF CronInit
<1>5. Numbered
  BY <1>1, <1>2, <1>4 DEF Numbered
<1>6. FiringsOK
  BY <1>1, <1>2, <1>3, <1>5, Zenon DEF FiringsOK, Formed, Called, Hosted, Recorded, Alone
<1>7. SlotsOK
  BY <1>1, <1>2, <1>4, Zenon DEF SlotsOK, ClaimsPassed, ClaimedByOne, TakenKept, Claimant
<1> QED
  BY <1>6, <1>7, Zenon

-----------------------------------------------------------------------------
(* The outbox.  AckSticks alone is not inductive: a row delivered by a     *)
(* call the history does not know of would keep its deliveredBy at the     *)
(* next one, so the strengthening says that rows and history agree.        *)

(* The row of a key is delivered by the call the history names.            *)
Agree == \A k \in Key : deliveries[k].deliveredBy = acked[k]

IInv == TypeOK /\ AckSticks /\ Agree

(* What a step may do to the row of one key, given the acknowledgements.   *)
RowStep(k) ==
  /\ acked[k] # "none" => deliveries'[k].claim <= deliveries[k].claim
  /\ deliveries[k].present =>
       /\ deliveries'[k].present
       /\ deliveries'[k].type = deliveries[k].type
       /\ deliveries'[k].shadow = deliveries[k].shadow

(* The table starts empty.                                                 *)
LEMMA InitIInv == Init => IInv
  BY DEF Init, IInv, TypeOK, AckSticks, Agree, NoDelivery, Delivery

(* An insert changes nothing, or creates the row of a key that nobody has  *)
(* acknowledged yet.                                                       *)
LEMMA EnqueueStep ==
  ASSUME IInv, NEW k \in Key, NEW type \in Type, NEW shadow \in BOOLEAN, NEW editRef \in BOOLEAN,
         enqueue(k, type, shadow, editRef)
  PROVE  IInv' /\ \A q \in Key : RowStep(q)
<1>1. CASE deliveries[k].present
  BY <1>1 DEF enqueue, IInv, TypeOK, AckSticks, Agree, RowStep, Delivery
<1>2. CASE ~deliveries[k].present
  <2> DEFINE row == [NoDelivery EXCEPT !.present = TRUE, !.type = type, !.shadow = shadow,
                                       !.editRef = editRef]
  <2>1. deliveries' = [deliveries EXCEPT ![k] = row] /\ acked' = acked
    BY <1>2, Zenon DEF enqueue
  <2>2. row \in Delivery
    BY Zenon DEF NoDelivery, Delivery
  <2>3. acked[k] = "none"
    BY <1>2, Zenon DEF IInv, AckSticks
  <2> HIDE DEF row
  <2> QED
    BY <1>2, <2>1, <2>2, <2>3 DEF IInv, TypeOK, AckSticks, Agree, RowStep, Delivery, NoDelivery, row
<1> QED
  BY <1>1, <1>2, Zenon

(* A claim touches only rows that are not delivered, hence not             *)
(* acknowledged.                                                           *)
LEMMA ClaimStep ==
  ASSUME IInv, NEW type \in Type, NEW ks \in SUBSET Claimable(type), claimPending(type, ks)
  PROVE  IInv' /\ \A q \in Key : RowStep(q)
<1>1. ClaimTtl \in Nat
  BY ClaimAssumption, Zenon
<1>2. \A k \in ks : k \in Key /\ deliveries[k].deliveredBy = "none"
  BY Zenon DEF Claimable, pending
<1>3. \A k \in ks : acked[k] = "none"
  BY <1>2, Zenon DEF IInv, AckSticks
<1>4. TypeOK'
  BY <1>1, ZenonT(30) DEF claimPending, IInv, TypeOK, Delivery
<1>5. \A k \in Key : /\ deliveries'[k].deliveredBy = deliveries[k].deliveredBy
                     /\ deliveries'[k].present = deliveries[k].present
                     /\ deliveries'[k].type = deliveries[k].type
                     /\ deliveries'[k].shadow = deliveries[k].shadow
                     /\ k \notin ks => deliveries'[k] = deliveries[k]
  BY Zenon DEF claimPending, IInv, TypeOK, Delivery
<1>6. \A k \in Key : deliveries[k].claim <= deliveries[k].claim
  BY DEF IInv, TypeOK, Delivery
<1> QED
  BY <1>3, <1>4, <1>5, <1>6, ZenonT(30) DEF claimPending, IInv, AckSticks, Agree, RowStep

(* An acknowledgement writes the same call to the row and to the history,  *)
(* or to neither.                                                          *)
LEMMA AckStep ==
  ASSUME IInv, NEW k \in Key, ack(k) \/ ackByKey(k) \/ recordRecipientThread(k)
  PROVE  IInv' /\ \A q \in Key : RowStep(q)
<1>1. PICK route \in {"ack", "ackByKey", "recipientThread"} : Acknowledge(k, route)
        /\ (deliveries[k].present =>
              \/ deliver(k, route)
              \/ deliveries' = [deliveries EXCEPT
                   ![k].recipientThread = TRUE,
                   ![k].deliveredBy = IF @ = "none" THEN route ELSE @])
        /\ (~deliveries[k].present =>
              deliveries' = [deliveries EXCEPT ![k] =
                [NoDelivery EXCEPT !.present = TRUE, !.deliveredBy = route]] /\ route = "ackByKey")
  BY Zenon DEF ack, ackByKey, recordRecipientThread
<1>2. acked' = [acked EXCEPT ![k] = IF acked[k] = "none" THEN route ELSE acked[k]]
  BY <1>1, Zenon DEF Acknowledge
<1>3. acked' \in [Key -> {"none", "ack", "ackByKey", "recipientThread"}]
  BY <1>2, Zenon DEF IInv, TypeOK
<1>4. \A q \in Key : deliveries[q].claim <= deliveries[q].claim
  BY DEF IInv, TypeOK, Delivery
<1>5. CASE deliveries[k].present
  <2>1. deliveries' \in [Key -> Delivery]
    <3>1. CASE deliver(k, route)
      BY <3>1 DEF deliver, IInv, TypeOK, Delivery
    <3>2. CASE ~deliver(k, route)
      <4> DEFINE by == IF deliveries[k].deliveredBy = "none" THEN route ELSE deliveries[k].deliveredBy
                 row == [deliveries[k] EXCEPT !.recipientThread = TRUE, !.deliveredBy = by]
      <4>1. deliveries[k] \in Delivery
        BY Zenon DEF IInv, TypeOK
      <4>2. by \in {"none", "ack", "ackByKey", "recipientThread"}
        BY <4>1, Zenon DEF Delivery
      <4>3. row \in Delivery
        <5> HIDE DEF by
        <5> QED
          BY <4>1, <4>2, Zenon DEF Delivery
      <4>4. deliveries' = [deliveries EXCEPT ![k] = row]
        BY <1>1, <1>5, <3>2, Zenon
      <4> HIDE DEF row
      <4> QED
        BY <4>3, <4>4, Zenon DEF IInv, TypeOK
    <3> QED
      BY <3>1, <3>2, Zenon
  <2>2. \A q \in Key : /\ deliveries'[q].claim = deliveries[q].claim
                       /\ deliveries'[q].present = deliveries[q].present
                       /\ deliveries'[q].type = deliveries[q].type
                       /\ deliveries'[q].shadow = deliveries[q].shadow
    BY <1>1, <1>5 DEF deliver, IInv, TypeOK, Delivery
  <2>3. \A q \in Key : deliveries'[q].deliveredBy =
          IF q = k /\ deliveries[q].deliveredBy = "none" THEN route ELSE deliveries[q].deliveredBy
    BY <1>1, <1>5 DEF deliver, IInv, TypeOK, Delivery
  <2>4. \A q \in Key : acked'[q] = IF q = k /\ acked[q] = "none" THEN route ELSE acked[q]
    BY <1>2, Zenon DEF IInv, TypeOK
  <2> QED
    BY <1>3, <1>4, <1>5, <2>1, <2>2, <2>3, <2>4, ZenonT(30) DEF IInv, TypeOK, AckSticks, Agree, RowStep
<1>6. CASE ~deliveries[k].present
  <2> DEFINE row == [NoDelivery EXCEPT !.present = TRUE, !.deliveredBy = route]
  <2>1. row \in Delivery /\ row.present /\ row.deliveredBy = route
    BY Zenon DEF NoDelivery, Delivery
  <2>2. deliveries' = [deliveries EXCEPT ![k] = row]
    BY <1>1, <1>6, Zenon
  <2>3. acked[k] = "none"
    BY <1>6, Zenon DEF IInv, AckSticks
  <2> HIDE DEF row
  <2> QED
    BY <1>2, <1>3, <1>4, <1>6, <2>1, <2>2, <2>3, Zenon DEF IInv, TypeOK, AckSticks, Agree, RowStep
<1> QED
  BY <1>5, <1>6, Zenon

(* A late edit reference patches nothing the invariant speaks of.          *)
LEMMA EditStep ==
  ASSUME IInv, NEW k \in Key, setEditRefByKey(k)
  PROVE  IInv' /\ \A q \in Key : RowStep(q)
<1>1. \A q \in Key : deliveries[q].claim <= deliveries[q].claim
  BY DEF IInv, TypeOK, Delivery
<1>2. deliveries' \in [Key -> Delivery]
  BY ZenonT(30) DEF setEditRefByKey, IInv, TypeOK, Delivery
<1>3. \A q \in Key : /\ deliveries'[q].claim = deliveries[q].claim
                     /\ deliveries'[q].present = deliveries[q].present
                     /\ deliveries'[q].type = deliveries[q].type
                     /\ deliveries'[q].shadow = deliveries[q].shadow
                     /\ deliveries'[q].deliveredBy = deliveries[q].deliveredBy
  BY Zenon DEF setEditRefByKey, IInv, TypeOK, Delivery
<1> QED
  BY <1>1, <1>2, <1>3 DEF setEditRefByKey, IInv, TypeOK, AckSticks, Agree, RowStep

(* Time only shortens claims.                                              *)
LEMMA TickStep ==
  ASSUME IInv, Tick
  PROVE  IInv' /\ \A q \in Key : RowStep(q)
  BY DEF Tick, IInv, TypeOK, AckSticks, Agree, RowStep, Delivery

(* Every step keeps the invariant and treats the rows as promised.         *)
LEMMA NextStep == IInv /\ [Next]_vars => IInv' /\ \A q \in Key : RowStep(q)
<1> SUFFICES ASSUME IInv, [Next]_vars
             PROVE  IInv' /\ \A q \in Key : RowStep(q)
  BY Zenon
<1>1. ASSUME UNCHANGED vars PROVE IInv' /\ \A q \in Key : RowStep(q)
  BY <1>1 DEF vars, IInv, TypeOK, AckSticks, Agree, RowStep, Delivery
<1> QED
  BY <1>1, EnqueueStep, ClaimStep, AckStep, EditStep, TickStep, Zenon DEF Next

(* The invariant holds in every reachable state.                           *)
THEOREM Invariance == Spec => []IInv
<1>1. IInv /\ [Next]_vars => IInv'
  BY NextStep, Zenon
<1> QED
  BY <1>1, InitIInv, PTL DEF Spec

(* Every variable keeps its type.                                          *)
THEOREM TypeCorrect == Spec => []TypeOK
  BY Invariance, PTL DEF IInv

(* ackByKey() and enqueue() may come in either order: an acknowledged key  *)
(* stays delivered, by the call that acknowledged it first.                *)
THEOREM AcksStick == Spec => []AckSticks
  BY Invariance, PTL DEF IInv

(* No statement claims an acknowledged message again, nor lets a later     *)
(* enqueue() with the same key replace what was queued.                    *)
THEOREM NoResurfacing == Spec => QueuedOnce
<1>1. IInv /\ [Next]_vars => [\A k \in Key : RowStep(k)]_vars
  BY NextStep, Zenon
<1> QED
  BY <1>1, Invariance, PTL DEF Spec, QueuedOnce, RowStep

-----------------------------------------------------------------------------
(* A call that is about to commit has nothing left to do.                  *)
CommitReady == \A c \in Call : At(c, "commit") => Complete(call[c].key)

TIInv == IInv /\ TriggersTypeOK /\ CommitReady /\ CommittedIsDone /\ OneInFlight

allTriggerVars == <<vars, triggerVars>>

(* A step leaves complete what is complete.                                *)
Monotone == \A k \in Key : Complete(k) => Complete(k)'

(* The parameters with which triggers call the outbox are legal.           *)
LEMMA CallTypes == NoCall \in CallState /\ "slack" \in Type
<1>1. (CHOOSE k \in Key : TRUE) \in Key
  BY TriggersAssumption, Zenon
<1> QED
  BY <1>1, TriggersAssumption, Zenon DEF NoCall, CallState, Inside

(* Nothing is in flight and nothing on record to begin with.               *)
LEMMA TriggersInitInv == TriggersInit => TIInv
<1> SUFFICES ASSUME TriggersInit PROVE TIInv
  BY Zenon
<1>1. IInv
  BY InitIInv, Zenon DEF TriggersInit
<1>2. TriggersTypeOK
  BY <1>1, CallTypes, Zenon DEF TriggersInit, TriggersTypeOK, IInv, Turn
<1>3. \A c \in Call : call[c].pc = "idle"
  BY Zenon DEF TriggersInit, NoCall
<1> QED
  BY <1>1, <1>2, <1>3, Zenon DEF TIInv, CommitReady, At, CommittedIsDone, TriggersInit, OneInFlight, Inside

(* Every use of the outbox is a step of its specification, or none.        *)
LEMMA OutboxStep ==
  ASSUME TriggersTypeOK, [TriggersNext]_allTriggerVars
  PROVE  [Next]_vars
<1>1. ASSUME NEW c \in Call, reachEnqueue(c) PROVE [Next]_vars
  <2>1. call[c].key \in Key
    BY Zenon DEF TriggersTypeOK, CallState
  <2>2. CASE enqueue(call[c].key, "slack", FALSE, FALSE)
    BY <2>1, <2>2, CallTypes, Zenon DEF Next
  <2>3. CASE Withhold(c)
    BY <2>3, Zenon DEF Withhold, vars
  <2> QED
    BY <1>1, <2>2, <2>3, Zenon DEF reachEnqueue
<1>2. ASSUME NEW c \in Call, triggerStep(c) PROVE [Next]_vars
  BY <1>1, <1>2, Zenon DEF triggerStep, isCommitted, sendMessage, startTurn, Withhold, awaitTurn, commit, vars
<1> QED
  BY <1>2, Zenon DEF TriggersNext, allTriggerVars, runTrigger, throw, return, endTurn, die, vars

(* What the outbox and the calls' own steps make of what is complete.      *)
LEMMA StaysComplete ==
  ASSUME TIInv, [TriggersNext]_allTriggerVars
  PROVE  IInv' /\ Monotone
<1>1. IInv' /\ \A k \in Key : RowStep(k)
  BY OutboxStep, NextStep, Zenon DEF TIInv
<1>2. withheld \subseteq withheld'
  BY Zenon DEF TriggersNext, allTriggerVars, triggerVars, runTrigger, throw, return, endTurn, die, triggerStep,
         isCommitted, sendMessage, startTurn, Withhold, awaitTurn, commit, reachEnqueue
<1>3. \A k \in Key : turn[k] = "quiet" => turn'[k] = "quiet"
  <2>1. turn \in [Key -> Turn]
    BY Zenon DEF TIInv, TriggersTypeOK
  <2>2. ASSUME NEW c \in Call, startTurn(c) PROVE \A k \in Key : turn[k] = "quiet" => turn'[k] = "quiet"
    BY <2>1, <2>2, Zenon DEF startTurn
  <2>3. ASSUME NEW q \in Key, endTurn(q) PROVE \A k \in Key : turn[k] = "quiet" => turn'[k] = "quiet"
    BY <2>1, <2>3, Zenon DEF endTurn
  <2> QED
    BY <2>2, <2>3, Zenon DEF TriggersNext, allTriggerVars, triggerVars, runTrigger, throw, return, die, triggerStep,
         isCommitted, sendMessage, awaitTurn, commit
<1> QED
  BY <1>1, <1>2, <1>3, Zenon DEF Monotone, Complete, RowStep

(* Calls that are inside and stay there keep out of each other's way.      *)
LEMMA StaysApart ==
  ASSUME OneInFlight,
         \A c \in Call : call'[c].pc \in Inside =>
           call[c].pc \in Inside /\ call'[c].home = call[c].home /\ call'[c].key = call[c].key
  PROVE  OneInFlight'
  BY DEF OneInFlight

(* What remains to be shown of a step once the outbox is dealt with.       *)
LEMMA Preserved ==
  ASSUME TIInv, IInv', Monotone, OneInFlight',
         committed' \subseteq Key /\ withheld' \subseteq Key,
         turn' \in [Key -> Turn], call' \in [Call -> CallState],
         \A k \in committed' : k \in committed \/ Complete(k)',
         \A c \in Call : call'[c].pc = "commit" => \/ call'[c] = call[c]
                                                   \/ Complete(call[c].key)'
  PROVE  TIInv'
<1>1. TriggersTypeOK'
  BY Zenon DEF TriggersTypeOK, IInv
<1>2. CommittedIsDone'
  BY Zenon DEF TIInv, CommittedIsDone, Monotone, TriggersTypeOK
<1>3. CommitReady'
  <2> SUFFICES ASSUME NEW c \in Call, call'[c].pc = "commit" PROVE Complete(call[c].key)'
    BY Zenon DEF CommitReady, At, Complete
  <2>1. CASE call'[c] = call[c]
    <3>1. Complete(call[c].key) /\ call[c].key \in Key
      BY <2>1, Zenon DEF TIInv, CommitReady, At, TriggersTypeOK, CallState
    <3> QED
      BY <2>1, <3>1, Zenon DEF Monotone, Complete
  <2> QED
    BY <2>1, Zenon
<1> QED
  BY <1>1, <1>2, <1>3, Zenon DEF TIInv

(* A call enters once() only if no other call of the process is inside     *)
(* with its key.                                                           *)
LEMMA RunTriggerStep ==
  ASSUME TIInv, IInv', Monotone,
         NEW c \in Call, NEW p \in Process, NEW k \in Key, NEW message \in BOOLEAN,
         runTrigger(c, p, k, message)
  PROVE  TIInv'
<1>1. PICK pc \in {"out", "check"}, out \in {"none", "denied", "skipped"} :
        /\ call' = [call EXCEPT ![c] = [pc |-> pc, home |-> p, key |-> k, message |-> message, out |-> out]]
        /\ pc = "check" => ~InFlight(p, k)
  BY Zenon DEF runTrigger, once
<1> DEFINE new == [pc |-> pc, home |-> p, key |-> k, message |-> message, out |-> out]
<1>2. new \in CallState
  BY Zenon DEF CallState, Inside
<1>3. call \in [Call -> CallState]
  BY Zenon DEF TIInv, TriggersTypeOK
<1>4. OneInFlight'
  <2>1. \A d \in Call \ {c} : call'[d] = call[d]
    BY <1>1, <1>3, Zenon
  <2>2. call'[c].pc = pc /\ call'[c].home = p /\ call'[c].key = k
    BY <1>1, <1>3, Zenon
  <2>3. pc \in Inside => \A d \in Call : ~(call[d].home = p /\ call[d].key = k /\ call[d].pc \in Inside)
    BY <1>1, Zenon DEF InFlight, Inside
  <2> QED
    BY <2>1, <2>2, <2>3 DEF TIInv, OneInFlight
<1>5. call' \in [Call -> CallState] /\ \A d \in Call : call'[d].pc = "commit" => call'[d] = call[d]
  <2> HIDE DEF new
  <2>1. call' = [call EXCEPT ![c] = new]
    BY <1>1, Zenon DEF new
  <2>2. new.pc # "commit"
    BY Zenon DEF new
  <2> QED
    BY <1>2, <1>3, <2>1, <2>2, Zenon
<1>6. UNCHANGED <<committed, turn, withheld>>
  BY Zenon DEF runTrigger
<1> QED
  BY <1>4, <1>5, <1>6, Preserved, Zenon DEF TIInv, TriggersTypeOK

(* A call that moves inside once() commits only what is complete.          *)
LEMMA MoveStep ==
  ASSUME TIInv, IInv', Monotone, NEW c \in Call, NEW pc \in Inside, At(c, pc) => pc # "commit",
         call[c].pc \in Inside, Goto(c, pc),
         pc = "commit" => Complete(call[c].key)',
         UNCHANGED committed, withheld' \subseteq Key, turn' \in [Key -> Turn]
  PROVE  TIInv'
<1>1. call \in [Call -> CallState]
  BY Zenon DEF TIInv, TriggersTypeOK
<1>2. call' \in [Call -> CallState]
  BY <1>1, ZenonT(30) DEF Goto, CallState
<1>3. \A d \in Call : /\ call'[d].home = call[d].home /\ call'[d].key = call[d].key
                      /\ call'[d].pc = IF d = c THEN pc ELSE call[d].pc
                      /\ d # c => call'[d] = call[d]
  BY <1>1, Zenon DEF Goto, CallState
<1>4. OneInFlight'
  BY <1>3, StaysApart, Zenon DEF TIInv
<1> QED
  BY <1>2, <1>3, <1>4, Preserved, Zenon DEF TIInv, TriggersTypeOK, Complete

(* A call that ends, returns or dies leaves once().                        *)
LEMMA LeaveStep ==
  ASSUME TIInv, IInv', Monotone, call' \in [Call -> CallState],
         \A d \in Call : call'[d] = call[d] \/ call'[d].pc \in {"out", "idle"},
         committed' \subseteq Key, \A k \in committed' : k \in committed \/ Complete(k),
         UNCHANGED <<turn, withheld>>
  PROVE  TIInv'
<1>1. OneInFlight'
  BY StaysApart, Zenon DEF TIInv, Inside
<1> QED
  BY <1>1, Preserved, Zenon DEF TIInv, TriggersTypeOK, Monotone

(* A call's own steps.                                                     *)
LEMMA OwnStep ==
  ASSUME TIInv, IInv', Monotone, NEW c \in Call, triggerStep(c)
  PROVE  TIInv'
<1>1. /\ call \in [Call -> CallState] /\ call[c].key \in Key
      /\ committed \subseteq Key /\ withheld \subseteq Key /\ turn \in [Key -> Turn]
      /\ deliveries \in [Key -> Delivery]
  BY Zenon DEF TIInv, TriggersTypeOK, TypeOK, CallState
<1>2. ASSUME NEW out \in {"ran", "skipped"}, Finish(c, out)
      PROVE  /\ call' \in [Call -> CallState]
             /\ \A d \in Call : call'[d] = call[d] \/ call'[d].pc \in {"out", "idle"}
  <2> DEFINE new == [call[c] EXCEPT !.pc = "out", !.out = out]
  <2>1. new \in CallState /\ new.pc = "out"
    BY <1>1, Zenon DEF CallState
  <2>2. call' = [call EXCEPT ![c] = new]
    BY <1>2, Zenon DEF Finish
  <2> HIDE DEF new
  <2> QED
    BY <1>1, <2>1, <2>2, Zenon
<1>3. CASE isCommitted(c)
  <2>1. CASE call[c].key \in committed
    BY <1>1, <1>2, <1>3, <2>1, LeaveStep, Zenon DEF isCommitted
  <2>2. CASE call[c].key \notin committed
    <3>1. Goto(c, "body") /\ UNCHANGED <<committed, turn, withheld>> /\ call[c].pc = "check"
      BY <1>3, <2>2, Zenon DEF isCommitted, At
    <3> QED
      BY <1>1, <3>1, MoveStep, Zenon DEF Inside, At
  <2> QED
    BY <2>1, <2>2, Zenon
<1>4. ASSUME reachEnqueue(c)
      PROVE  withheld' \subseteq Key /\ (deliveries'[call[c].key].present \/ call[c].key \in withheld')
  <2>1. CASE enqueue(call[c].key, "slack", FALSE, FALSE) /\ UNCHANGED withheld
    BY <1>1, <2>1, Zenon DEF enqueue, NoDelivery
  <2>2. CASE Withhold(c)
    BY <1>1, <2>2, Zenon DEF Withhold
  <2> QED
    BY <1>4, <2>1, <2>2, Zenon DEF reachEnqueue
<1>5. ASSUME Goto(c, "commit"), call[c].pc \in Inside \ {"commit"}, UNCHANGED committed,
             withheld' \subseteq Key, turn' \in [Key -> Turn],
             deliveries'[call[c].key].present \/ turn'[call[c].key] = "quiet" \/ call[c].key \in withheld'
      PROVE  TIInv'
  <2>1. call'[c].key = call[c].key
    BY <1>1, <1>5, Zenon DEF Goto, CallState
  <2>2. Complete(call[c].key)'
    BY <1>5, <2>1, Zenon DEF Complete
  <2> QED
    BY <1>5, <2>2, MoveStep, Zenon DEF At, Inside
<1>6. CASE sendMessage(c)
  BY <1>1, <1>4, <1>5, <1>6, Zenon DEF sendMessage, At, Inside
<1>7. CASE startTurn(c)
  <2>1. CASE Goto(c, "turn")
    <3>1. turn' \in [Key -> Turn] /\ withheld' \subseteq Key
      BY <1>1, <1>7, Zenon DEF startTurn, Turn, Withhold
    <3> QED
      BY <1>7, <2>1, <3>1, MoveStep, Zenon DEF startTurn, At, Inside
  <2>2. CASE Withhold(c) /\ Goto(c, "commit") /\ UNCHANGED turn
    BY <1>1, <1>5, <1>7, <2>2, Zenon DEF startTurn, Withhold, At, Inside
  <2> QED
    BY <1>7, <2>1, <2>2, Zenon DEF startTurn
<1>8. CASE awaitTurn(c)
  <2>1. CASE turn[call[c].key] = "reply"
    BY <1>1, <1>4, <1>5, <1>8, <2>1, Zenon DEF awaitTurn, At, Inside
  <2>2. CASE turn[call[c].key] = "quiet"
    BY <1>1, <1>5, <1>8, <2>2, Zenon DEF awaitTurn, At, Inside
  <2> QED
    BY <1>8, <2>1, <2>2, Zenon DEF awaitTurn
<1>9. CASE commit(c)
  <2>1. Complete(call[c].key)
    BY <1>9, Zenon DEF commit, TIInv, CommitReady
  <2>2. /\ committed' \subseteq Key /\ \A k \in committed' : k \in committed \/ Complete(k)
        /\ UNCHANGED <<turn, withheld>>
    BY <1>1, <1>9, <2>1, Zenon DEF commit
  <2> QED
    BY <1>2, <1>9, <2>2, LeaveStep, Zenon DEF commit
<1> QED
  BY <1>3, <1>6, <1>7, <1>8, <1>9, Zenon DEF triggerStep

(* Every step keeps the invariant.                                         *)
LEMMA TriggersStep == TIInv /\ [TriggersNext]_allTriggerVars => TIInv'
<1> SUFFICES ASSUME TIInv, [TriggersNext]_allTriggerVars PROVE TIInv'
  BY Zenon
<1>1. IInv' /\ Monotone
  BY StaysComplete, Zenon
<1>2. /\ call \in [Call -> CallState] /\ NoCall \in CallState /\ NoCall.pc = "idle"
      /\ committed \subseteq Key /\ turn \in [Key -> Turn] /\ withheld \subseteq Key
  BY CallTypes, Zenon DEF TIInv, TriggersTypeOK, NoCall
<1>3. ASSUME UNCHANGED triggerVars PROVE TIInv'
  BY <1>1, <1>2, <1>3, LeaveStep, Zenon DEF triggerVars
<1>4. ASSUME NEW c \in Call, throw(c) PROVE TIInv'
  <2> DEFINE new == [call[c] EXCEPT !.pc = "out", !.out = "threw"]
  <2>1. new \in CallState /\ new.pc = "out"
    BY <1>2, Zenon DEF CallState
  <2>2. call' = [call EXCEPT ![c] = new]
    BY <1>4, Zenon DEF throw, Finish
  <2> HIDE DEF new
  <2> QED
    BY <1>1, <1>2, <1>4, <2>1, <2>2, LeaveStep, Zenon DEF throw
<1>5. ASSUME NEW c \in Call, return(c) PROVE TIInv'
  <2> HIDE DEF NoCall
  <2> QED
    BY <1>1, <1>2, <1>5, LeaveStep, Zenon DEF return
<1>6. ASSUME NEW p \in Process, die(p) PROVE TIInv'
  BY <1>1, <1>2, <1>6, LeaveStep, Zenon DEF die
<1>7. ASSUME NEW k \in Key, endTurn(k) PROVE TIInv'
  <2>1. turn' \in [Key -> Turn] /\ UNCHANGED <<committed, call, withheld>>
    BY <1>2, <1>7, Zenon DEF endTurn, Turn
  <2>2. OneInFlight'
    BY <2>1, Zenon DEF TIInv, OneInFlight
  <2> QED
    BY <1>1, <1>2, <2>1, <2>2, Preserved, Zenon
<1> QED
  BY <1>1, <1>3, <1>4, <1>5, <1>6, <1>7, OwnStep, RunTriggerStep, Zenon DEF TriggersNext, allTriggerVars

(* The invariant holds in every reachable state.                           *)
THEOREM TriggersInvariance == TriggersSpec => []TIInv
<1>1. TIInv /\ [TriggersNext]_allTriggerVars => TIInv'
  BY TriggersStep, Zenon
<1> QED
  BY <1>1, TriggersInitInv, PTL DEF TriggersSpec, allTriggerVars

(* A firing on record is complete: isCommitted() lets a retry skip only    *)
(* what is in the outbox or was not to be sent.                            *)
THEOREM CommittedStaysDone == TriggersSpec => []CommittedIsDone
  BY TriggersInvariance, PTL DEF TIInv

(* once() admits one call per key and process.                             *)
THEOREM OneCallPerKey == TriggersSpec => []OneInFlight
  BY TriggersInvariance, PTL DEF TIInv

(* Triggers use the outbox as its specification allows.                    *)
THEOREM UsesOutbox == TriggersSpec => Spec
<1>1. TriggersInit => Init
  BY Zenon DEF TriggersInit
<1>2. TIInv /\ [TriggersNext]_allTriggerVars => [Next]_vars
  BY OutboxStep, Zenon DEF TIInv
<1> QED
  BY <1>1, <1>2, TriggersInvariance, PTL DEF TriggersSpec, Spec, allTriggerVars

-----------------------------------------------------------------------------
(* The inductive invariant.                                                *)
CIInv == TIInv /\ OwnTypes /\ FiresAtSlot /\ FiringsOK /\ SlotsOK

(* A firing that starts is well formed.                                    *)
LEMMA StartedType ==
  ASSUME OwnTypes, NEW p \in Process, NEW via \in {"job", "tick", "manual"}, NEW slot \in Key
  PROVE  Started(p, via, slot) \in Fire
  BY Bounds, Zenon DEF Started, Fire, OwnTypes, Cron

(* So is the absence of one.                                               *)
LEMMA NoFireType == NoFire \in Fire /\ NoFire.step = "idle"
<1>1. NoCall.key \in Key
  BY CallTypes, Zenon DEF CallState
<1> QED
  BY <1>1, Bounds, Zenon DEF NoFire, Fire, Kind

(* Replacing one firing.                                                   *)
LEMMA FireUpdate ==
  ASSUME OwnTypes, FiresAtSlot, NEW c \in Call, NEW x \in Fire, fire' = [fire EXCEPT ![c] = x], Legal(x)
  PROVE  fire' \in [Call -> Fire] /\ FiresAtSlot'
  BY Zenon DEF OwnTypes, FiresAtSlot, Legal

(* Every step of the scheduler is a step of triggers and outbox, or none.  *)
LEMMA RefinesStep ==
  ASSUME OwnTypes, FiresAtSlot, [CronNext]_allVars
  PROVE  [TriggersNext]_allTriggerVars
<1> USE DEF allTriggerVars
<1>1. ASSUME UNCHANGED <<vars, triggerVars>> PROVE [TriggersNext]_allTriggerVars
  BY <1>1, Zenon
<1>2. ASSUME NEW c \in Call, NEW p \in Process, NEW k \in Key, NEW message \in BOOLEAN,
             runTrigger(c, p, k, message)
      PROVE  [TriggersNext]_allTriggerVars
  BY <1>2, Zenon DEF TriggersNext
<1>3. ASSUME NEW c \in Call, return(c) \/ throw(c) \/ triggerStep(c) PROVE [TriggersNext]_allTriggerVars
  BY <1>3, Zenon DEF TriggersNext
<1>4. ASSUME NEW p \in Process, start(p) \/ stop(p) \/ leaseGuard(p) \/ loseLock(p) \/ reconcile(p) \/ user(p)
      PROVE  [TriggersNext]_allTriggerVars
  BY <1>1, <1>4, Zenon DEF start, stop, leaseGuard, loseLock, reconcile, user
<1>5. ASSUME NEW p \in Process, crash(p) PROVE [TriggersNext]_allTriggerVars
  BY <1>5, Zenon DEF crash, TriggersNext
<1>6. ASSUME NEW c \in Call, NEW p \in Process,
             (\E slot \in jobs : fireJob(c, p, slot)) \/ tick(c, p) \/ runNow(c, p)
      PROVE  [TriggersNext]_allTriggerVars
  <2>1. CASE \E slot \in jobs : fireJob(c, p, slot)
    BY <1>1, <2>1, Zenon DEF fireJob
  <2>2. cron.message \in BOOLEAN
    BY Zenon DEF OwnTypes, Cron
  <2>3. CASE tick(c, p)
    <3>1. PICK slot \in Slots(cron) : slot <= now /\ runTrigger(c, p, slot, cron.message)
      BY <2>3, Zenon DEF tick
    <3>2. slot \in Key
      BY <3>1, SlotsAreTimes, Bounds, Zenon
    <3> QED
      BY <1>2, <2>2, <3>1, <3>2, Zenon
  <2>4. CASE runNow(c, p)
    <3>1. manualKey \in Key
      BY <2>4, Bounds, Zenon DEF runNow, Event, OwnTypes, manualKey
    <3> QED
      BY <1>2, <2>2, <2>4, <3>1, Zenon DEF runNow
  <2> QED
    BY <1>6, <2>1, <2>3, <2>4, Zenon
<1>7. ASSUME NEW c \in Call, proceed(c) PROVE [TriggersNext]_allTriggerVars
  <2>1. CASE claimSlot(c)
    <3>1. fire[c].message \in BOOLEAN /\ fire[c].slot \in Key
      BY Zenon DEF OwnTypes, Fire
    <3>2. fire[c].home \in Process
      BY <2>1, Zenon DEF claimSlot, FiresAtSlot, Legal
    <3> QED
      BY <1>1, <1>2, <2>1, <3>1, <3>2, Zenon DEF claimSlot
  <2>2. CASE step(c)
    BY <1>3, <2>2, Zenon DEF step
  <2>3. CASE disable(c)
    BY <1>1, <2>3, Zenon DEF disable
  <2>4. CASE settleJob(c) \/ settleTick(c) \/ markFired(c) \/ settleManual(c)
    BY <1>1, <1>3, <2>4, Zenon DEF settleJob, settleTick, markFired, settleManual, Done
  <2> QED
    BY <1>7, <2>1, <2>2, <2>3, <2>4, Zenon DEF proceed
<1>8. ASSUME NEW c \in Call, fail(c) PROVE [TriggersNext]_allTriggerVars
  BY <1>3, <1>8, Zenon DEF fail
<1>9. ASSUME NEW c \in Call, claimThrows(c) \/ fireThrows(c) \/ settleThrows(c)
      PROVE  [TriggersNext]_allTriggerVars
  BY <1>1, <1>3, <1>9, Zenon DEF claimThrows, fireThrows, settleThrows, Done
<1>10. CASE turnEnds
  BY <1>10, Zenon DEF turnEnds, TriggersNext
<1>11. CASE clock
  BY <1>11, Zenon DEF clock, TriggersNext, Next
<1>12. CASE UNCHANGED allVars
  BY <1>1, <1>12, Zenon DEF allVars
<1> QED
  BY <1>4, <1>5, <1>6, <1>7, <1>8, <1>9, <1>10, <1>11, <1>12, Zenon DEF CronNext

(* The invariant at the start.                                             *)
LEMMA CronInitInv == CronInit => CIInv
<1> SUFFICES ASSUME CronInit PROVE CIInv
  BY Zenon
<1>1. TIInv
  BY TriggersInitInv, Zenon DEF CronInit
<1>2. cron \in Cron
  <2>1. ASSUME NEW x \in Content PROVE OldRow(x) \in Cron
    <3>1. x.kind \in Kind /\ x.first \in Nat \cup {NoTime} /\ x.message \in BOOLEAN
      BY Bounds, Zenon
    <3> QED
      BY <3>1, Bounds, Zenon DEF OldRow, NoCron, Cron
  <2>2. NoCron \in Cron
    BY Zenon DEF NoCron, Cron, Kind
  <2> QED
    BY <2>1, <2>2, Zenon DEF CronInit
<1>3. OwnTypes
  <2>1. proc \in [Process -> [mode: {"off", "queue", "interval", "stopped"}, hold: {"no", "tick", "guard"}]]
    BY Zenon DEF CronInit
  <2>2. fire \in [Call -> Fire]
    BY NoFireType, Zenon DEF CronInit
  <2>3. now \in Time /\ events \in 0..MaxEvents /\ taken \in Time \cup {NoTime} /\ jobs \subseteq Nat
    BY Bounds DEF CronInit
  <2>4. overtaken \in BOOLEAN /\ lock \in Process \cup {Nowhere}
    BY Zenon DEF CronInit
  <2> QED
    BY <1>2, <2>1, <2>2, <2>3, <2>4, Zenon DEF OwnTypes
<1>4. FiresAtSlot
  BY NoFireType, Zenon DEF CronInit, FiresAtSlot, Legal
<1> QED
  BY <1>1, <1>3, <1>4, InitSlots, Zenon DEF CIInv

(* Steps that touch neither a firing nor the row: the lease, the timers.   *)
LEMMA ProcessStep ==
  ASSUME OwnTypes, FiresAtSlot, NEW p \in Process,
         start(p) \/ stop(p) \/ leaseGuard(p) \/ loseLock(p) \/ reconcile(p)
  PROVE  OwnTypes' /\ FiresAtSlot'
<1> DEFINE P == [mode: {"off", "queue", "interval", "stopped"}, hold: {"no", "tick", "guard"}]
<1>1. UNCHANGED <<now, cron, fire, taken, overtaken>>
  BY Zenon DEF start, stop, leaseGuard, loseLock, reconcile
<1>2. FiresAtSlot'
  BY <1>1, Zenon DEF FiresAtSlot, Legal
<1>3. proc' \in [Process -> P]
  BY DEF OwnTypes, start, stop, leaseGuard, loseLock, reconcile, hold
<1>4. lock' \in Process \cup {Nowhere}
  BY Zenon DEF OwnTypes, start, stop, leaseGuard, loseLock, reconcile, hold
<1>5. events' \in 0..MaxEvents
  BY Bounds DEF OwnTypes, start, stop, leaseGuard, loseLock, reconcile, Fault, Event
<1>6. jobs' \subseteq Nat
  BY SlotsAreTimes, Zenon DEF OwnTypes, start, stop, leaseGuard, loseLock, reconcile, enqueueFire
<1> QED
  BY <1>1, <1>2, <1>3, <1>4, <1>5, <1>6, Zenon DEF OwnTypes

(* A process that dies takes its firings along.                            *)
LEMMA CrashStep ==
  ASSUME OwnTypes, FiresAtSlot, NEW p \in Process, crash(p)
  PROVE  OwnTypes' /\ FiresAtSlot'
<1>1. fire' \in [Call -> Fire] /\ FiresAtSlot'
  BY NoFireType, Zenon DEF crash, OwnTypes, FiresAtSlot, Legal
<1>2. proc' \in [Process -> [mode: {"off", "queue", "interval", "stopped"}, hold: {"no", "tick", "guard"}]]
  BY Zenon DEF crash, OwnTypes
<1>3. lock' \in Process \cup {Nowhere} /\ taken' \in Time \cup {NoTime} /\ UNCHANGED <<now, cron, jobs, overtaken>>
  BY Zenon DEF crash, OwnTypes
<1>4. events' \in 0..MaxEvents
  BY Bounds DEF crash, Fault, Event, OwnTypes
<1> QED
  BY <1>1, <1>2, <1>3, <1>4, Zenon DEF OwnTypes

(* A firing starts from a job, an interval tick or by hand.                *)
LEMMA StartFireStep ==
  ASSUME OwnTypes, FiresAtSlot, NEW c \in Call, NEW p \in Process,
         (\E slot \in jobs : fireJob(c, p, slot)) \/ tick(c, p) \/ runNow(c, p)
  PROVE  OwnTypes' /\ FiresAtSlot'
<1>1. ASSUME NEW via \in {"job", "tick", "manual"}, NEW slot \in Key, via # "manual" => slot \in Time
      PROVE  Started(p, via, slot) \in Fire /\ Legal(Started(p, via, slot))
  BY <1>1, StartedType, Zenon DEF Started, Legal
<1>2. CASE \E slot \in jobs : fireJob(c, p, slot)
  <2>1. PICK slot \in jobs : fireJob(c, p, slot)
    BY <1>2, Zenon
  <2>2. jobs' \subseteq Nat /\ UNCHANGED <<now, cron, proc, lock, taken, overtaken, events>>
    BY <2>1, Zenon DEF fireJob, OwnTypes
  <2>3. fire' \in [Call -> Fire] /\ FiresAtSlot'
    <3>1. CASE slot \in Slots(cron)
      <4> DEFINE x == [Started(p, "job", slot) EXCEPT !.step = "claim"]
      <4>1. slot \in Time /\ slot \in Key
        BY <2>1, <3>1, SlotsAreTimes, Bounds, Zenon DEF fireJob
      <4>2. x \in Fire /\ Legal(x)
        <5> DEFINE y == Started(p, "job", slot)
        <5>1. y \in Fire /\ y.home \in Process /\ y.slot \in Time /\ y.via = "job"
          BY <4>1, StartedType, Zenon DEF Started
        <5> HIDE DEF y
        <5>2. /\ [y EXCEPT !.step = "claim"] \in Fire
              /\ Legal([y EXCEPT !.step = "claim"])
          BY <5>1, Zenon DEF Fire, Legal
        <5> QED
          BY <5>2, Zenon DEF y
      <4>3. fire' = [fire EXCEPT ![c] = x]
        BY <2>1, <3>1, Zenon DEF fireJob
      <4> HIDE DEF x
      <4> QED
        BY <4>2, <4>3, FireUpdate, Zenon
    <3>2. CASE slot \notin Slots(cron)
      BY <2>1, <3>2, Zenon DEF fireJob, OwnTypes, FiresAtSlot, Legal
    <3> QED
      BY <3>1, <3>2, Zenon
  <2> QED
    BY <2>2, <2>3, Zenon DEF OwnTypes
<1>3. CASE tick(c, p)
  <2>1. PICK slot \in Slots(cron) : slot <= now /\ fire' = [fire EXCEPT ![c] = Started(p, "tick", slot)]
    BY <1>3, Zenon DEF tick
  <2>2. slot \in Time /\ slot \in Key
    BY <2>1, SlotsAreTimes, Bounds, Zenon
  <2>3. fire' \in [Call -> Fire] /\ FiresAtSlot'
    BY <1>1, <2>1, <2>2, FireUpdate, Zenon
  <2>4. /\ lock' \in Process \cup {Nowhere}
        /\ proc' \in [Process -> [mode: {"off", "queue", "interval", "stopped"}, hold: {"no", "tick", "guard"}]]
    BY <1>3, Zenon DEF tick, hold, OwnTypes
  <2> QED
    BY <1>3, <2>3, <2>4, Zenon DEF OwnTypes, tick
<1>4. CASE runNow(c, p)
  <2>1. manualKey \in Key /\ events' \in 0..MaxEvents
    BY <1>4, Bounds DEF runNow, Event, OwnTypes, manualKey
  <2>2. fire' \in [Call -> Fire] /\ FiresAtSlot'
    BY <1>1, <1>4, <2>1, FireUpdate, Zenon DEF runNow
  <2> QED
    BY <1>4, <2>1, <2>2, Zenon DEF runNow, OwnTypes
<1> QED
  BY <1>2, <1>3, <1>4, Zenon

(* A firing claims its slot, or finds it taken.                            *)
LEMMA ClaimSlotStep ==
  ASSUME OwnTypes, FiresAtSlot, NEW c \in Call, claimSlot(c)
  PROVE  OwnTypes' /\ FiresAtSlot'
<1>1. fire[c] \in Fire /\ fire[c].slot \in Time /\ fire[c].home \in Process /\ fire[c].via # "manual"
  BY Zenon DEF OwnTypes, claimSlot, FiresAtSlot, Legal
<1>2. CASE ~StillWaits(fire[c].slot)
  <2>1. fire' = [fire EXCEPT ![c] = NoFire] /\ UNCHANGED <<now, cron, jobs, proc, lock, taken, overtaken, events>>
    BY <1>2, Zenon DEF claimSlot
  <2>2. Legal(NoFire)
    BY NoFireType, Zenon DEF Legal
  <2> QED
    BY <2>1, <2>2, NoFireType, FireUpdate, Zenon DEF OwnTypes
<1>3. CASE StillWaits(fire[c].slot)
  <2> DEFINE x == [fire[c] EXCEPT !.step = "fire", !.rev = cron.rev]
  <2>1. x \in Fire /\ Legal(x)
    <3>1. cron.rev \in Nat
      BY Zenon DEF OwnTypes, Cron
    <3> QED
      BY <1>1, <3>1, Zenon DEF Fire, Legal
  <2>2. fire' = [fire EXCEPT ![c] = x]
    BY <1>3, Zenon DEF claimSlot
  <2> HIDE DEF x
  <2>3. fire' \in [Call -> Fire] /\ FiresAtSlot'
    BY <2>1, <2>2, FireUpdate, Zenon
  <2>4. cron' \in Cron /\ taken' \in Time \cup {NoTime}
    <3>1. fire[c].t \in Time /\ cron \in Cron
      BY <1>1, Zenon DEF Fire, OwnTypes
    <3>2. cron' = claimed(cron, fire[c].slot, fire[c].t) /\ taken' \in {NoTime, fire[c].slot}
      BY <1>3, Zenon DEF claimSlot
    <3> QED
      BY <1>1, <3>1, <3>2, RowTypes, Zenon
  <2> QED
    BY <2>3, <2>4, Zenon DEF OwnTypes, claimSlot
<1> QED
  BY <1>2, <1>3, Zenon

(* The end of a firing, in its steps.                                      *)
LEMMA SettleStep ==
  ASSUME OwnTypes, FiresAtSlot, NEW c \in Call,
         disable(c) \/ settleJob(c) \/ settleTick(c) \/ markFired(c) \/ settleManual(c)
  PROVE  OwnTypes' /\ FiresAtSlot'
<1> DEFINE P == [mode: {"off", "queue", "interval", "stopped"}, hold: {"no", "tick", "guard"}]
<1>1. fire[c] \in Fire /\ cron \in Cron /\ Legal(fire[c])
  BY Zenon DEF OwnTypes, FiresAtSlot
<1>2. ASSUME fire' = [fire EXCEPT ![c] = NoFire] PROVE fire' \in [Call -> Fire] /\ FiresAtSlot'
  <2>1. Legal(NoFire)
    BY NoFireType, Zenon DEF Legal
  <2> QED
    BY <1>2, <2>1, NoFireType, FireUpdate, Zenon
<1>3. ASSUME NEW p \in Process \cup {Nowhere}, unhold(p)
      PROVE  proc' \in [Process -> P] /\ lock' \in Process \cup {Nowhere}
  BY <1>3, Zenon DEF unhold, OwnTypes
<1>4. fire[c].home \in Process \cup {Nowhere}
  BY <1>1, Zenon DEF Fire
<1>5. CASE disable(c)
  <2> DEFINE x == [fire[c] EXCEPT !.step = "settle"]
  <2>1. x \in Fire /\ Legal(x)
    BY <1>1, <1>5, Zenon DEF Fire, Legal, disable
  <2>2. fire' = [fire EXCEPT ![c] = x]
    BY <1>5, Zenon DEF disable
  <2> HIDE DEF x
  <2>3. fire' \in [Call -> Fire] /\ FiresAtSlot'
    BY <2>1, <2>2, FireUpdate, Zenon
  <2>4. cron' \in Cron
    BY <1>1, <1>5, RowTypes, Zenon DEF disable
  <2> QED
    BY <1>5, <2>3, <2>4, Zenon DEF disable, OwnTypes
<1>6. CASE settleJob(c)
  <2>1. fire' \in [Call -> Fire] /\ FiresAtSlot'
    BY <1>2, <1>6, Zenon DEF settleJob, Done
  <2>2. cron' \in Cron
    <3>1. unclaimSlot(c) \in Cron
      <4>1. fire[c].step # "idle" /\ fire[c].via # "manual"
        BY <1>6, Zenon DEF settleJob, Fired
      <4>2. fire[c].slot \in Nat /\ fire[c].prior \in Time \cup {NoTime}
        BY <1>1, <4>1, Bounds, Zenon DEF Legal, Fire
      <4> QED
        BY <1>1, <4>2, Zenon DEF unclaimSlot, Cron
    <3> QED
      BY <1>1, <1>6, <3>1, Zenon DEF settleJob
  <2>3. jobs' \subseteq Nat
    BY <1>6, SlotsAreTimes, Zenon DEF settleJob, enqueueFire, OwnTypes
  <2>4. overtaken' \in BOOLEAN
    BY <1>6, Zenon DEF settleJob
  <2> QED
    BY <1>6, <2>1, <2>2, <2>3, <2>4, Zenon DEF settleJob, OwnTypes
<1>7. CASE settleTick(c)
  <2>1. CASE Failed(c) \/ ~cron.present
    BY <1>2, <1>3, <1>4, <1>7, <2>1, Zenon DEF settleTick, Done, OwnTypes
  <2>2. CASE ~(Failed(c) \/ ~cron.present)
    <3> DEFINE x == [fire[c] EXCEPT !.step = "mark", !.kind = cron.kind]
    <3>1. x \in Fire /\ Legal(x)
      <4>1. cron.kind \in Kind
        BY <1>1, Zenon DEF Cron
      <4>2. fire[c].via = "tick" /\ fire[c].step # "idle"
        BY <1>7, Zenon DEF settleTick, Fired
      <4> QED
        BY <1>1, <4>1, <4>2, Zenon DEF Fire, Legal
    <3>2. fire' = [fire EXCEPT ![c] = x]
      BY <1>7, <2>2, Zenon DEF settleTick
    <3> HIDE DEF x
    <3> QED
      BY <1>7, <2>2, <3>1, <3>2, FireUpdate, Zenon DEF settleTick, OwnTypes
  <2> QED
    BY <2>1, <2>2, Zenon
<1>8. CASE markFired(c)
  <2>1. fire[c].slot \in Time /\ fire[c].t \in Time /\ fire[c].kind \in Kind
    BY <1>1, <1>8, Zenon DEF markFired, Legal, Fire
  <2>2. cron' \in Cron
    <3> DEFINE row == [cron EXCEPT !.kind = fire[c].kind]
               done == claimed(row, fire[c].slot, fire[c].t)
    <3>1. row \in Cron
      BY <1>1, <2>1, Zenon DEF Cron
    <3>2. done \in Cron
      <4> HIDE DEF row
      <4> QED
        BY <2>1, <3>1, RowTypes, Zenon
    <3> HIDE DEF done
    <3>3. [done EXCEPT !.kind = cron.kind] \in Cron
      BY <1>1, <3>2, Zenon DEF Cron
    <3> QED
      BY <1>1, <1>8, <3>3, Zenon DEF markFired, done
  <2>3. fire' \in [Call -> Fire] /\ FiresAtSlot' /\ proc' \in [Process -> P] /\ lock' \in Process \cup {Nowhere}
    BY <1>2, <1>3, <1>4, <1>8, Zenon DEF markFired, Done
  <2>4. overtaken' \in BOOLEAN /\ taken' = fire[c].slot /\ UNCHANGED <<now, jobs, events>>
    BY <1>8, Zenon DEF markFired
  <2> QED
    BY <2>1, <2>2, <2>3, <2>4, Zenon DEF OwnTypes
<1>9. CASE settleManual(c)
  BY <1>2, <1>9, Zenon DEF settleManual, Done, OwnTypes
<1> QED
  BY <1>5, <1>6, <1>7, <1>8, <1>9, Zenon

(* A statement on the row rejects.                                         *)
LEMMA ThrowStep ==
  ASSUME OwnTypes, FiresAtSlot, NEW c \in Call, claimThrows(c) \/ fireThrows(c) \/ settleThrows(c)
  PROVE  OwnTypes' /\ FiresAtSlot'
<1>1. fire[c] \in Fire /\ cron \in Cron /\ Legal(fire[c])
  BY Zenon DEF OwnTypes, FiresAtSlot
<1>2. events' \in 0..MaxEvents
  <2>1. Event
    BY Zenon DEF claimThrows, fireThrows, settleThrows, Fault
  <2> QED
    BY <2>1, Bounds DEF Event, OwnTypes
<1>3. ASSUME fire' = [fire EXCEPT ![c] = NoFire] PROVE fire' \in [Call -> Fire] /\ FiresAtSlot'
  <2>1. Legal(NoFire)
    BY NoFireType, Zenon DEF Legal
  <2> QED
    BY <1>3, <2>1, NoFireType, FireUpdate, Zenon
<1>4. CASE claimThrows(c)
  <2>1. fire[c].slot \in Time /\ fire[c].t \in Time
    BY <1>1, <1>4, Zenon DEF claimThrows, Legal, Fire
  <2>2. cron' \in Cron /\ taken' \in Time \cup {NoTime}
    <3>1. claimed(cron, fire[c].slot, fire[c].t) \in Cron
      BY <1>1, <2>1, RowTypes, Zenon
    <3> QED
      BY <1>1, <1>4, <3>1, Zenon DEF claimThrows, OwnTypes
  <2>3. fire' \in [Call -> Fire] /\ FiresAtSlot'
    BY <1>3, <1>4, Zenon DEF claimThrows
  <2> QED
    BY <1>2, <1>4, <2>2, <2>3, Zenon DEF claimThrows, OwnTypes
<1>5. CASE fireThrows(c)
  <2> DEFINE x == [fire[c] EXCEPT !.step = "threw"]
  <2>1. x \in Fire /\ Legal(x)
    BY <1>1, <1>5, Zenon DEF Fire, Legal, fireThrows
  <2>2. fire' = [fire EXCEPT ![c] = x]
    BY <1>5, Zenon DEF fireThrows
  <2> HIDE DEF x
  <2>3. fire' \in [Call -> Fire] /\ FiresAtSlot'
    BY <2>1, <2>2, FireUpdate, Zenon
  <2> QED
    BY <1>2, <1>5, <2>3, Zenon DEF fireThrows, OwnTypes
<1>6. CASE settleThrows(c)
  <2>1. fire' \in [Call -> Fire] /\ FiresAtSlot'
    BY <1>3, <1>6, Zenon DEF settleThrows, Done
  <2>2. taken' \in Time \cup {NoTime}
    BY <1>6, Zenon DEF settleThrows, OwnTypes
  <2>3. /\ proc' \in [Process -> [mode: {"off", "queue", "interval", "stopped"}, hold: {"no", "tick", "guard"}]]
        /\ lock' \in Process \cup {Nowhere}
    <3>1. fire[c].home \in Process \cup {Nowhere}
      BY <1>1, Zenon DEF Fire
    <3>2. CASE unhold(fire[c].home)
      BY <3>1, <3>2, Zenon DEF unhold, OwnTypes
    <3> QED
      BY <1>6, <3>2, Zenon DEF settleThrows, OwnTypes
  <2> QED
    BY <1>2, <1>6, <2>1, <2>2, <2>3, Zenon DEF settleThrows, OwnTypes
<1> QED
  BY <1>4, <1>5, <1>6, Zenon

(* What users do to the row.                                               *)
LEMMA UserStep ==
  ASSUME OwnTypes, FiresAtSlot, NEW p \in Process, user(p)
  PROVE  OwnTypes' /\ FiresAtSlot'
<1>1. UNCHANGED <<now, proc, lock, fire, overtaken>>
  BY Zenon DEF user
<1>2. events' \in 0..MaxEvents
  BY Bounds DEF user, Event, OwnTypes
<1>3. cron' \in Cron /\ taken' \in Time \cup {NoTime}
  <2>1. ASSUME NEW content \in Content, create(p, content) PROVE cron' \in Cron /\ taken' \in Time \cup {NoTime}
    <3> DEFINE row == withSchedule(NoCron, content)
    <3>1. row \in Cron /\ content.message \in BOOLEAN
      BY RowTypes, Bounds, Zenon
    <3> HIDE DEF row
    <3>2. [row EXCEPT !.present = TRUE, !.enabled = TRUE, !.message = content.message] \in Cron
      BY <3>1, Zenon DEF Cron
    <3> QED
      BY <2>1, <3>2, Zenon DEF create, row
  <2>2. ASSUME NEW content \in Content, reschedule(p, content)
        PROVE  cron' \in Cron /\ taken' \in Time \cup {NoTime}
    BY <2>2, RowTypes, Zenon DEF reschedule, OwnTypes
  <2>3. ASSUME NEW on \in BOOLEAN, switch(p, on) PROVE cron' \in Cron /\ taken' \in Time \cup {NoTime}
    BY <2>3, RowTypes, Zenon DEF switch, OwnTypes
  <2>4. ASSUME archive(p) PROVE cron' \in Cron /\ taken' \in Time \cup {NoTime}
    BY <2>4, Zenon DEF archive, OwnTypes, Cron
  <2>5. ASSUME delete PROVE cron' \in Cron /\ taken' \in Time \cup {NoTime}
    BY <2>5, RowTypes, Zenon DEF delete
  <2> QED
    BY <2>1, <2>2, <2>3, <2>4, <2>5, Zenon DEF user
<1>4. jobs' \subseteq Nat
  <2>1. recoverNextFireAt(cron') \in Nat \cup {NoTime}
    BY <1>3, SlotTypes, Zenon
  <2>2. Slots(cron') \subseteq Nat
    BY <2>1, Zenon DEF Slots
  <2> QED
    BY <2>2, Zenon DEF user, create, reschedule, switch, archive, delete, notifyChanged, enqueueFire, OwnTypes
<1>5. FiresAtSlot'
  BY <1>1, Zenon DEF FiresAtSlot, Legal
<1> QED
  BY <1>1, <1>2, <1>3, <1>4, <1>5, Zenon DEF OwnTypes

(* The clock, the turns and a call's own steps leave the scheduler alone.  *)
LEMMA OtherStep ==
  ASSUME OwnTypes, FiresAtSlot,
         clock \/ turnEnds \/ (\E c \in Call : step(c) \/ fail(c)) \/ UNCHANGED allVars
  PROVE  OwnTypes' /\ FiresAtSlot'
<1>1. UNCHANGED <<cron, jobs, proc, lock, fire, taken, overtaken>>
  BY Zenon DEF clock, turnEnds, step, fail, cronVars, allVars
<1>2. now' \in Time
  <2>1. CASE clock
    BY <2>1, Bounds DEF clock, OwnTypes, Time
  <2> QED
    BY <2>1, Zenon DEF turnEnds, step, fail, cronVars, allVars, OwnTypes
<1>3. events' \in 0..MaxEvents
  <2>1. ASSUME NEW c \in Call, fail(c) PROVE events' \in 0..MaxEvents
    BY <2>1, Bounds DEF fail, Fault, Event, OwnTypes
  <2> QED
    BY <2>1, Zenon DEF clock, turnEnds, step, cronVars, allVars, OwnTypes
<1>4. FiresAtSlot'
  BY <1>1, Zenon DEF FiresAtSlot, Legal
<1> QED
  BY <1>1, <1>2, <1>3, <1>4, Zenon DEF OwnTypes

(* Every step keeps the invariant.                                         *)
LEMMA CronStep == CIInv /\ [CronNext]_allVars => CIInv'
<1> SUFFICES ASSUME CIInv, [CronNext]_allVars PROVE CIInv'
  BY Zenon
<1>1. OwnTypes /\ FiresAtSlot /\ TIInv /\ SlotInv
  BY Zenon DEF CIInv, TIInv, SlotInv
<1>2. TIInv'
  BY <1>1, RefinesStep, TriggersStep, Zenon
<1>3. OwnTypes' /\ FiresAtSlot'
  BY <1>1, ProcessStep, CrashStep, StartFireStep, ClaimSlotStep, SettleStep, ThrowStep, UserStep,
     OtherStep, Zenon
     DEF CronNext, proceed
<1>4. FiringsOK' /\ SlotsOK'
  BY <1>1, <1>3, NextSlots, Zenon
<1> QED
  BY <1>2, <1>3, <1>4, Zenon DEF CIInv

(* The invariant holds in every reachable state.                           *)
THEOREM CronInvariance == CronSpec => []CIInv
<1>1. CIInv /\ [CronNext]_allVars => CIInv'
  BY CronStep, Zenon
<1> QED
  BY <1>1, CronInitInv, PTL DEF CronSpec

(* Every variable of scheduler, triggers and outbox keeps its type.        *)
THEOREM CronTypeCorrect == CronSpec => []CronTypeOK
<1>1. CIInv => CronTypeOK
  BY Zenon DEF CIInv, TIInv, OwnTypes, CronTypeOK
<1> QED
  BY <1>1, CronInvariance, PTL

(* The scheduler implements the specification of triggers: fireJob, the    *)
(* ticks and runNow use runTrigger as it expects, whatever fails between.  *)
THEOREM CronRefines == CronSpec => ImplementsTriggers
<1>1. CronInit => TriggersInit
  BY Zenon DEF CronInit
<1>2. CIInv /\ [CronNext]_allVars => [TriggersNext]_allTriggerVars
  BY RefinesStep, Zenon DEF CIInv
<1> QED
  BY <1>1, <1>2, CronInvariance, PTL DEF CronSpec, ImplementsTriggers, TriggersSpec, allTriggerVars

(* A slot the scheduler finds on record is delivered or was not to be, and *)
(* is in the outbox once: a retry that skips it loses nothing.             *)
THEOREM CronFiresSafely == CronSpec => [](CommittedIsDone /\ OneInFlight /\ AckSticks)
<1>1. CIInv => CommittedIsDone /\ OneInFlight /\ AckSticks
  BY Zenon DEF CIInv, TIInv, IInv
<1> QED
  BY <1>1, CronInvariance, PTL

(* Slots: the last one is not lost and none is fired twice at a time.      *)

(* The slot claimed or marked last is not lost, however many processes     *)
(* fire and whatever fails, beyond the exceptions LastSlotKept names.      *)
THEOREM LastSlotNotLost == CronSpec => []LastSlotKept
<1>1. CIInv => LastSlotKept
  <2> SUFFICES ASSUME CIInv PROVE LastSlotKept
    BY Zenon
  <2>1. SlotInv
    BY Zenon DEF CIInv, TIInv, SlotInv
  <2>2. ASSUME NEW c \in Call, Carries(c) PROVE fire[c].slot = taken /\ fire[c].step # "idle"
    BY <2>1, <2>2, AtProcess, Zenon DEF Carries, Claimant
  <2> QED
    BY <2>1, <2>2, Zenon DEF SlotInv, SlotsOK, TakenKept, LastSlotKept
<1> QED
  BY <1>1, CronInvariance, PTL

(* No slot of a schedule is claimed by two firings of the queue at once.   *)
THEOREM SlotsClaimedByOne == CronSpec => []ClaimedByOne
<1>1. CIInv => ClaimedByOne
  BY Zenon DEF CIInv, SlotsOK
<1> QED
  BY <1>1, CronInvariance, PTL
=============================================================================
