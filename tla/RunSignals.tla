----------------------------- MODULE RunSignals -----------------------------
(***************************************************************************)
(* Messages that reach a thread while a run of it is live: api/app-turn.ts *)
(* turns them into signals of that run, the run's harness polls for them   *)
(* (runs/run-signal-store.ts, harness/pi-harness.ts), and what it leaves   *)
(* behind is replayed as fresh turns by the caller, by the run's terminal  *)
(* listener and by a sweeper (api/app-helpers.ts, wiring.ts).              *)
(*                                                                         *)
(* One thread.  A run is named by the message it answers.  The run store   *)
(* is the abstract RunQueue, which RunStore implements; the transcript is  *)
(* the SessionStore extended here, of which people's messages and the      *)
(* replies are kept, not the notes to the model.                           *)
(***************************************************************************)
EXTENDS SessionStore, FiniteSets

CONSTANTS
  Message,     \* what is sent to the thread
  Process,     \* replicas: each serves calls, sweeps and works on one run
  None,
  Thread,      \* the session
  Reply,       \* the entry that ends a turn
  First,       \* the message whose run is queued when the others arrive
  MaxSpells,   \* bound: claims of one run, the last of which ends it
  Kinds,       \* kinds of message explored
  Faults,      \* kinds of fault explored: "error", "crash", "stall", "replay", "steer", "persist"
  MaxEvents    \* bound: arrivals and faults together, an unusual message being two

(* "plain" and "stop": a person's message; "blank": one without text, such *)
(* as files alone; "bare": a steer from the web, sent to a run by its id   *)
(* and without its request (signalRun); "auto": a trigger's turn, which    *)
(* never steers.                                                           *)
Kind == {"plain", "stop", "blank", "bare", "auto"}

(* How a message ends short of a run of its own: the model heard it;       *)
(* onSteer handed it over when the prompt had ended; the model heard what  *)
(* was not recorded; the code let it go by its rules; it was lost.         *)
Fate == {"none", "heard", "unread", "unrecorded", "dropped", "lost"}

ASSUME SignalsAssumption ==
  /\ SessionId = {Thread} /\ Record = Message \cup {Reply}
  /\ None \notin Message /\ Reply \notin Message
  /\ First \in Message
  /\ MaxSpells \in Nat \ {0} /\ MaxEvents \in Nat /\ Kinds \subseteq Kind

VARIABLES
  phase,     \* [Message -> phase of the message's own run]
  born,      \* the runs in the order they were enqueued
  spell,     \* [Message -> claims of the run so far]
  kind,      \* [Message -> what it is]
  signals,   \* run_signals: the rows not consumed
  serial,    \* the id of the last row inserted
  sentAt,    \* history: [Message -> id of the last row that carried it]
  job,       \* [Job -> the calls of app.turn and of replayOrphanedRunSignals]
  turn,      \* [Process -> the run it works on and the poll of its signals]
  fate,      \* history: [Message -> how it ended, short of a run of its own]
  faults,    \* history: faults so far
  stalled    \* history: some run was taken from a process still at it

queueVars == <<phase, born, spell>>
messageVars == <<kind, fate>>
faultVars == <<faults, stalled>>
tableVars == <<signals, serial, sentAt>>
signalVars == <<sessionVars, queueVars, messageVars, tableVars, job, turn, faultVars>>

Queue == INSTANCE RunQueue WITH RunId <- Message, Session <- SessionId,
                                thread <- [m \in Message |-> Thread]

Job == {"turn", "end"} \X Message \cup {"sweep"} \X Process

(* A row; and one that replayOrphanedRunSignals has taken and not come to  *)
(* yet, with the depth of that call, since app.turn may call it in turn.   *)
Row == [to: Message, msg: Message, id: Nat]
Waiting == [msg: Message, id: Nat, depth: Nat]

(* A job passes one message at a time to app.turn (msg, at the given       *)
(* depth; 0 is the caller's own), which looks for a run to send it to; the *)
(* others wait.                                                            *)
JobState == [pc: {"none", "take", "look", "enqueue", "send", "check"},
             msg: Message \cup {None}, depth: Nat, todo: SUBSET Waiting,
             to: Message \cup {None}, at: Process \cup {None}]

TurnState ==
  [pc: {"idle", "claimed", "leased", "streaming", "ended", "stopping", "closing",
        "unwind", "report"},
   run: Message \cup {None}, spell: Nat, lease: Nat, ok: BOOLEAN,
   poll: {"off", "quiet", "taking", "dispatching"},
   batch: SUBSET Row]

(* The rows, jobs and turns that are well formed.                          *)
SignalsTypeOK ==
  /\ SessionTypeOK
  /\ phase \in [Message -> Queue!Phase] /\ born \in Seq(Message)
  /\ spell \in [Message -> 0..MaxSpells]
  /\ kind \in [Message -> Kind \cup {"none"}]
  /\ signals \subseteq Row /\ serial \in Nat /\ sentAt \in [Message -> Nat]
  /\ job \in [Job -> JobState]
  /\ turn \in [Process -> TurnState]
  /\ fate \in [Message -> Fate]
  /\ faults \in Nat /\ stalled \in BOOLEAN

NoJob == [pc |-> "none", msg |-> None, depth |-> 0, todo |-> {}, to |-> None, at |-> None]
NoTurn == [pc |-> "idle", run |-> None, spell |-> 0, lease |-> 0, ok |-> TRUE,
           poll |-> "off", batch |-> {}]

SignalsInit ==
  /\ SessionInit
  /\ phase = [m \in Message |-> IF m = First THEN "pending" ELSE "absent"]
  /\ born = <<First>>
  /\ spell = [m \in Message |-> 0]
  /\ \E k \in Kinds \ {"bare"} : kind = [m \in Message |-> IF m = First THEN k ELSE "none"]
  /\ signals = {} /\ serial = 0 /\ sentAt = [m \in Message |-> 0]
  /\ job = [j \in Job |-> NoJob]
  /\ turn = [p \in Process |-> NoTurn]
  /\ fate = [m \in Message |-> "none"]
  /\ faults = 0 /\ stalled = FALSE

(* How much has happened, and whether more may.                            *)
Room(n) ==
  faults + Cardinality({m \in Message : kind[m] # "none"})
    + Cardinality({m \in Message : kind[m] \notin {"none", "plain"}}) + n <= MaxEvents

Fault(k) == k \in Faults /\ Room(1) /\ faults' = faults + 1
Quiet == UNCHANGED faultVars

-----------------------------------------------------------------------------
isTerminal(r) == phase[r] \in {"done", "failed"}

(* The newest run of the thread that is pending or running.                *)
activeForThread(r) ==
  \E i \in DOMAIN born :
    /\ born[i] = r /\ ~isTerminal(r)
    /\ \A k \in i + 1..Len(born) : isTerminal(born[k])

(* The rows of a run.                                                      *)
Pending(r) == {x \in signals : x.to = r}

(* Mutants: the rows come in no particular order; they are read, but not   *)
(* marked.                                                                 *)
foremostAny(x, rows) == TRUE
consumeLater(r) == UNCHANGED signals

(* takePending: one UPDATE marks the rows of a run consumed; the rows it   *)
(* returns are sorted by id, so that the foremost is the next.             *)
consume(r) == signals' = signals \ Pending(r)
foremost(x, rows) == \A y \in rows : x.id <= y.id

(* Of the signals an ended run left behind, those that are replayed; an    *)
(* abort, or a steer without its request, is dropped.                      *)
Replayable(m) == kind[m] = "plain"
Drop(rows) == fate' = [m \in Message |-> IF ~Replayable(m) /\ \E x \in rows : x.msg = m
                                           THEN "dropped" ELSE fate[m]]

(* The job goes on to its next message, of the innermost call, or ends.    *)
Proceed(j, todo) ==
  \/ todo = {} /\ job' = [job EXCEPT ![j] = NoJob]
  \/ \E x \in todo :
       /\ \A y \in todo : y.depth <= x.depth
       /\ foremost(x, {y \in todo : y.depth = x.depth})
       /\ job' = [job EXCEPT ![j] = [pc |-> "look", msg |-> x.msg, depth |-> x.depth,
                                     todo |-> todo \ {x}, to |-> None, at |-> @.at]]

(* replayOrphanedRunSignals(r), called by j at its present depth: it       *)
(* awaits a turn for each message in order before the call returns.        *)
replayOrphanedRunSignals(j, r) ==
  /\ consume(r)
  /\ Drop(Pending(r))
  /\ Proceed(j, job[j].todo \cup {[msg |-> x.msg, id |-> x.id, depth |-> job[j].depth + 1] :
                                    x \in {x \in Pending(r) : Replayable(x.msg)}})

-----------------------------------------------------------------------------
(* The API: a message arrives at some replica ...                          *)
arrive(m, k, p) ==
  /\ kind[m] = "none" /\ k # "bare" /\ Room(IF k = "plain" THEN 1 ELSE 2)
  /\ kind' = [kind EXCEPT ![m] = k]
  /\ job' = [job EXCEPT ![<<"turn", m>>] =
               [NoJob EXCEPT !.pc = "look", !.msg = m, !.at = p]]
  /\ UNCHANGED <<sessionVars, queueVars, tableVars, turn, fate>> /\ Quiet

(* ... or a web user steers a run, which signalRun refuses if it is over.  *)
signalRun(m, r, p) ==
  /\ "bare" \in Kinds /\ kind[m] = "none" /\ phase[r] # "absent" /\ Room(2)
  /\ kind' = [kind EXCEPT ![m] = "bare"]
  /\ IF isTerminal(r)
       THEN fate' = [fate EXCEPT ![m] = "dropped"] /\ UNCHANGED job
       ELSE /\ job' = [job EXCEPT ![<<"turn", m>>] =
                         [NoJob EXCEPT !.pc = "send", !.msg = m, !.to = r, !.at = p]]
            /\ UNCHANGED fate
  /\ UNCHANGED <<sessionVars, queueVars, tableVars, turn>> /\ Quiet

(* A trigger's turn steers no run, and no person's message, unless it says *)
(* stop, steers a trigger's run.                                           *)
Steers(m, r) == kind[m] # "auto" /\ (kind[r] = "auto" => kind[m] = "stop")

(* app.turn looks for a live run to steer.                                 *)
look(j) ==
  /\ job[j].pc = "look"
  /\ \/ /\ \/ \A r \in Message : ~activeForThread(r)
           \/ \E r \in Message : activeForThread(r) /\ ~Steers(job[j].msg, r)
        /\ job' = [job EXCEPT ![j].pc = "enqueue"]
     \/ \E r \in Message :
          /\ activeForThread(r) /\ Steers(job[j].msg, r) /\ kind[job[j].msg] # "blank"
          /\ job' = [job EXCEPT ![j].pc = "send", ![j].to = r]
  /\ UNCHANGED <<sessionVars, queueVars, messageVars, tableVars, turn>> /\ Quiet

(* routeWake drops a message without text that would steer a live run.     *)
dropEmpty(j) ==
  /\ job[j].pc = "look" /\ kind[job[j].msg] = "blank"
  /\ \E r \in Message : activeForThread(r) /\ Steers(job[j].msg, r)
  /\ fate' = [fate EXCEPT ![job[j].msg] = "dropped"]
  /\ Proceed(j, job[j].todo)
  /\ UNCHANGED <<sessionVars, queueVars, kind, tableVars, turn>> /\ Quiet

(* A turn of its own.                                                      *)
enqueue(j) ==
  /\ job[j].pc = "enqueue"
  /\ Queue!Submit(job[j].msg) /\ born' = Append(born, job[j].msg)
  /\ Proceed(j, job[j].todo)
  /\ UNCHANGED <<sessionVars, spell, messageVars, tableVars, turn>> /\ Quiet

(* RunSignalStore.send.                                                    *)
send(j) ==
  /\ job[j].pc = "send"
  /\ serial' = serial + 1
  /\ signals' = signals \cup {[to |-> job[j].to, msg |-> job[j].msg, id |-> serial']}
  /\ sentAt' = [sentAt EXCEPT ![job[j].msg] = serial']
  /\ job' = [job EXCEPT ![j].pc = "check"]
  /\ UNCHANGED <<sessionVars, queueVars, messageVars, turn>> /\ Quiet

(* The run is read again: had it ended by the time the signal was sent,    *)
(* the caller replays what is pending, its own signal included (signalRun  *)
(* then answers that it did not accept).                                   *)
check(j) ==
  /\ job[j].pc = "check"
  /\ IF isTerminal(job[j].to)
       THEN replayOrphanedRunSignals(j, job[j].to)
       ELSE Proceed(j, job[j].todo) /\ UNCHANGED <<signals, fate>>
  /\ UNCHANGED <<sessionVars, queueVars, kind, serial, sentAt, turn>> /\ Quiet

(* The terminal listener of a run, in the process that ended it.           *)
listener(r) ==
  /\ job[<<"end", r>>].pc = "take"
  /\ replayOrphanedRunSignals(<<"end", r>>, r)
  /\ UNCHANGED <<sessionVars, queueVars, kind, serial, sentAt, turn>> /\ Quiet

(* Mutant: only failed runs leave signals behind.                          *)
orphanedSignalSweeperFailed(p, r) ==
  /\ job[<<"sweep", p>>].pc = "none"
  /\ phase[r] = "failed" /\ Pending(r) # {}
  /\ replayOrphanedRunSignals(<<"sweep", p>>, r)
  /\ UNCHANGED <<sessionVars, queueVars, kind, serial, sentAt, turn>> /\ Quiet

(* The sweeper: pendingRunIds, then the runs that are over.  What it read  *)
(* first may be stale, but the end of a run is final.                      *)
orphanedSignalSweeper(p, r) ==
  /\ job[<<"sweep", p>>].pc = "none"
  /\ isTerminal(r) /\ Pending(r) # {}
  /\ replayOrphanedRunSignals(<<"sweep", p>>, r)
  /\ UNCHANGED <<sessionVars, queueVars, kind, serial, sentAt, turn>> /\ Quiet

(* A replayed turn that throws is swallowed, and its message with it.      *)
replayThrows(j) ==
  /\ job[j].pc = "look" /\ job[j].depth > 0
  /\ Fault("replay")
  /\ fate' = [fate EXCEPT ![job[j].msg] = "lost"]
  /\ Proceed(j, job[j].todo)
  /\ UNCHANGED <<sessionVars, queueVars, kind, tableVars, turn, stalled>>

-----------------------------------------------------------------------------
(* A worker claims a run ...                                               *)
claim(p, r) ==
  /\ turn[p].pc = "idle"
  /\ Queue!Start(r)
  /\ spell' = [spell EXCEPT ![r] = @ + 1]
  /\ turn' = [turn EXCEPT ![p] = [NoTurn EXCEPT !.pc = "claimed", !.run = r,
                                                !.spell = spell[r] + 1]]
  /\ UNCHANGED <<sessionVars, born, messageVars, tableVars, job>> /\ Quiet

(* ... and takes the session lease, or is refused: "session busy".         *)
acquire(p) ==
  /\ turn[p].pc = "claimed"
  /\ IF Acquirable(Thread)
       THEN /\ acquireLease(Thread)
            /\ turn' = [turn EXCEPT ![p].pc = "leased", ![p].lease = issued'[Thread]]
       ELSE turn' = [turn EXCEPT ![p].pc = "report"] /\ UNCHANGED sessionVars
  /\ UNCHANGED <<queueVars, messageVars, tableVars, job>> /\ Quiet

transcript == log[Thread]
InTranscript(m) == \E i \in DOMAIN transcript : transcript[i].record = m

(* Mutant: the second attempt is not taken for a retry.                    *)
findTrailingPartialTurnLate(p) ==
  /\ kind[turn[p].run] # "blank"
  /\ turn[p].spell > 2 /\ transcript # <<>> /\ transcript[Len(transcript)].record = turn[p].run

(* The retry of a run whose request is the last thing said resumes it.  It *)
(* is told by its text: one without text is not found.                     *)
findTrailingPartialTurn(p) ==
  /\ kind[turn[p].run] # "blank"
  /\ turn[p].spell > 1 /\ transcript # <<>> /\ transcript[Len(transcript)].record = turn[p].run

holdsSession(p) == HoldsLease(Thread, turn[p].lease)

(* The request is recorded, unless it is resumed, and the harness starts   *)
(* the poll and the prompt.  A lost session lease ends the turn.           *)
prompt(p) ==
  /\ turn[p].pc = "leased"
  /\ IF holdsSession(p) /\ ~findTrailingPartialTurn(p)
       THEN append(Thread, turn[p].lease, "entry", turn[p].run) ELSE UNCHANGED sessionVars
  /\ turn' = IF holdsSession(p)
               THEN [turn EXCEPT ![p].pc = "streaming", ![p].poll = "quiet"]
               ELSE [turn EXCEPT ![p].pc = "unwind", ![p].ok = FALSE]
  /\ UNCHANGED <<queueVars, messageVars, tableVars, job>> /\ Quiet

(* startSignalPoll.  The timer or a notification starts a drain, unless    *)
(* one is under way (one that would find nothing is left out) ...          *)
drain(p) ==
  /\ turn[p].poll = "quiet" /\ turn[p].pc \in {"streaming", "ended"}   \* accepting
  /\ Pending(turn[p].run) # {}
  /\ turn' = [turn EXCEPT ![p].poll = "taking"]
  /\ UNCHANGED <<sessionVars, queueVars, messageVars, tableVars, job>> /\ Quiet

(* ... which takes what is pending ...                                     *)
takePending(p) ==
  /\ turn[p].poll = "taking"
  /\ consume(turn[p].run)
  /\ LET batch == Pending(turn[p].run)
     IN turn' = [turn EXCEPT ![p].batch = batch,
                   ![p].poll = IF batch = {} THEN "quiet" ELSE "dispatching"]
  /\ UNCHANGED <<sessionVars, queueVars, messageVars, serial, sentAt, job>> /\ Quiet

(* Is the process still the one that the run is claimed by?                *)
Current(p) == phase[turn[p].run] = "running" /\ spell[turn[p].run] = turn[p].spell

(* The batch goes on, or the drain is over.                                *)
Dispatched(t, x) == [t EXCEPT !.batch = @ \ {x},
                              !.poll = IF t.batch = {x} THEN "quiet" ELSE "dispatching"]

(* onAbort ends a prompt that still streams.                               *)
Aborted(t) == [t EXCEPT !.pc = IF @ = "streaming" THEN "ended" ELSE @]

(* Mutant: the timestamps seen are those of the thread.                    *)
steeredSeenAny(m) == transcript # <<>>

(* recordedMessageTimestamps.                                              *)
steeredSeen(m) == InTranscript(m)

(* turn.emit of a steered message: once, and under the session lease.      *)
emit(p, m) ==
  IF holdsSession(p) /\ ~steeredSeen(m)
    THEN append(Thread, turn[p].lease, "entry", m) ELSE UNCHANGED sessionVars

(* ... and hands it to the prompt, one after the other: onAbort ends the   *)
(* prompt; onSteer records the message if it has a timestamp, as a web     *)
(* user's has not, swallowing a failure to do so, and queues it for the    *)
(* model, which reads its queue only while it streams.                     *)
dispatch(p) ==
  /\ turn[p].poll = "dispatching"
  /\ \E x \in turn[p].batch :
       /\ foremost(x, turn[p].batch)
       /\ fate' = [fate EXCEPT ![x.msg] =
                     IF ~Current(p) THEN "lost"
                     ELSE IF turn[p].pc = "streaming" THEN "heard" ELSE "unread"]
       /\ IF kind[x.msg] = "stop"
            THEN turn' = [turn EXCEPT ![p] = Aborted(Dispatched(@, x))] /\ UNCHANGED sessionVars
            ELSE /\ turn' = [turn EXCEPT ![p] = Dispatched(@, x)]
                 /\ IF kind[x.msg] = "bare" THEN UNCHANGED sessionVars ELSE emit(p, x.msg)
  /\ UNCHANGED <<queueVars, kind, tableVars, job>> /\ Quiet

(* The append of a steered message rejects while the lease is held: this   *)
(* is swallowed too, and the model is told what nothing recorded.          *)
dispatchUnrecorded(p) ==
  /\ turn[p].poll = "dispatching"
  /\ Fault("persist")
  /\ \E x \in turn[p].batch :
       /\ foremost(x, turn[p].batch) /\ kind[x.msg] = "plain" /\ ~steeredSeen(x.msg)
       /\ fate' = [fate EXCEPT ![x.msg] = "unrecorded"]
       /\ turn' = [turn EXCEPT ![p] = Dispatched(@, x)]
  /\ UNCHANGED <<sessionVars, queueVars, kind, tableVars, job, stalled>>

(* A handler throws: onError swallows it with the rest of the batch.       *)
dispatchThrows(p) ==
  /\ turn[p].poll = "dispatching"
  /\ Fault("steer")
  /\ fate' = [m \in Message |-> IF \E x \in turn[p].batch : x.msg = m THEN "lost" ELSE fate[m]]
  /\ turn' = [turn EXCEPT ![p].batch = {}, ![p].poll = "quiet"]
  /\ UNCHANGED <<sessionVars, queueVars, kind, tableVars, job, stalled>>

(* The prompt returns or throws ...                                        *)
promptEnds(p) ==
  /\ turn[p].pc = "streaming"
  /\ turn' = [turn EXCEPT ![p].pc = "ended"]
  /\ UNCHANGED <<sessionVars, queueVars, messageVars, tableVars, job>> /\ Quiet
promptThrows(p) ==
  /\ turn[p].pc = "streaming"
  /\ Fault("error")
  /\ turn' = [turn EXCEPT ![p].pc = "ended", ![p].ok = FALSE]
  /\ UNCHANGED <<sessionVars, queueVars, messageVars, tableVars, job, stalled>>

(* ... and the poll is stopped: no drain starts any more, ...              *)
stopSignalPoll(p) ==
  /\ turn[p].pc = "ended"
  /\ turn' = [turn EXCEPT ![p].pc = "stopping"]
  /\ UNCHANGED <<sessionVars, queueVars, messageVars, tableVars, job>> /\ Quiet

(* ... and the one under way is awaited.                                   *)
pollStopped(p) ==
  /\ turn[p].pc = "stopping" /\ turn[p].poll = "quiet"
  /\ turn' = [turn EXCEPT ![p].pc = IF turn[p].ok THEN "closing" ELSE "unwind",
                          ![p].poll = "off"]
  /\ UNCHANGED <<sessionVars, queueVars, messageVars, tableVars, job>> /\ Quiet

(* The reply is recorded, which fails without the session lease.           *)
emitReply(p) ==
  /\ turn[p].pc = "closing"
  /\ turn' = [turn EXCEPT ![p].pc = "unwind", ![p].ok = holdsSession(p)]
  /\ IF holdsSession(p) THEN append(Thread, turn[p].lease, "entry", Reply) ELSE UNCHANGED sessionVars
  /\ UNCHANGED <<queueVars, messageVars, tableVars, job>> /\ Quiet

unwind(p) ==
  /\ turn[p].pc = "unwind"
  /\ turn' = [turn EXCEPT ![p].pc = "report"]
  /\ releaseSessionLease(Thread, turn[p].lease)
  /\ UNCHANGED <<queueVars, messageVars, tableVars, job>> /\ Quiet

(* A run ends, and its listeners start in the process that ended it ...    *)
settle(r, p, outcome) ==
  /\ Queue!Settle(r) /\ phase'[r] = outcome
  /\ job' = [job EXCEPT ![<<"end", r>>] = [NoJob EXCEPT !.pc = "take", !.at = p]]

(* Mutant: one claim too many.                                             *)
retireLate(r, p) ==
  IF spell[r] <= MaxSpells THEN Queue!Yield(r) /\ UNCHANGED job ELSE settle(r, p, "failed")

(* ... or, its claims not being used up, is queued again.                  *)
retire(r, p) ==
  IF spell[r] < MaxSpells THEN Queue!Yield(r) /\ UNCHANGED job ELSE settle(r, p, "failed")

(* complete or fail, which do nothing for a claim that is no longer held;  *)
(* some failures are not retried.                                          *)
report(p) ==
  /\ turn[p].pc = "report"
  /\ IF ~Current(p) THEN UNCHANGED <<phase, job>>
     ELSE IF turn[p].ok THEN settle(turn[p].run, p, "done")
     ELSE retire(turn[p].run, p) \/ settle(turn[p].run, p, "failed")
  /\ turn' = [turn EXCEPT ![p] = NoTurn]
  /\ UNCHANGED <<sessionVars, born, spell, messageVars, tableVars>> /\ Quiet

Held(r) == \E p \in Process : turn[p].run = r /\ turn[p].spell = spell[r]

(* The reaper, run by p, retires a run that nobody works on, or one whose  *)
(* worker has stalled but goes on later.                                   *)
reap(r, p) ==
  /\ phase[r] = "running"
  /\ IF Held(r) THEN Fault("stall") /\ stalled' = TRUE ELSE Quiet
  /\ retire(r, p)
  /\ UNCHANGED <<sessionVars, born, spell, messageVars, tableVars, turn>>

-----------------------------------------------------------------------------
(* The messages that only the process's memory holds: the one a job is at, *)
(* unless it has sent it, and those that wait.                             *)
AtHand(j, m) == job[j].pc \in {"look", "enqueue", "send"} /\ job[j].msg = m
WaitsOf(j, m) == {x \in job[j].todo : x.msg = m}
BatchOf(p, m) == {x \in turn[p].batch : x.msg = m}
Home(j) == IF j[1] = "sweep" THEN j[2] ELSE job[j].at

(* A process dies with all its calls and its turn, and is restarted.       *)
crash(p) ==
  /\ Fault("crash")
  /\ LET dead == {j \in Job : Home(j) = p}
         gone(m) == \/ \E j \in dead : AtHand(j, m) \/ WaitsOf(j, m) # {}
                   \/ BatchOf(p, m) # {}
     IN /\ fate' = [m \in Message |-> IF gone(m) THEN "lost" ELSE fate[m]]
        /\ job' = [j \in Job |-> IF j \in dead THEN NoJob ELSE job[j]]
  /\ turn' = [turn EXCEPT ![p] = NoTurn]
  /\ UNCHANGED <<sessionVars, queueVars, kind, tableVars, stalled>>

(* The session lease runs out, which shows only to a turn that wants it.   *)
expire ==
  /\ leases[Thread].expiresAt > 0 /\ SessionTick
  /\ \E p \in Process : turn[p].pc = "claimed"
  /\ UNCHANGED <<queueVars, messageVars, tableVars, job, turn>> /\ Quiet

sweepStep(p) == \E r \in Message : orphanedSignalSweeper(p, r)
pollStep(p) == drain(p) \/ takePending(p) \/ dispatch(p)
turnStep(p) ==
  \/ \E r \in Message : claim(p, r)
  \/ acquire(p) \/ prompt(p) \/ promptEnds(p)
  \/ stopSignalPoll(p) \/ pollStopped(p) \/ emitReply(p) \/ unwind(p) \/ report(p)
jobStep(j) == look(j) \/ dropEmpty(j) \/ enqueue(j) \/ send(j) \/ check(j)

SignalsNext ==
  \/ \E m \in Message, p \in Process : \/ \E k \in Kinds : arrive(m, k, p)
                                       \/ \E r \in Message : signalRun(m, r, p)
  \/ \E j \in Job : jobStep(j) \/ replayThrows(j)
  \/ \E r \in Message : listener(r) \/ \E p \in Process : reap(r, p)
  \/ \E p \in Process : \/ sweepStep(p) \/ pollStep(p) \/ turnStep(p)
                        \/ promptThrows(p) \/ dispatchUnrecorded(p) \/ dispatchThrows(p) \/ crash(p)
  \/ expire

SignalsSpec == SignalsInit /\ [][SignalsNext]_signalVars

(* Timers, awaited calls and the worker loops go on; a prompt is ended by  *)
(* its wall clock at the latest; the reaper finds a run nobody works on.   *)
(* No such step repeats for ever, so that it is enough that some are taken *)
(* as long as there are any.                                               *)
Progress ==
  \/ \E j \in Job : jobStep(j)
  \/ \E r \in Message : listener(r) \/ (~Held(r) /\ \E p \in Process : reap(r, p))
  \/ \E p \in Process : sweepStep(p) \/ pollStep(p) \/ turnStep(p)

FairSignalsSpec == SignalsSpec /\ WF_signalVars(Progress)

-----------------------------------------------------------------------------
RowsOf(m) == {x \in signals : x.msg = m}

(* The places where a message is at the moment.                            *)
Places(m) ==
  {<<"row", None, x>> : x \in RowsOf(m)}
  \cup {<<"call", j, None>> : j \in {j \in Job : AtHand(j, m)}}
  \cup (UNION {{<<"todo", j, x>> : x \in WaitsOf(j, m)} : j \in Job})
  \cup (UNION {{<<"poll", p, x>> : x \in BatchOf(p, m)} : p \in Process})
  \cup (IF phase[m] = "absent" THEN {} ELSE {<<"run", None, None>>})
  \cup (IF fate[m] = "none" THEN {} ELSE {<<"end", None, None>>})

(* A message that has arrived is in exactly one place: pending for some    *)
(* run, in the hands of one poll or one replay, the request of a run of    *)
(* its own, or at its end.  The poll of a run, the caller's check, the     *)
(* listener and the sweepers of all replicas take signals side by side,    *)
(* and none of them makes a message vanish or be handled twice.            *)
InOnePlace ==
  \A m \in Message :
    IF kind[m] = "none" THEN Places(m) = {} ELSE \E x \in Places(m) : Places(m) = {x}

(* What was said to a run in mid-turn survives the run: onSteer records it *)
(* before the model hears it, so that a retry, or the next turn, finds it  *)
(* in the transcript.  The exceptions are a turn that had lost its session *)
(* lease and a message whose own append was refused, both swallowed.       *)
SteeredIsRecorded ==
  \A m \in Message :
    fate[m] \in {"heard", "unread"} /\ kind[m] = "plain" => InTranscript(m) \/ stalled

(* What is recorded under one lease after the request itself is in the     *)
(* order in which it was sent.                                             *)
RecordedInOrder ==
  \A i, j \in DOMAIN transcript :
    LET a == transcript[i]
        b == transcript[j]
    IN i < j /\ a.token = b.token /\ {a.record, b.record} \subseteq Message
         => sentAt[a.record] < sentAt[b.record]

(* A retry puts its request to the model a second time only after          *)
(* something that followed it: a message that steered the first attempt,   *)
(* or a reply.  Otherwise findTrailingPartialTurn finds the request last   *)
(* and the retry resumes it.  (It never finds a request without text,      *)
(* which every retry repeats.  A first attempt that was taken for dead     *)
(* before it began is no retry, and repeats it when it wakes up.)          *)
RepeatsOnlyWhatIsPast ==
  \A i, j \in DOMAIN transcript :
    i < j /\ transcript[i].record = transcript[j].record /\ transcript[i].record \in Message
      => \/ stalled \/ kind[transcript[i].record] = "blank"
         \/ \E k \in i + 1..j - 1 : transcript[k].record # transcript[i].record

(* Every message that arrives is dealt with: it is heard by a run, or it   *)
(* has a run of its own that ends, or it is given up for a reason named.   *)
EveryMessageSettles ==
  \A m \in Message : kind[m] # "none" ~> fate[m] # "none" \/ phase[m] \in {"done", "failed"}
=============================================================================
