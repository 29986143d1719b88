--------------------------- MODULE TurnExecution ---------------------------
(***************************************************************************)
(* The run store and the session store closed with their real callers:     *)
(* the workers (runs/worker.ts: claim loop, processRun, releaseInFlight),  *)
(* the inline driver of the API (app-helpers.ts), the turn as far as it    *)
(* touches the two stores (core/orchestrator.ts: session lease, prompt     *)
(* entry, reply, failure record, release) and the reaper (runs/reaper.ts). *)
(* Processes stall, stop and die at any await.                             *)
(*                                                                         *)
(* What the model or the tools do in a turn is left open: the turn replies,*)
(* declines or throws.  Of the transcript only the entries that decide how *)
(* a retry continues are kept (turn-resume.ts).                            *)
(***************************************************************************)
EXTENDS Integers, Sequences

CONSTANTS
  RunId, Session, Worker, Sweeper, None, NoKey,
  Inline,       \* the workers that drive one given run for an API caller
  Blank,        \* the runs whose request has no text: an opener, or files only
  Synthetic,    \* those whose text no user wrote: automated turns, approval replays
  MaxAttempts, MaxClaims, Ttl, MaxAge, MaxSweep, MaxInstant, ClaimBound,
  SessionTtl, MaxLeases, MaxLog,
  LostBeats,    \* LEASE_LOST_CONSECUTIVE
  Faults,       \* kinds of fault explored: "stop", "release", "crash", "throw"
  MaxFaults     \* bound: how many of them

ASSUME StoreAssumption ==
  /\ MaxAttempts \in Nat \ {0} /\ MaxClaims \in Nat \ {0}
  /\ Ttl \in Nat \ {0} /\ MaxAge \in Nat /\ MaxSweep \in Nat
  /\ MaxInstant \in Nat /\ ClaimBound \in Nat
  /\ Session # {} /\ None \notin RunId
  /\ SessionTtl \in Nat \ {0} /\ MaxLeases \in Nat /\ MaxLog \in Nat
ASSUME TurnAssumption ==
  LostBeats \in Nat \ {0} /\ MaxFaults \in Nat /\ Blank \cup Synthetic \subseteq RunId

VARIABLES
  runs, claiming, failing, sweep, settling, settled, handbacks,   \* RunStore
  leases, issued, log,                                            \* SessionStore
  wk,       \* [Worker -> the local state of a worker and its turn]
  answer,   \* history: [RunId -> the kind of result stored for the run]
  faults    \* history: faults so far

runVars == <<runs, claiming, failing, sweep, settling, settled, handbacks>>
sessionVars == <<leases, issued, log>>
vars == <<runs, claiming, failing, sweep, settling, settled, handbacks,
          leases, issued, log, wk, answer, faults>>

(* A transcript entry: its type, the run it belongs to, the claim under    *)
(* which it was written.                                                   *)
Entry == [type: {"user", "note", "assistant", "failure"}, run: RunId, claim: 1..ClaimBound]

R == INSTANCE RunStore WITH DedupKey <- {}
S == INSTANCE SessionStore WITH SessionId <- Session, Record <- Entry

WorkerState ==
  [pc: {"idle", "handback", "turn", "leased", "prompt", "working", "replied", "throw",
        "unwind", "report", "failing"},
   run: RunId \cup {None}, token: Nat,        \* the claimed run and its lease token
   final: BOOLEAN,                            \* finalAttempt
   lease: Nat,                                \* the turn's session lease
   owed: BOOLEAN,                             \* the request is not yet in the transcript
   out: {"none", "answered", "declined", "refused", "error", "fatal"},
   lost: 0..LostBeats,                        \* consecutiveLost
   stopped: BOOLEAN,
   release: {"no", "beaten", "unlocked"},     \* progress of releaseInFlight
   releasedLeaseToken: Nat]

TypeOK ==
  /\ R!TypeOK /\ S!SessionTypeOK
  /\ wk \in [Worker -> WorkerState]
  /\ answer \in [RunId -> {"none", "answered", "declined", "refused"}]
  /\ faults \in 0..MaxFaults

Idle == [pc |-> "idle", run |-> None, token |-> 0, final |-> FALSE, lease |-> 0,
         owed |-> FALSE, out |-> "none", lost |-> 0, stopped |-> FALSE, release |-> "no",
         releasedLeaseToken |-> 0]

Init ==
  /\ R!Init /\ S!SessionInit
  /\ wk = [w \in Worker |-> Idle]
  /\ answer = [r \in RunId |-> "none"]
  /\ faults = 0

-----------------------------------------------------------------------------
thread(w) == runs[wk[w].run].sessionId

(* What heartbeat and releaseLease test.                                   *)
Alive(w) == runs[wk[w].run].status = "running" /\ R!Holds(wk[w].run, wk[w].token)

inFlight(w) == wk[w].pc \notin {"idle", "handback"}

(* cancel.abort() was called: the beats found the lease lost.              *)
cancelled(w) == wk[w].lost >= LostBeats

Goto(w, pc) == wk' = [wk EXCEPT ![w].pc = pc]
EndTurn(w, pc, out) == wk' = [wk EXCEPT ![w].pc = pc, ![w].out = out]

(* processRun is over; a release under way keeps what it captured.         *)
Done(x) ==
  [Idle EXCEPT !.stopped = x.stopped, !.release = x.release,
               !.releasedLeaseToken = x.releasedLeaseToken,
               !.run = IF x.release = "no" THEN None ELSE x.run,
               !.token = IF x.release = "no" THEN 0 ELSE x.token]

Finish(w) == wk' = [wk EXCEPT ![w] = Done(@)]

Fault(kind) == kind \in Faults /\ faults < MaxFaults /\ faults' = faults + 1

-----------------------------------------------------------------------------
submit(r, s) ==
  /\ R!enqueue(r, s, NoKey)
  /\ UNCHANGED <<sessionVars, wk, answer, faults>>

(* The worker loop asks for the next run, the API caller for its own.      *)
claim(w) ==
  /\ wk[w].pc = "idle" /\ ~wk[w].stopped
  /\ IF w \in Inline THEN \E r \in RunId : R!claimById(w, r) ELSE R!claim(w)
  /\ UNCHANGED <<sessionVars, wk, answer, faults>>

errorParks(run) == run.errorAttempts + 1 >= MaxAttempts \/ run.attempts >= MaxClaims

(* The claim returns: nothing, a run to process, or, stop() having been    *)
(* called meanwhile, a run to hand back.                                   *)
claimed(w) ==
  /\ R!leaseClaimed(w)
  /\ LET r == claiming[w]
     IN wk' = IF runs' = runs THEN wk
              ELSE [wk EXCEPT ![w] =
                      [@ EXCEPT !.pc = IF wk[w].stopped THEN "handback" ELSE "turn",
                                !.run = r, !.token = runs'[r].leaseToken,
                                !.final = errorParks(runs'[r])]]
  /\ UNCHANGED <<sessionVars, answer, faults>>

(* Mutant: the run is handed back by its id alone.                         *)
handBackById(w) ==
  /\ wk[w].pc = "handback"
  /\ runs' = [runs EXCEPT ![wk[w].run] = R!Unleased(@, "pending")]
  /\ handbacks' = [handbacks EXCEPT ![wk[w].run] = @ + 1]
  /\ Finish(w)
  /\ UNCHANGED <<claiming, failing, sweep, settling, settled, sessionVars, answer, faults>>

(* The post-stop handback.                                                 *)
handBack(w) ==
  /\ wk[w].pc = "handback"
  /\ IF Alive(w) THEN R!releaseLease(wk[w].run, wk[w].token) ELSE UNCHANGED runVars
  /\ Finish(w)
  /\ UNCHANGED <<sessionVars, answer, faults>>

-----------------------------------------------------------------------------
beating == {"turn", "leased", "prompt", "working", "replied", "throw", "unwind"}

(* Mutants: the timer outlives the cancellation; an error counts as a lost *)
(* beat.                                                                   *)
beatOn(w) ==
  /\ wk[w].pc \in beating
  /\ IF Alive(w) THEN R!heartbeat(wk[w].run, wk[w].token) /\ wk' = [wk EXCEPT ![w].lost = 0]
                ELSE wk' = [wk EXCEPT ![w].lost = @ + 1] /\ UNCHANGED runVars
  /\ UNCHANGED <<sessionVars, answer, faults>>
beatCountsErrors(w) ==
  /\ wk[w].pc \in beating /\ ~cancelled(w)
  /\ \/ R!heartbeat(wk[w].run, wk[w].token) /\ wk' = [wk EXCEPT ![w].lost = 0]
     \/ wk' = [wk EXCEPT ![w].lost = @ + 1] /\ UNCHANGED runVars
  /\ UNCHANGED <<sessionVars, answer, faults>>

(* The heartbeat timer of processRun, until handleTurn has returned.  An   *)
(* error counts as a beat that was not lost.                               *)
beat(w) ==
  /\ wk[w].pc \in beating /\ ~cancelled(w)
  /\ \/ /\ R!heartbeat(wk[w].run, wk[w].token)
        /\ wk' = [wk EXCEPT ![w].lost = 0]
     \/ /\ ~Alive(w)
        /\ wk' = [wk EXCEPT ![w].lost = @ + 1]
        /\ UNCHANGED runVars
     \/ /\ wk[w].lost > 0
        /\ wk' = [wk EXCEPT ![w].lost = 0]
        /\ UNCHANGED runVars
  /\ UNCHANGED <<sessionVars, answer, faults>>

(* handleTurn, up to the session lease: it may refuse or throw first.      *)
endEarly(w) ==
  /\ wk[w].pc = "turn"
  /\ \E out \in {"declined", "error"} : EndTurn(w, "report", out)
  /\ UNCHANGED <<runVars, sessionVars, answer, faults>>

(* Take the session lease, or return "session busy" as the result.         *)
acquire(w) ==
  /\ wk[w].pc = "turn"
  /\ IF S!Acquirable(thread(w))
       THEN /\ S!acquireLease(thread(w))
            /\ wk' = [wk EXCEPT ![w].pc = "leased", ![w].lease = issued'[thread(w)]]
       ELSE /\ EndTurn(w, "report", "refused")
            /\ UNCHANGED sessionVars
  /\ UNCHANGED <<runVars, answer, faults>>

(* Is the last request of the transcript this one, still unanswered?  It   *)
(* is told by its text: one without text is never found.                   *)
findTrailingPartialTurn(s, r) ==
  /\ r \notin Blank
  /\ \E i \in 1..Len(log[s]) :
       /\ log[s][i].record.type = "user" /\ log[s][i].record.run = r
       /\ \A j \in i + 1..Len(log[s]) : log[s][j].record.type \notin {"user", "assistant"}

(* Mutant: the second attempt is not taken for a retry.                    *)
readHistoryLate(w) ==
  /\ wk[w].pc = "leased"
  /\ wk' = [wk EXCEPT ![w].pc = "prompt",
        ![w].owed = ~(wk[w].token > 2 /\ findTrailingPartialTurn(thread(w), wk[w].run))]
  /\ UNCHANGED <<runVars, sessionVars, answer, faults>>

(* Read the transcript; a retry that finds its request there resumes it.   *)
readHistory(w) ==
  /\ wk[w].pc = "leased"
  /\ wk' = [wk EXCEPT ![w].pc = "prompt",
        ![w].owed = ~(wk[w].token > 1 /\ findTrailingPartialTurn(thread(w), wk[w].run))]
  /\ UNCHANGED <<runVars, sessionVars, answer, faults>>

entry(w, type) == [type |-> type, run |-> wk[w].run, claim |-> wk[w].token]

(* append throws if the lease row does not carry the turn's token.         *)
holdsSession(w) == S!HoldsLease(thread(w), wk[w].lease)
write(w, type) == S!append(thread(w), wk[w].lease, "entry", entry(w, type))

(* Record the request, or a note that it is being resumed.                 *)
emitPrompt(w) ==
  /\ wk[w].pc = "prompt"
  /\ IF holdsSession(w)
       THEN /\ write(w, IF wk[w].owed THEN "user" ELSE "note")
            /\ wk' = [wk EXCEPT ![w].pc = "working", ![w].owed = FALSE]
       ELSE EndTurn(w, "throw", "error") /\ UNCHANGED sessionVars
  /\ UNCHANGED <<runVars, answer, faults>>

(* Mutants: a reply that cannot be appended is dropped, or appended        *)
(* without asking for the lease.                                           *)
emitReplyBestEffort(w) ==
  /\ wk[w].pc = "working"
  /\ IF holdsSession(w) THEN write(w, "assistant") ELSE UNCHANGED sessionVars
  /\ Goto(w, "replied")
  /\ UNCHANGED <<runVars, answer, faults>>
emitReplyUnfenced(w) ==
  /\ wk[w].pc = "working" /\ Len(log[thread(w)]) < MaxLog
  /\ log' = [log EXCEPT ![thread(w)] =
       Append(@, [token |-> wk[w].lease, kind |-> "entry", record |-> entry(w, "assistant")])]
  /\ Goto(w, "replied")
  /\ UNCHANGED <<runVars, leases, issued, answer, faults>>

(* The harness records its reply ...                                       *)
emitReply(w) ==
  /\ wk[w].pc = "working"
  /\ IF holdsSession(w)
       THEN write(w, "assistant") /\ Goto(w, "replied")
       ELSE EndTurn(w, "throw", "error") /\ UNCHANGED sessionVars
  /\ UNCHANGED <<runVars, answer, faults>>

(* ... and handleTurn delivers its files, marks the tape and returns it.   *)
finishTurn(w) ==
  /\ wk[w].pc = "replied"
  /\ EndTurn(w, "unwind", "answered")
  /\ UNCHANGED <<runVars, sessionVars, answer, faults>>

(* Under the lease the turn may also decline (approval needed, nothing to  *)
(* say, command denied, roster changed) or throw, even after its reply; a  *)
(* NonRetryableTurnError comes from the harness.                           *)
leaveTurn(w) ==
  /\ wk[w].pc \in {"leased", "prompt", "working", "replied"}
  /\ \/ EndTurn(w, "unwind", "declined")
     \/ EndTurn(w, "throw", "error")
     \/ wk[w].pc # "leased" /\ EndTurn(w, "throw", "fatal")
  /\ UNCHANGED <<runVars, sessionVars, answer, faults>>

(* The catch clause: an error that ends the run is written to the          *)
(* transcript, after what the user wrote if that is still owed; a failing  *)
(* append is swallowed.                                                    *)
backfills(w) == wk[w].owed /\ wk[w].run \notin Blank \cup Synthetic

recordFailure(w) ==
  /\ wk[w].pc = "throw"
  /\ IF (wk[w].out = "fatal" \/ wk[w].final) /\ ~cancelled(w) /\ holdsSession(w)
       THEN IF backfills(w)
              THEN write(w, "user") /\ wk' = [wk EXCEPT ![w].owed = FALSE]
              ELSE write(w, "failure") /\ Goto(w, "unwind")
       ELSE Goto(w, "unwind") /\ UNCHANGED sessionVars
  /\ UNCHANGED <<runVars, answer, faults>>

(* The finally clause.  A release that throws replaces the result.         *)
unwind(w) ==
  /\ wk[w].pc = "unwind"
  /\ \/ S!releaseSessionLease(thread(w), wk[w].lease) /\ Goto(w, "report") /\ UNCHANGED faults
     \/ Fault("throw") /\ EndTurn(w, "report", "error") /\ UNCHANGED sessionVars
  /\ UNCHANGED <<runVars, answer>>

-----------------------------------------------------------------------------
(* processRun reports a result ...                                         *)
reportResult(w) ==
  /\ wk[w].pc = "report" /\ wk[w].out \notin {"error", "fatal"}
  /\ \/ /\ IF R!Holds(wk[w].run, wk[w].token)
             THEN /\ R!complete(wk[w].run, wk[w].token)
                  /\ answer' = [answer EXCEPT ![wk[w].run] = wk[w].out]
             ELSE UNCHANGED <<runVars, answer>>
        /\ Finish(w)
        /\ UNCHANGED faults
     \/ /\ Fault("throw")              \* complete throws, which the catch reports
        /\ wk' = [wk EXCEPT ![w].out = "error"]
        /\ UNCHANGED <<runVars, answer>>
  /\ UNCHANGED sessionVars

(* ... or an error.                                                        *)
reportError(w) ==
  /\ wk[w].pc = "report" /\ wk[w].out \in {"error", "fatal"}
  /\ IF R!Holds(wk[w].run, wk[w].token)
       THEN R!fail(wk[w].run, wk[w].token, wk[w].out = "error") /\ Goto(w, "failing")
       ELSE Finish(w) /\ UNCHANGED runVars
  /\ UNCHANGED <<sessionVars, answer, faults>>

copyOf(w) == CHOOSE c \in failing : c.id = wk[w].run /\ c.token = wk[w].token

retire(w) ==
  /\ wk[w].pc = "failing"
  /\ R!failRetire(copyOf(w))
  /\ Finish(w)
  /\ UNCHANGED <<sessionVars, answer, faults>>

-----------------------------------------------------------------------------
(* stop(): the loop ends after the run in flight.                          *)
stop(w) ==
  /\ w \notin Inline /\ ~wk[w].stopped /\ Fault("stop")
  /\ wk' = [wk EXCEPT ![w].stopped = TRUE]
  /\ UNCHANGED <<runVars, sessionVars, answer>>

(* releaseInFlight, called when the drain times out and again by the       *)
(* backstop: check the run lease, ...                                      *)
releaseBeat(w) ==
  /\ wk[w].stopped /\ inFlight(w) /\ wk[w].release = "no"
  /\ wk[w].token # wk[w].releasedLeaseToken
  /\ IF Alive(w)
       THEN /\ R!heartbeat(wk[w].run, wk[w].token)
            /\ wk' = [wk EXCEPT ![w].release = "beaten"]
       ELSE /\ wk' = [wk EXCEPT ![w].releasedLeaseToken = wk[w].token]
            /\ UNCHANGED runVars
  /\ UNCHANGED <<sessionVars, answer, faults>>

(* ... unlock the session, ...                                             *)
releaseSession(w) ==
  /\ wk[w].release = "beaten"
  /\ S!forceReleaseLease(thread(w))
  /\ wk' = [wk EXCEPT ![w].release = "unlocked"]
  /\ UNCHANGED <<runVars, answer, faults>>

(* ... and hand the run back.                                              *)
Released(x, token) ==
  LET y == [x EXCEPT !.release = "no", !.releasedLeaseToken = token]
  IN IF x.pc = "idle" THEN Done(y) ELSE y

releaseRun(w) ==
  /\ wk[w].release = "unlocked"
  /\ IF Alive(w) THEN R!releaseLease(wk[w].run, wk[w].token) ELSE UNCHANGED runVars
  /\ wk' = [wk EXCEPT ![w] = Released(@, wk[w].token)]
  /\ UNCHANGED <<sessionVars, answer, faults>>

(* The process is gone, and a new one takes its place.                     *)
Die(w) ==
  /\ wk' = [wk EXCEPT ![w] = Idle]
  /\ IF claiming[w] # None THEN R!abortClaim(w)
     ELSE IF wk[w].pc = "failing" THEN R!dieBeforeRetire(copyOf(w)) ELSE UNCHANGED runVars

(* A statement of releaseInFlight throws, which it swallows: the process   *)
(* exits, or the backstop calls it again.                                  *)
releaseFails(w) ==
  /\ wk[w].release # "no" /\ Fault("release")
  /\ \/ wk' = [wk EXCEPT ![w] = Released(@, wk[w].releasedLeaseToken)] /\ UNCHANGED runVars
     \/ Die(w)
  /\ UNCHANGED <<sessionVars, answer>>

(* The process exits once the loop is over or the run in flight released.  *)
exit(w) ==
  /\ wk[w].stopped /\ claiming[w] = None /\ wk[w].release = "no"
  /\ wk[w].pc = "idle" \/ (inFlight(w) /\ wk[w].token = wk[w].releasedLeaseToken)
  /\ Die(w)
  /\ UNCHANGED <<sessionVars, answer, faults>>

crash(w) ==
  /\ (wk[w].pc # "idle" \/ claiming[w] # None) /\ Fault("crash")
  /\ Die(w)
  /\ UNCHANGED <<sessionVars, answer>>

-----------------------------------------------------------------------------
(* Mutant: the reaper passes over runs that strand no session lease.       *)
sweepStrandedRuns(z) ==
  /\ \/ R!reapExpired(z) \/ R!reapDone(z)
     \/ \E c \in sweep[z].rows :
          IF leases[runs[c.id].sessionId].token # 0 THEN R!reapRetire(z, c)
          ELSE /\ sweep' = [sweep EXCEPT ![z].rows = @ \ {c}]
               /\ UNCHANGED <<runs, claiming, failing, settling, settled, handbacks>>
  /\ UNCHANGED <<sessionVars, wk, answer, faults>>

(* The reaper: a sweep of the run store ...                                *)
sweepRuns(z) ==
  /\ R!reapExpired(z) \/ R!reapDone(z) \/ \E c \in sweep[z].rows : R!reapRetire(z, c)
  /\ UNCHANGED <<sessionVars, wk, answer, faults>>

(* ... then releaseStrandedSessionLeases, session by session.              *)
releaseStranded(z, s) ==
  /\ R!onRetired(z, s)
  /\ S!forceReleaseLease(s)
  /\ UNCHANGED <<wk, answer, faults>>

sweepFails(z) ==
  /\ Fault("throw") /\ R!abortSweep(z)
  /\ UNCHANGED <<sessionVars, wk, answer>>

settle(r) ==
  /\ \/ R!settle(r) /\ UNCHANGED faults
     \/ R!dieBeforeSettle(r) /\ Fault("crash")
  /\ UNCHANGED <<sessionVars, wk, answer>>

Tick == R!Tick /\ S!SessionTick /\ UNCHANGED <<wk, answer, faults>>

turnStep(w) ==
  \/ endEarly(w) \/ acquire(w) \/ readHistory(w) \/ emitPrompt(w) \/ emitReply(w)
  \/ finishTurn(w) \/ leaveTurn(w) \/ recordFailure(w) \/ unwind(w)

workerStep(w) ==
  \/ claimed(w) \/ handBack(w) \/ turnStep(w)
  \/ reportResult(w) \/ reportError(w) \/ retire(w)

drainStep(w) == releaseBeat(w) \/ releaseSession(w) \/ releaseRun(w) \/ exit(w)

sweepStep(z) == sweepRuns(z) \/ \E s \in Session : releaseStranded(z, s)

Next ==
  \/ \E r \in RunId, s \in Session : submit(r, s)
  \/ \E w \in Worker : claim(w) \/ workerStep(w) \/ drainStep(w)
  \/ \E w \in Worker : beat(w) \/ stop(w) \/ releaseFails(w) \/ crash(w)
  \/ \E z \in Sweeper : sweepStep(z) \/ sweepFails(z)
  \/ \E r \in RunId : settle(r)
  \/ Tick

Spec == Init /\ [][Next]_vars

(* A worker keeps polling (an inline driver does not) and its turn comes   *)
(* to an end (the harness bounds it by turnWallClockMs); a stopping        *)
(* process exits; the reaper sweeps on a timer; time passes.               *)
Fairness ==
  /\ \A w \in Worker \ Inline : WF_vars(claim(w))
  /\ \A w \in Worker : WF_vars(workerStep(w)) /\ WF_vars(drainStep(w))
  /\ \A z \in Sweeper : WF_vars(sweepStep(z))
  /\ WF_vars(Tick)

FairSpec == Spec /\ Fairness

-----------------------------------------------------------------------------
(* A turn is cancelled for a lost lease only if the lease is lost for      *)
(* good: no cancelled turn could still have stored its result.             *)
CancelledLostLease ==
  \A w \in Worker : inFlight(w) /\ cancelled(w) => ~R!Holds(wk[w].run, wk[w].token)

(* A run stored as answered has its reply in the transcript, written by    *)
(* the very claim whose result was stored.                                 *)
AnswerInTranscript ==
  \A r \in RunId : answer[r] = "answered" =>
    \E i \in 1..Len(log[runs[r].sessionId]) :
      log[runs[r].sessionId][i].record = [type |-> "assistant", run |-> r, claim |-> runs[r].resultOf]

(* A retry does not repeat in the transcript the request that an earlier   *)
(* attempt recorded: between the two copies somebody answered, or another  *)
(* request came in.  (A first attempt that wakes up late may repeat it,    *)
(* and so may every retry of a request without text.)                      *)
RetryDoesNotRepeat ==
  \A s \in Session : \A i, j \in 1..Len(log[s]) :
    /\ i < j /\ log[s][i].record.type = "user" /\ log[s][j].record.type = "user"
    /\ log[s][i].record.run = log[s][j].record.run /\ log[s][i].record.run \notin Blank
    /\ log[s][i].record.claim < log[s][j].record.claim
    => \E k \in i + 1..j - 1 :
         \/ log[s][k].record.type = "assistant"
         \/ /\ log[s][k].record.type = "user"
            /\ log[s][k].record.run # log[s][i].record.run

(* The workers and the reaper use the stores as the stores allow: what is  *)
(* shown of either store with arbitrary callers holds of the system.       *)
ImplementsRunStore == R!Spec
ImplementsSessionStore == S!SessionSpec

(* A retry finds the session lease free, or held by a turn that is still   *)
(* in flight: a process that dies, or whose lease lapses, leaves no lease  *)
(* behind that its run's next attempt is refused for.                      *)
RetryCanReacquire ==
  [][\A w \in Worker : wk[w].pc = "turn" /\ wk[w].token > 1 /\ wk'[w].out = "refused" =>
       \E v \in Worker : inFlight(v) /\ thread(v) = thread(w) /\ holdsSession(v)]_vars

(* Nobody takes the session lease away from a turn in flight whose run is  *)
(* leased to it and whose worker is not being drained.                     *)
LiveTurnKeepsSession ==
  [][\A w \in Worker :
       /\ inFlight(w) /\ Alive(w) /\ holdsSession(w) /\ ~wk[w].stopped
       /\ wk'[w] = wk[w]
       => leases'[thread(w)].token = wk[w].lease]_vars

(* Every submitted run is settled, whatever crashes, drains and lost       *)
(* leases it goes through.                                                 *)
EveryRunSettles ==
  \A r \in RunId : runs[r].status = "pending" ~> R!isTerminal(runs[r])
=============================================================================
