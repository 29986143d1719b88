------------------------------ MODULE RunStore ------------------------------
(***************************************************************************)
(* The durable run queue (runs/run-store.ts) at the granularity of the     *)
(* statements its Postgres implementation sends (postgres-run-store.ts);   *)
(* the in-memory store does the same steps without interleaving.           *)
(*                                                                         *)
(* The callers are left open: every operation that takes a lease token may *)
(* be called at any moment with any token ever issued for the run, which   *)
(* covers live workers, workers that lost their lease without noticing,    *)
(* late and duplicated calls.  TurnExecution closes the system with the    *)
(* real callers.                                                           *)
(*                                                                         *)
(* A fresh lease token (randomUUID) is the number of the claim it was      *)
(* issued for; 0 is the NULL token.  Instants are kept relative to the     *)
(* present, so that Tick moves them and no run of the model is cut off by  *)
(* a clock bound: leaseExpiresAt is the time left, startedAt minus the age *)
(* of the run.  Both stop where no comparison tells values apart any more. *)
(***************************************************************************)
EXTENDS Integers

CONSTANTS
  RunId,        \* ids of the runs that may be enqueued
  Session,      \* thread references
  DedupKey,     \* idempotency keys
  NoKey,        \* the absent idempotency key
  Worker,       \* callers of claim and claimById
  Sweeper,      \* callers of reapExpired
  MaxAttempts,  \* the error budget of a run
  MaxClaims,    \* the claims after which a run is no longer requeued
  Ttl,          \* lease duration, in ticks
  MaxAge,       \* age after which a lapsed run is parked, in ticks
  MaxSweep,     \* bound: ticks one sweep may take
  MaxInstant,   \* bound: distinct instants at which runs are created
  ClaimBound,   \* bound: claims of one run that are explored
  None          \* no statement in flight

ASSUME BudgetAssumption == MaxAttempts \in Nat \ {0} /\ MaxClaims \in Nat \ {0}
ASSUME TimeAssumption ==
  Ttl \in Nat \ {0} /\ MaxAge \in Nat /\ MaxSweep \in Nat
  /\ MaxInstant \in Nat /\ ClaimBound \in Nat
ASSUME KeyAssumption == NoKey \notin DedupKey
ASSUME SessionAssumption == Session # {}
ASSUME NoneAssumption == None \notin RunId

VARIABLES
  runs,      \* the runs table
  claiming,  \* [Worker -> RunId \cup {None}]: row locked by a claim statement
  failing,   \* rows read by fail() whose conditional update is still to come
  sweep,     \* [Sweeper -> the state of its reapExpired call, or None]
  settling,  \* runs settled in the table, listeners not yet called
  settled,   \* [RunId -> how often the terminal listeners were called]
  handbacks  \* history: [RunId -> how often releaseLease gave the run back]

vars == <<runs, claiming, failing, sweep, settling, settled, handbacks>>

(* A row of the table; an absent row stands for a run not yet enqueued.    *)
(* resultOf is the token whose complete() wrote the result.                *)
Run == [sessionId: Session, status: {"absent", "pending", "running", "done", "failed"},
        dedupKey: DedupKey \cup {NoKey}, createdAt: Nat, attempts: Nat, errorAttempts: Nat,
        leaseToken: Nat, leaseExpiresAt: Int, startedAt: Int, resultOf: Nat]

(* The part of a row a retirement decides on, read before it writes.       *)
RowCopy == [id: RunId, token: Nat, attempts: Nat, errorAttempts: Nat, retry: BOOLEAN]

Sweep == [active: BOOLEAN, rows: SUBSET RowCopy, retired: SUBSET Session, age: Nat]

TypeOK ==
  /\ runs \in [RunId -> Run]
  /\ claiming \in [Worker -> RunId \cup {None}]
  /\ failing \in SUBSET RowCopy
  /\ sweep \in [Sweeper -> Sweep]
  /\ settling \in SUBSET RunId
  /\ settled \in [RunId -> Nat]
  /\ handbacks \in [RunId -> Nat]

NoRow == [sessionId |-> CHOOSE s \in Session : TRUE, status |-> "absent", dedupKey |-> NoKey,
          createdAt |-> 0, attempts |-> 0, errorAttempts |-> 0, leaseToken |-> 0,
          leaseExpiresAt |-> 0, startedAt |-> 0, resultOf |-> 0]

NoSweep == [active |-> FALSE, rows |-> {}, retired |-> {}, age |-> 0]

Init ==
  /\ runs = [r \in RunId |-> NoRow]
  /\ claiming = [w \in Worker |-> None]
  /\ failing = {}
  /\ sweep = [z \in Sweeper |-> NoSweep]
  /\ settling = {}
  /\ settled = [r \in RunId |-> 0]
  /\ handbacks = [r \in RunId |-> 0]

-----------------------------------------------------------------------------
isTerminal(run) == run.status \in {"done", "failed"}

(* sessionHasRunning, and the subselect and unique index that replace it.  *)
sessionHasRunning(s) == \E q \in RunId : runs[q].sessionId = s /\ runs[q].status = "running"

leaseLapsed(run) == run.status = "running" /\ run.leaseExpiresAt <= 0

(* What every statement that ends a lease writes.                          *)
Unleased(run, status) ==
  [run EXCEPT !.status = status, !.leaseToken = 0, !.leaseExpiresAt = 0]

(* enqueue: the insert of a new run.  A call whose key is already in the   *)
(* table inserts nothing and returns the run found there.  created_at is   *)
(* read by the caller before the insert, so a later insert may carry an    *)
(* earlier, or the same, instant.                                          *)
enqueue(r, s, k) ==
  /\ runs[r].status = "absent"
  /\ k # NoKey => \A q \in RunId : runs[q].dedupKey # k
  /\ \E at \in 1..MaxInstant :
       runs' = [runs EXCEPT ![r].sessionId = s, ![r].status = "pending",
                            ![r].dedupKey = k, ![r].createdAt = at]
  /\ UNCHANGED <<claiming, failing, sweep, settling, settled, handbacks>>

(* Rows the subselect of a claim may lock: FOR UPDATE SKIP LOCKED.         *)
Claimable ==
  {r \in RunId : /\ runs[r].status = "pending"
                 /\ ~sessionHasRunning(runs[r].sessionId)
                 /\ \A w \in Worker : claiming[w] # r}

(* claim, first half: lock the oldest claimable row.                       *)
claim(w) ==
  /\ claiming[w] = None
  /\ \E r \in Claimable :
       /\ \A q \in Claimable : runs[r].createdAt <= runs[q].createdAt
       /\ runs[r].attempts < ClaimBound
       /\ claiming' = [claiming EXCEPT ![w] = r]
  /\ UNCHANGED <<runs, failing, sweep, settling, settled, handbacks>>

(* claimById, first half: lock the given row, out of turn.                 *)
claimById(w, r) ==
  /\ claiming[w] = None
  /\ r \in Claimable
  /\ runs[r].attempts < ClaimBound
  /\ claiming' = [claiming EXCEPT ![w] = r]
  /\ UNCHANGED <<runs, failing, sweep, settling, settled, handbacks>>

lease(run) ==
  [run EXCEPT !.status = "running", !.leaseToken = run.attempts + 1, !.leaseExpiresAt = Ttl,
              !.attempts = run.attempts + 1,
              !.startedAt = IF run.attempts = 0 THEN 0 ELSE run.startedAt]

(* Mutant: the update without the unique index.                            *)
leaseClaimedUnindexed(w) ==
  /\ claiming[w] # None
  /\ claiming' = [claiming EXCEPT ![w] = None]
  /\ runs' = [runs EXCEPT ![claiming[w]] = lease(@)]
  /\ UNCHANGED <<failing, sweep, settling, settled, handbacks>>

(* Second half of either claim: the update, or the unique violation on     *)
(* idx_runs_one_running_per_session that makes the call return null.       *)
leaseClaimed(w) ==
  /\ claiming[w] # None
  /\ claiming' = [claiming EXCEPT ![w] = None]
  /\ IF sessionHasRunning(runs[claiming[w]].sessionId)
       THEN UNCHANGED runs
       ELSE runs' = [runs EXCEPT ![claiming[w]] = lease(@)]
  /\ UNCHANGED <<failing, sweep, settling, settled, handbacks>>

(* A claim statement that throws, or whose process dies: rolled back.      *)
abortClaim(w) ==
  /\ claiming[w] # None
  /\ claiming' = [claiming EXCEPT ![w] = None]
  /\ UNCHANGED <<runs, failing, sweep, settling, settled, handbacks>>

(* Mutants: any token ever issued is good; the status stands in for it.    *)
HoldsAnyToken(r, t) == t # 0 /\ t <= runs[r].attempts
HoldsByStatus(r, t) == t # 0 /\ runs[r].status = "running"

(* Does the call carry the token of the lease the run is under?            *)
Holds(r, t) == t # 0 /\ runs[r].leaseToken = t

heartbeat(r, t) ==
  /\ runs[r].status = "running" /\ Holds(r, t)
  /\ runs' = [runs EXCEPT ![r].leaseExpiresAt = Ttl]
  /\ UNCHANGED <<claiming, failing, sweep, settling, settled, handbacks>>

(* Mutant: the handback keeps the token.                                   *)
releaseLeaseKeepsToken(r, t) ==
  /\ runs[r].status = "running" /\ Holds(r, t)
  /\ runs' = [runs EXCEPT ![r].status = "pending"]
  /\ handbacks' = [handbacks EXCEPT ![r] = @ + 1]
  /\ UNCHANGED <<claiming, failing, sweep, settling, settled>>

releaseLease(r, t) ==
  /\ runs[r].status = "running" /\ Holds(r, t)
  /\ runs' = [runs EXCEPT ![r] = Unleased(@, "pending")]
  /\ handbacks' = [handbacks EXCEPT ![r] = @ + 1]
  /\ UNCHANGED <<claiming, failing, sweep, settling, settled>>

(* Mutant: the token survives completion.                                  *)
completeKeepsToken(r, t) ==
  /\ Holds(r, t)
  /\ runs' = [runs EXCEPT ![r] = [@ EXCEPT !.status = "done", !.resultOf = t]]
  /\ settling' = settling \cup {r}
  /\ UNCHANGED <<claiming, failing, sweep, settled, handbacks>>

(* complete checks the token alone, not the status.                        *)
complete(r, t) ==
  /\ Holds(r, t)
  /\ runs' = [runs EXCEPT ![r] = [Unleased(@, "done") EXCEPT !.resultOf = t]]
  /\ settling' = settling \cup {r}
  /\ UNCHANGED <<claiming, failing, sweep, settled, handbacks>>

-----------------------------------------------------------------------------
rowCopy(r, retry) ==
  [id |-> r, token |-> runs[r].leaseToken, attempts |-> runs[r].attempts,
   errorAttempts |-> runs[r].errorAttempts, retry |-> retry]

(* Mutants: the error budget off by one; the claim cap dropped.            *)
RequeuesOneMore(c, errors) ==
  c.retry /\ c.errorAttempts + errors <= MaxAttempts /\ c.attempts < MaxClaims
RequeuesUncapped(c, errors) == c.retry /\ c.errorAttempts + errors < MaxAttempts

(* retire decides from the copy, then updates the row if it is still       *)
(* running under the copied token.                                         *)
Requeues(c, errors) ==
  c.retry /\ c.errorAttempts + errors < MaxAttempts /\ c.attempts < MaxClaims

(* Mutant: the update is guarded by the id alone.                          *)
StillLeasedById(c) == runs[c.id].status # "absent"

StillLeased(c) == runs[c.id].leaseToken = c.token /\ runs[c.id].status = "running"

(* Mutant: an error is refunded instead of charged.                        *)
retireRefunds(c, errors) ==
  /\ runs' = [runs EXCEPT ![c.id] =
       [Unleased(runs[c.id], IF Requeues(c, errors) THEN "pending" ELSE "failed")
          EXCEPT !.errorAttempts = @ - errors]]
  /\ settling' = IF Requeues(c, errors) THEN settling ELSE settling \cup {c.id}

retire(c, errors) ==
  /\ runs' = [runs EXCEPT ![c.id] =
       [Unleased(runs[c.id], IF Requeues(c, errors) THEN "pending" ELSE "failed")
          EXCEPT !.errorAttempts = @ + errors]]
  /\ settling' = IF Requeues(c, errors) THEN settling ELSE settling \cup {c.id}

(* fail, first half: getRun and the token check.                           *)
fail(r, t, retry) ==
  /\ Holds(r, t)
  /\ failing' = failing \cup {rowCopy(r, retry)}
  /\ UNCHANGED <<runs, claiming, sweep, settling, settled, handbacks>>

(* fail, second half.                                                      *)
failRetire(c) ==
  /\ c \in failing
  /\ failing' = failing \ {c}
  /\ IF StillLeased(c) THEN retire(c, 1) ELSE UNCHANGED <<runs, settling>>
  /\ UNCHANGED <<claiming, sweep, settled, handbacks>>

(* fail whose process dies, or whose update throws, before it retires.      *)
dieBeforeRetire(c) ==
  /\ c \in failing
  /\ failing' = failing \ {c}
  /\ UNCHANGED <<runs, claiming, sweep, settling, settled, handbacks>>

(* reapExpired: the select of lapsed rows; a run older than MaxAge is not  *)
(* to be retried.                                                          *)
reapExpired(z) ==
  /\ ~sweep[z].active
  /\ \E r \in RunId : leaseLapsed(runs[r])
  /\ sweep' = [sweep EXCEPT ![z] =
       [NoSweep EXCEPT !.active = TRUE,
                       !.rows = {rowCopy(r, -runs[r].startedAt <= MaxAge) :
                                   r \in {q \in RunId : leaseLapsed(runs[q])}}]]
  /\ UNCHANGED <<runs, claiming, failing, settling, settled, handbacks>>

(* Mutant: the loop does not look at the expiry again.                     *)
reapRetireUnchecked(z, c) ==
  /\ c \in sweep[z].rows
  /\ IF StillLeased(c)
       THEN /\ retire(c, 0)
            /\ sweep' = [sweep EXCEPT ![z].rows = @ \ {c},
                                      ![z].retired = @ \cup {runs[c.id].sessionId}]
       ELSE /\ sweep' = [sweep EXCEPT ![z].rows = @ \ {c}]
            /\ UNCHANGED <<runs, settling>>
  /\ UNCHANGED <<claiming, failing, settled, handbacks>>

(* One iteration of its loop.  age is the time since the select, so the    *)
(* sum is leaseExpiresAt relative to the instant the select used.          *)
reapRetire(z, c) ==
  /\ c \in sweep[z].rows
  /\ IF StillLeased(c) /\ runs[c.id].leaseExpiresAt + sweep[z].age <= 0
       THEN /\ retire(c, 0)
            /\ sweep' = [sweep EXCEPT ![z].rows = @ \ {c},
                                      ![z].retired = @ \cup {runs[c.id].sessionId}]
       ELSE /\ sweep' = [sweep EXCEPT ![z].rows = @ \ {c}]
            /\ UNCHANGED <<runs, settling>>
  /\ UNCHANGED <<claiming, failing, settled, handbacks>>

(* The loop over, onRetired is called with the retired sessions and deals   *)
(* with them one after the other.                                          *)
onRetired(z, t) ==
  /\ sweep[z].rows = {} /\ t \in sweep[z].retired
  /\ sweep' = [sweep EXCEPT ![z].retired = @ \ {t}]
  /\ UNCHANGED <<runs, claiming, failing, settling, settled, handbacks>>

reapDone(z) ==
  /\ sweep[z].active /\ sweep[z].rows = {} /\ sweep[z].retired = {}
  /\ sweep' = [sweep EXCEPT ![z] = NoSweep]
  /\ UNCHANGED <<runs, claiming, failing, settling, settled, handbacks>>

(* A statement of the sweep throws, or its process dies.                   *)
abortSweep(z) ==
  /\ sweep[z].active
  /\ sweep' = [sweep EXCEPT ![z] = NoSweep]
  /\ UNCHANGED <<runs, claiming, failing, settling, settled, handbacks>>

(* settle: the process that wrote the terminal row reads it back and calls *)
(* its onTerminal listeners, unless it dies first.                         *)
settle(r) ==
  /\ r \in settling
  /\ settling' = settling \ {r}
  /\ settled' = [settled EXCEPT ![r] = @ + 1]
  /\ UNCHANGED <<runs, claiming, failing, sweep, handbacks>>

dieBeforeSettle(r) ==
  /\ r \in settling
  /\ settling' = settling \ {r}
  /\ UNCHANGED <<runs, claiming, failing, sweep, settled, handbacks>>

-----------------------------------------------------------------------------
(* Time passes.  The floors keep every comparison the code makes exact as  *)
(* long as a sweep takes at most MaxSweep ticks.                           *)
Aged(run) ==
  [run EXCEPT !.leaseExpiresAt =
                 IF run.status = "running" /\ @ > -MaxSweep THEN @ - 1 ELSE @,
              !.startedAt =
                 IF run.attempts > 0 /\ ~isTerminal(run) /\ @ >= -MaxAge THEN @ - 1 ELSE @]

Tick ==
  /\ \A z \in Sweeper : sweep[z].active => sweep[z].age < MaxSweep
  /\ runs' = [r \in RunId |-> Aged(runs[r])]
  /\ sweep' = [z \in Sweeper |->
                 IF sweep[z].active THEN [sweep[z] EXCEPT !.age = @ + 1] ELSE sweep[z]]
  /\ UNCHANGED <<claiming, failing, settling, settled, handbacks>>

TokenCall(r, t) ==
  \/ heartbeat(r, t)
  \/ releaseLease(r, t)
  \/ complete(r, t)
  \/ /\ \A c \in failing : <<c.id, c.token>> # <<r, t>>   \* fail is called once per lease
     /\ \E retry \in BOOLEAN : fail(r, t, retry)

Next ==
  \/ \E r \in RunId, s \in Session, k \in DedupKey \cup {NoKey} : enqueue(r, s, k)
  \/ \E w \in Worker : claim(w) \/ leaseClaimed(w) \/ abortClaim(w)
  \/ \E w \in Worker, r \in RunId : claimById(w, r)
  \/ \E r \in RunId : \E t \in 1..runs[r].attempts : TokenCall(r, t)
  \/ \E c \in failing : failRetire(c) \/ dieBeforeRetire(c)
  \/ \E z \in Sweeper : reapExpired(z) \/ reapDone(z) \/ abortSweep(z)
  \/ \E z \in Sweeper : \E t \in sweep[z].retired : onRetired(z, t)
  \/ \E z \in Sweeper : \E c \in sweep[z].rows : reapRetire(z, c)
  \/ \E r \in RunId : settle(r) \/ dieBeforeSettle(r)
  \/ Tick

Spec == Init /\ [][Next]_vars

-----------------------------------------------------------------------------
(* Two runs of one session are never leased at the same time, although     *)
(* each claim looks for a running run in a snapshot older than its update. *)
OneRunningPerSession ==
  \A q, r \in RunId :
    /\ runs[q].status = "running" /\ runs[r].status = "running"
    /\ runs[q].sessionId = runs[r].sessionId
    => q = r

(* A run holds a lease token exactly while it is running, and the token is *)
(* the one its last claim was given: complete(), which does not look at    *)
(* the status, can only ever finish a running run.                         *)
LeaseIffRunning ==
  \A r \in RunId :
    IF runs[r].status = "running" THEN runs[r].leaseToken = runs[r].attempts /\ runs[r].attempts > 0
                                 ELSE runs[r].leaseToken = 0

(* A done run carries the result of the last process that claimed it: a    *)
(* worker whose lease was reaped or handed back cannot slip in a result.   *)
ResultOfLastClaim ==
  \A r \in RunId : runs[r].status = "done" => runs[r].resultOf = runs[r].attempts

(* A run that waits to be claimed has error budget left, whatever mix of   *)
(* fail(), reaps and handbacks brought it back, and no run overspends it.  *)
ErrorBudgetRespected ==
  \A r \in RunId :
    /\ runs[r].errorAttempts <= MaxAttempts
    /\ ~isTerminal(runs[r]) => runs[r].errorAttempts < MaxAttempts

(* The crash-loop cap: maxClaims bounds the claims of a run up to the ones *)
(* given back by releaseLease, which does not consult the cap.             *)
ClaimsCapped ==
  \A r \in RunId : runs[r].attempts <= MaxClaims + handbacks[r]

(* The terminal listeners of a run are called at most once, and only when  *)
(* its row is terminal (they deliver its result).                          *)
SettledOnce ==
  \A r \in RunId :
    /\ settled[r] <= 1
    /\ settled[r] = 1 \/ r \in settling => isTerminal(runs[r])
    /\ ~(settled[r] = 1 /\ r \in settling)

(* Nothing a late caller does changes a settled run.                       *)
TerminalIsFinal ==
  [][\A r \in RunId : isTerminal(runs[r]) => runs'[r] = runs[r]]_vars

(* A sweep ends a lease only if the lease is lapsed when the update runs,  *)
(* however long ago the sweep read it: a renewal in between protects it.   *)
ReapsOnlyLapsed ==
  [][\A z \in Sweeper : \A c \in sweep[z].rows :
       reapRetire(z, c) /\ runs' # runs => runs[c.id].leaseExpiresAt <= 0]_vars

(* The store implements the abstract queue.                                *)
Queue == INSTANCE RunQueue WITH phase <- [r \in RunId |-> runs[r].status],
                                thread <- [r \in RunId |-> runs[r].sessionId]

(* Every behaviour of the store is one of the abstract queue: submitted    *)
(* once, run in exclusive spells, settled once and for good.               *)
ImplementsQueue == Queue!Spec

-----------------------------------------------------------------------------
(* The inductive invariant behind these properties.                        *)

(* A row that is not yet leased again has a claim left, counting the ones  *)
(* releaseLease gave back.                                                 *)
ClaimsInv ==
  \A r \in RunId :
    /\ runs[r].attempts <= MaxClaims + handbacks[r]
    /\ runs[r].status \in {"absent", "pending"} => runs[r].attempts < MaxClaims + handbacks[r]

(* A row copied by fail() or by a sweep carries the token of the claim it  *)
(* was read under; if that lease still stands, its counters are current.   *)
CopyOK(c) ==
  /\ c.token # 0
  /\ c.attempts = c.token
  /\ runs[c.id].attempts >= c.token
  /\ runs[c.id].leaseToken = c.token => runs[c.id].errorAttempts = c.errorAttempts

CopiesOK ==
  /\ \A c \in failing : CopyOK(c)
  /\ \A z \in Sweeper : \A c \in sweep[z].rows : CopyOK(c)

(* A row locked by a claim statement is pending, and locked only once.     *)
LocksOK ==
  \A w \in Worker :
    claiming[w] # None => /\ runs[claiming[w]].status = "pending"
                          /\ \A v \in Worker : claiming[v] = claiming[w] => v = w

(* What the store promises about its rows, as one formula.                 *)
RowsOK ==
  /\ OneRunningPerSession
  /\ LeaseIffRunning
  /\ ResultOfLastClaim
  /\ ErrorBudgetRespected
  /\ ClaimsInv
  /\ SettledOnce

IInv == TypeOK /\ RowsOK /\ CopiesOK /\ LocksOK

(* What a caller that holds on to a run can rely on over a step: claims    *)
(* are only added, by a caller that locked the row; the run stays in the   *)
(* table and in its session; and a token that is not the run's lease never *)
(* becomes it again.                                                       *)
RowPersists(r) ==
  /\ \/ runs'[r].attempts = runs[r].attempts
     \/ /\ runs'[r].attempts = runs[r].attempts + 1 /\ runs'[r].status = "running"
        /\ \E w \in Worker : claiming[w] = r
  /\ runs[r].status # "absent" =>
       runs'[r].status # "absent" /\ runs'[r].sessionId = runs[r].sessionId
  /\ \A t \in 1..runs[r].attempts : ~Holds(r, t) => ~Holds(r, t)'
  /\ isTerminal(runs[r]) => runs'[r] = runs[r]
=============================================================================
