----------------------------- MODULE StoreProofs ----------------------------
(***************************************************************************)
(* TLAPS proofs about the two stores of core, for any sets of runs,        *)
(* sessions, workers and sweepers and any budgets.                         *)
(*                                                                         *)
(* RunStore: the inductive invariant, the safety properties it yields and  *)
(* the refinement of RunQueue.  SessionStore: the lease fences the logs.   *)
(***************************************************************************)
EXTENDS RunStore, SessionStore, TLAPS

(* The tables start empty, which satisfies the inductive invariant.        *)
LEMMA InitIInv == Init => IInv
  BY BudgetAssumption, SessionAssumption
     DEF Init, IInv, TypeOK, RowsOK, OneRunningPerSession, LeaseIffRunning, ResultOfLastClaim,
         ErrorBudgetRespected, ClaimsInv, SettledOnce, CopiesOK, LocksOK,
         NoRow, NoSweep, Run, Sweep, isTerminal

(* The types of the fields the proofs compute with.                        *)
FieldsOK ==
  /\ \A q \in RunId : /\ runs[q].attempts \in Nat /\ runs[q].leaseToken \in Nat
                       /\ runs[q].errorAttempts \in Nat /\ runs[q].resultOf \in Nat
                       /\ runs[q].leaseExpiresAt \in Int
                       /\ handbacks[q] \in Nat /\ settled[q] \in Nat
  /\ \A c \in failing : c.id \in RunId /\ c.token \in Nat
  /\ \A z \in Sweeper : \A c \in sweep[z].rows : c.id \in RunId /\ c.token \in Nat
  /\ \A w \in Worker : claiming[w] # None => claiming[w] \in RunId

(* The type invariant types the fields, now ...                            *)
LEMMA TypedFields == TypeOK => FieldsOK
  BY DEF TypeOK, FieldsOK, Run, RowCopy, Sweep

(* ... and after a step.                                                   *)
LEMMA TypedFieldsNext == TypeOK' => FieldsOK'
  BY DEF TypeOK, FieldsOK, Run, RowCopy, Sweep

(* The row left by a statement that ends a lease.                          *)
LEMMA UnleasedRow ==
  ASSUME NEW run \in Run, NEW status \in {"absent", "pending", "running", "done", "failed"},
         NEW row, row = Unleased(run, status)
  PROVE  /\ row \in Run
         /\ row.status = status /\ row.sessionId = run.sessionId
         /\ row.attempts = run.attempts /\ row.errorAttempts = run.errorAttempts
         /\ row.leaseToken = 0 /\ row.resultOf = run.resultOf
<1>1. row = [sessionId |-> run.sessionId, status |-> status,
             dedupKey |-> run.dedupKey, createdAt |-> run.createdAt,
             attempts |-> run.attempts, errorAttempts |-> run.errorAttempts,
             leaseToken |-> 0, leaseExpiresAt |-> 0,
             startedAt |-> run.startedAt, resultOf |-> run.resultOf]
  BY Zenon DEF Unleased, Run
<1> QED
  BY <1>1 DEF Run

(* The row a claim leaves.                                                 *)
LEMMA LeasedRow ==
  ASSUME NEW run \in Run, NEW row, row = lease(run)
  PROVE  /\ row \in Run
         /\ row.status = "running" /\ row.sessionId = run.sessionId
         /\ row.attempts = run.attempts + 1 /\ row.errorAttempts = run.errorAttempts
         /\ row.leaseToken = run.attempts + 1 /\ row.resultOf = run.resultOf
<1>1. row = [sessionId |-> run.sessionId, status |-> "running",
              dedupKey |-> run.dedupKey, createdAt |-> run.createdAt,
              attempts |-> run.attempts + 1, errorAttempts |-> run.errorAttempts,
              leaseToken |-> run.attempts + 1, leaseExpiresAt |-> Ttl,
              startedAt |-> IF run.attempts = 0 THEN 0 ELSE run.startedAt, resultOf |-> run.resultOf]
  BY Zenon DEF lease, Run
<1> QED
  BY <1>1, TimeAssumption DEF Run

(* An insert fills an absent row, on which nothing else depends.           *)
LEMMA EnqueueIInv ==
  ASSUME IInv, NEW r \in RunId, NEW s \in Session, NEW k \in DedupKey \cup {NoKey},
         enqueue(r, s, k)
  PROVE  IInv'
<1>1. PICK at \in 1..MaxInstant :
        runs' = [runs EXCEPT ![r].sessionId = s, ![r].status = "pending",
                             ![r].dedupKey = k, ![r].createdAt = at]
  BY Zenon DEF enqueue
<1>2. at \in Nat
  BY TimeAssumption
<1>3. /\ runs'[r] = [runs[r] EXCEPT !.sessionId = s, !.status = "pending",
                                    !.dedupKey = k, !.createdAt = at]
      /\ \A q \in RunId : q # r => runs'[q] = runs[q]
      /\ runs[r].status = "absent"
  BY <1>1, Zenon DEF enqueue, IInv, TypeOK
<1>4. TypeOK'
  BY <1>1, <1>2, <1>3 DEF enqueue, IInv, TypeOK, Run
<1>5. FieldsOK /\ FieldsOK'
  BY <1>4, TypedFields, TypedFieldsNext, Zenon DEF IInv
<1>6. /\ runs'[r].status = "pending" /\ runs'[r].attempts = runs[r].attempts
      /\ runs'[r].errorAttempts = runs[r].errorAttempts
      /\ runs'[r].leaseToken = runs[r].leaseToken /\ runs'[r].resultOf = runs[r].resultOf
  BY <1>3 DEF IInv, TypeOK, Run
<1>7. /\ \A q \in RunId : q # r => runs'[q] = runs[q]
      /\ runs[r].status = "absent"
      /\ UNCHANGED <<claiming, failing, sweep, settling, settled, handbacks>>
  BY <1>3, Zenon DEF enqueue
<1>8. RowsOK'
  BY <1>6, <1>7, <1>5
     DEF FieldsOK, IInv, RowsOK, OneRunningPerSession, LeaseIffRunning, ResultOfLastClaim,
         ErrorBudgetRespected, ClaimsInv, SettledOnce, isTerminal
<1>9. CopiesOK'
  BY <1>6, <1>7, <1>5 DEF FieldsOK, IInv, RowsOK, LeaseIffRunning, CopiesOK, CopyOK
<1>10. LocksOK'
  BY <1>6, <1>7, <1>5 DEF FieldsOK, IInv, LocksOK
<1> QED
  BY <1>4, <1>8, <1>9, <1>10, Zenon DEF IInv

(* Taking or giving up a row lock changes claiming alone.                  *)
LEMMA LockIInv ==
  ASSUME IInv, NEW w \in Worker, NEW r \in Claimable \cup {None},
         claiming' = [claiming EXCEPT ![w] = r],
         UNCHANGED <<runs, failing, sweep, settling, settled, handbacks>>
  PROVE  IInv'
<1>1. TypeOK'
  BY Zenon DEF Claimable, IInv, TypeOK
<1>2. RowsOK' /\ CopiesOK'
  BY DEF IInv, RowsOK, OneRunningPerSession, LeaseIffRunning, ResultOfLastClaim,
         ErrorBudgetRespected, ClaimsInv, SettledOnce, isTerminal, CopiesOK, CopyOK
<1>3. LocksOK'
  BY <1>1, Zenon DEF Claimable, IInv, TypeOK, LocksOK
<1> QED
  BY <1>1, <1>2, <1>3, Zenon DEF IInv

(* A heartbeat moves the expiry and nothing else.                          *)
LEMMA HeartbeatIInv ==
  ASSUME IInv, NEW r \in RunId, NEW t \in Nat, heartbeat(r, t)
  PROVE  IInv'
<1> DEFINE row == [runs[r] EXCEPT !.leaseExpiresAt = Ttl]
<1>1. /\ row \in Run
      /\ row.status = runs[r].status /\ row.sessionId = runs[r].sessionId
      /\ row.attempts = runs[r].attempts /\ row.errorAttempts = runs[r].errorAttempts
      /\ row.leaseToken = runs[r].leaseToken /\ row.resultOf = runs[r].resultOf
  BY TimeAssumption, SMTT(30) DEF IInv, TypeOK, Run
<1>2. /\ runs' = [runs EXCEPT ![r] = row]
      /\ UNCHANGED <<claiming, failing, sweep, settling, settled, handbacks>>
  BY Zenon DEF heartbeat
<1> HIDE DEF row
<1>3. runs'[r] = row /\ \A q \in RunId : q # r => runs'[q] = runs[q]
  BY <1>2, Zenon DEF IInv, TypeOK
<1>4. TypeOK'
  BY <1>1, <1>2, Zenon DEF IInv, TypeOK
<1>5. FieldsOK /\ FieldsOK'
  BY <1>4, TypedFields, TypedFieldsNext, Zenon DEF IInv
<1>6. RowsOK'
  BY <1>1, <1>2, <1>3, <1>5, SMTT(30)
     DEF FieldsOK, IInv, RowsOK, OneRunningPerSession, LeaseIffRunning, ResultOfLastClaim,
         ErrorBudgetRespected, ClaimsInv, SettledOnce, isTerminal
<1>7. CopiesOK'
  BY <1>1, <1>2, <1>3, <1>5 DEF FieldsOK, IInv, RowsOK, LeaseIffRunning, CopiesOK, CopyOK
<1>8. LocksOK'
  BY <1>1, <1>2, <1>3, <1>5 DEF FieldsOK, IInv, LocksOK
<1> QED
  BY <1>4, <1>6, <1>7, <1>8, Zenon DEF IInv

(* A handback counts one more claim as given back.                         *)
LEMMA ReleaseLeaseIInv ==
  ASSUME IInv, NEW r \in RunId, NEW t \in Nat, releaseLease(r, t)
  PROVE  IInv'
<1> DEFINE row == Unleased(runs[r], "pending")
<1>1. /\ row \in Run
      /\ row.status = "pending" /\ row.sessionId = runs[r].sessionId
      /\ row.attempts = runs[r].attempts /\ row.errorAttempts = runs[r].errorAttempts
      /\ row.leaseToken = 0 /\ row.resultOf = runs[r].resultOf
  BY UnleasedRow DEF IInv, TypeOK
<1>2. /\ runs' = [runs EXCEPT ![r] = row]
      /\ handbacks' = [handbacks EXCEPT ![r] = @ + 1]
      /\ runs[r].status = "running"
      /\ UNCHANGED <<claiming, failing, sweep, settling, settled>>
  BY Zenon DEF releaseLease
<1> HIDE DEF row
<1>3. runs'[r] = row /\ \A q \in RunId : q # r => runs'[q] = runs[q]
  BY <1>2, Zenon DEF IInv, TypeOK
<1>4. TypeOK'
  BY <1>1, <1>2 DEF IInv, TypeOK
<1>5. handbacks'[r] = handbacks[r] + 1 /\ \A q \in RunId : q # r => handbacks'[q] = handbacks[q]
  BY <1>2, Zenon DEF IInv, TypeOK
<1>5a. FieldsOK /\ FieldsOK'
  BY <1>4, TypedFields, TypedFieldsNext, Zenon DEF IInv
<1>6. RowsOK'
  BY <1>1, <1>2, <1>3, <1>5, <1>5a, BudgetAssumption, SMTT(30)
     DEF FieldsOK, IInv, RowsOK, OneRunningPerSession, LeaseIffRunning, ResultOfLastClaim,
         ErrorBudgetRespected, ClaimsInv, SettledOnce, isTerminal
<1>7. CopiesOK'
  BY <1>1, <1>2, <1>3, <1>5, <1>5a DEF FieldsOK, IInv, RowsOK, LeaseIffRunning, CopiesOK, CopyOK
<1>8. LocksOK'
  BY <1>1, <1>2, <1>3, <1>5, <1>5a DEF FieldsOK, IInv, LocksOK
<1> QED
  BY <1>4, <1>6, <1>7, <1>8, Zenon DEF IInv

(* complete: holding the token implies running, although it is not tested. *)
LEMMA CompleteIInv ==
  ASSUME IInv, NEW r \in RunId, NEW t \in Nat, complete(r, t)
  PROVE  IInv'
<1>0. runs[r].status = "running" /\ t = runs[r].attempts
  BY Zenon DEF complete, Holds, IInv, RowsOK, LeaseIffRunning
<1> DEFINE u   == Unleased(runs[r], "done")
           row == [u EXCEPT !.resultOf = t]
<1>1. /\ row \in Run
      /\ row.status = "done" /\ row.sessionId = runs[r].sessionId
      /\ row.attempts = runs[r].attempts /\ row.errorAttempts = runs[r].errorAttempts
      /\ row.leaseToken = 0 /\ row.resultOf = t
  <2>1. /\ u \in Run
        /\ u.status = "done" /\ u.sessionId = runs[r].sessionId
        /\ u.attempts = runs[r].attempts /\ u.errorAttempts = runs[r].errorAttempts
        /\ u.leaseToken = 0
    BY UnleasedRow DEF IInv, TypeOK
  <2> HIDE DEF u
  <2> QED
    BY <2>1, Zenon DEF Run
<1>2. /\ runs' = [runs EXCEPT ![r] = row]
      /\ settling' = settling \cup {r}
      /\ UNCHANGED <<claiming, failing, sweep, settled, handbacks>>
  BY Zenon DEF complete
<1> HIDE DEF row
<1>3. runs'[r] = row /\ \A q \in RunId : q # r => runs'[q] = runs[q]
  BY <1>2, Zenon DEF IInv, TypeOK
<1>4. TypeOK'
  BY <1>1, <1>2, SMTT(30) DEF IInv, TypeOK
<1>5. FieldsOK /\ FieldsOK'
  BY <1>4, TypedFields, TypedFieldsNext, Zenon DEF IInv
<1>6. RowsOK'
  BY <1>0, <1>1, <1>2, <1>3, <1>5, SMTT(30)
     DEF FieldsOK, IInv, RowsOK, OneRunningPerSession, LeaseIffRunning, ResultOfLastClaim,
         ErrorBudgetRespected, ClaimsInv, SettledOnce, isTerminal
<1>7. CopiesOK'
  BY <1>0, <1>1, <1>2, <1>3, <1>5 DEF FieldsOK, IInv, RowsOK, LeaseIffRunning, CopiesOK, CopyOK
<1>8. LocksOK'
  BY <1>0, <1>1, <1>2, <1>3, <1>5 DEF FieldsOK, IInv, LocksOK
<1> QED
  BY <1>4, <1>6, <1>7, <1>8, Zenon DEF IInv

(* The update of a claim: the locked row is pending, its session idle, and *)
(* the new token is larger than any copied one.                            *)
LEMMA LeaseClaimedIInv ==
  ASSUME IInv, NEW w \in Worker, NEW r \in RunId, r = claiming[w],
         leaseClaimed(w), ~sessionHasRunning(runs[r].sessionId)
  PROVE  IInv'
<1>0. runs[r].status = "pending" /\ \A v \in Worker : claiming[v] = r => v = w
  BY NoneAssumption, Zenon DEF IInv, LocksOK
<1> DEFINE row == lease(runs[r])
<1>1. /\ row \in Run
      /\ row.status = "running" /\ row.sessionId = runs[r].sessionId
      /\ row.attempts = runs[r].attempts + 1 /\ row.errorAttempts = runs[r].errorAttempts
      /\ row.leaseToken = runs[r].attempts + 1 /\ row.resultOf = runs[r].resultOf
  BY LeasedRow DEF IInv, TypeOK
<1>2. /\ runs' = [runs EXCEPT ![r] = row]
      /\ claiming' = [claiming EXCEPT ![w] = None]
      /\ UNCHANGED <<failing, sweep, settling, settled, handbacks>>
  BY Zenon DEF leaseClaimed
<1> HIDE DEF row
<1>3. runs'[r] = row /\ \A q \in RunId : q # r => runs'[q] = runs[q]
  BY <1>2, Zenon DEF IInv, TypeOK
<1>4. TypeOK'
  BY <1>1, <1>2, Zenon DEF IInv, TypeOK
<1>5. FieldsOK /\ FieldsOK'
  BY <1>4, TypedFields, TypedFieldsNext, SMTT(30) DEF IInv
<1>6. RowsOK'
  BY <1>0, <1>1, <1>2, <1>3, <1>5, BudgetAssumption, SMTT(30)
     DEF TypeOK, sessionHasRunning, FieldsOK, IInv, RowsOK, OneRunningPerSession, LeaseIffRunning, ResultOfLastClaim,
         ErrorBudgetRespected, ClaimsInv, SettledOnce, isTerminal
<1>7. CopiesOK'
  BY <1>0, <1>1, <1>2, <1>3, <1>5 DEF TypeOK, sessionHasRunning, FieldsOK, IInv, RowsOK, LeaseIffRunning, CopiesOK, CopyOK
<1>8. LocksOK'
  BY <1>0, <1>1, <1>2, <1>3, <1>5 DEF TypeOK, sessionHasRunning, FieldsOK, IInv, LocksOK
<1> QED
  BY <1>4, <1>6, <1>7, <1>8, Zenon DEF IInv

(* A retirement that finds its lease still standing: the copy is current,  *)
(* so the decision made from it is the decision for the row.               *)
LEMMA RetireIInv ==
  ASSUME IInv, NEW c \in RowCopy, CopyOK(c), StillLeased(c),
         NEW errors \in {0, 1}, retire(c, errors),
         failing' \subseteq failing,
         sweep' \in [Sweeper -> Sweep],
         \A z \in Sweeper : sweep'[z].rows \subseteq sweep[z].rows,
         UNCHANGED <<claiming, settled, handbacks>>
  PROVE  IInv'
<1> DEFINE r      == c.id
           status == IF Requeues(c, errors) THEN "pending" ELSE "failed"
           u      == Unleased(runs[r], status)
           row    == [u EXCEPT !.errorAttempts = @ + errors]
<1>1. /\ r \in RunId
      /\ c.attempts \in Nat /\ c.errorAttempts \in Nat
      /\ runs[r] \in Run
  BY Zenon DEF RowCopy, IInv, TypeOK
<1>2. FieldsOK
  BY TypedFields, Zenon DEF IInv
<1>3. /\ runs[r].status = "running" /\ runs[r].attempts = c.attempts
      /\ runs[r].errorAttempts = c.errorAttempts
      /\ runs[r].errorAttempts < MaxAttempts
  BY <1>1, <1>2, Zenon DEF CopyOK, StillLeased, IInv, RowsOK, LeaseIffRunning, ErrorBudgetRespected,
                    isTerminal
<1>4. /\ row \in Run
      /\ row.status = status /\ row.sessionId = runs[r].sessionId
      /\ row.attempts = runs[r].attempts /\ row.errorAttempts = runs[r].errorAttempts + errors
      /\ row.leaseToken = 0 /\ row.resultOf = runs[r].resultOf
  <2>1. status \in {"absent", "pending", "running", "done", "failed"}
    BY Zenon
  <2> HIDE DEF status
  <2>2. /\ u \in Run
        /\ u.status = status /\ u.sessionId = runs[r].sessionId
        /\ u.attempts = runs[r].attempts /\ u.errorAttempts = runs[r].errorAttempts
        /\ u.leaseToken = 0 /\ u.resultOf = runs[r].resultOf
    BY <1>1, <2>1, UnleasedRow
  <2> HIDE DEF u
  <2> QED
    BY <2>2 DEF Run
<1>5. /\ runs' = [runs EXCEPT ![r] = row]
      /\ settling' = IF Requeues(c, errors) THEN settling ELSE settling \cup {r}
  BY Zenon DEF retire
<1>6. /\ status = "pending" => /\ runs[r].errorAttempts + errors < MaxAttempts
                               /\ runs[r].attempts < MaxClaims
                               /\ settling' = settling
      /\ status = "failed" => settling' = settling \cup {r}
      /\ status \in {"pending", "failed"}
  BY <1>3, <1>5, Zenon DEF Requeues
<1> HIDE DEF r, status, row
<1>7. runs'[r] = row /\ \A q \in RunId : q # r => runs'[q] = runs[q]
  BY <1>1, <1>5, Zenon DEF IInv, TypeOK
<1>8. TypeOK'
  BY <1>1, <1>4, <1>5, <1>6 DEF IInv, TypeOK
<1>9. FieldsOK'
  BY <1>8, TypedFieldsNext, SMTT(30)
<1>10. RowsOK'
  BY <1>1, <1>2, <1>3, <1>4, <1>6, <1>7, <1>9, BudgetAssumption, SMTT(30)
     DEF FieldsOK, IInv, RowsOK, OneRunningPerSession, LeaseIffRunning, ResultOfLastClaim,
         ErrorBudgetRespected, ClaimsInv, SettledOnce, isTerminal
<1>11. CopiesOK'
  BY <1>1, <1>2, <1>3, <1>4, <1>7, <1>9 DEF FieldsOK, IInv, CopiesOK, CopyOK
<1>12. LocksOK'
  BY <1>1, <1>2, <1>3, <1>7 DEF FieldsOK, IInv, LocksOK
<1> QED
  BY <1>8, <1>10, <1>11, <1>12, Zenon DEF IInv

(* Steps that only read the table: the copies they take are good ones.     *)
LEMMA CopyTaken ==
  ASSUME IInv, NEW r \in RunId, runs[r].status = "running", NEW retry \in BOOLEAN
  PROVE  rowCopy(r, retry) \in RowCopy /\ CopyOK(rowCopy(r, retry))
<1>1. FieldsOK
  BY TypedFields, Zenon DEF IInv
<1> QED
  BY <1>1 DEF rowCopy, RowCopy, CopyOK, FieldsOK, IInv, RowsOK, LeaseIffRunning

(* A step that leaves the table alone preserves everything but, perhaps,   *)
(* what it writes.                                                         *)
LEMMA ReadOnlyIInv ==
  ASSUME IInv, TypeOK',
         UNCHANGED <<runs, claiming, settling, settled, handbacks>>,
         \A c \in failing' : CopyOK(c),
         \A z \in Sweeper : \A c \in sweep'[z].rows : CopyOK(c)
  PROVE  IInv'
<1>1. RowsOK' /\ LocksOK'
  BY DEF IInv, LocksOK, RowsOK, OneRunningPerSession, LeaseIffRunning, ResultOfLastClaim,
         ErrorBudgetRespected, ClaimsInv, SettledOnce, isTerminal
<1>2. CopiesOK'
  BY DEF CopiesOK, CopyOK
<1> QED
  BY <1>1, <1>2, Zenon DEF IInv

(* fail()'s read copies a row that is under the caller's lease.            *)
LEMMA FailIInv ==
  ASSUME IInv, NEW r \in RunId, NEW t \in Nat, NEW retry \in BOOLEAN, fail(r, t, retry)
  PROVE  IInv'
<1>1. runs[r].status = "running"
  BY Zenon DEF fail, Holds, IInv, RowsOK, LeaseIffRunning
<1>2. rowCopy(r, retry) \in RowCopy /\ CopyOK(rowCopy(r, retry))
  BY <1>1, CopyTaken, Zenon
<1>3. TypeOK'
  BY <1>2, Zenon DEF fail, IInv, TypeOK
<1> QED
  BY <1>2, <1>3, ReadOnlyIInv, Zenon DEF fail, IInv, CopiesOK

(* fail()'s update retires the row only if the copy is still current.      *)
LEMMA FailRetireIInv ==
  ASSUME IInv, NEW c \in failing, failRetire(c)
  PROVE  IInv'
<1>1. c \in RowCopy /\ CopyOK(c) /\ sweep \in [Sweeper -> Sweep]
  BY Zenon DEF IInv, TypeOK, CopiesOK
<1>2. CASE StillLeased(c)
  BY <1>1, <1>2, RetireIInv, Zenon DEF failRetire
<1>3. CASE ~StillLeased(c)
  <2>1. TypeOK'
    BY <1>3, Zenon DEF failRetire, IInv, TypeOK
  <2> QED
    BY <1>3, <2>1, ReadOnlyIInv, Zenon DEF failRetire, IInv, CopiesOK
<1> QED
  BY <1>2, <1>3, Zenon

(* A sweep copies running rows, so its copies are well formed.             *)
LEMMA ReapExpiredIInv ==
  ASSUME IInv, NEW z \in Sweeper, reapExpired(z)
  PROVE  IInv'
<1> DEFINE lapsed == {q \in RunId : leaseLapsed(runs[q])}
           copies == {rowCopy(r, -runs[r].startedAt <= MaxAge) : r \in lapsed}
           new    == [NoSweep EXCEPT !.active = TRUE, !.rows = copies]
<1>1. \A c \in copies : c \in RowCopy /\ CopyOK(c)
  <2>1. \A r \in lapsed : r \in RunId /\ runs[r].status = "running"
    BY Zenon DEF leaseLapsed
  <2>2. \A r \in lapsed : (-runs[r].startedAt <= MaxAge) \in BOOLEAN
    OBVIOUS
  <2> QED
    BY <2>1, <2>2, CopyTaken, Zenon
<1>2. sweep' = [sweep EXCEPT ![z] = new]
      /\ UNCHANGED <<runs, claiming, failing, settling, settled, handbacks>>
  BY Zenon DEF reapExpired
<1> HIDE DEF copies
<1>3. new \in Sweep /\ new.rows = copies
  BY <1>1, Zenon DEF NoSweep, Sweep
<1> HIDE DEF new
<1>4. TypeOK'
  BY <1>2, <1>3, Zenon DEF IInv, TypeOK
<1>5. \A y \in Sweeper : \A c \in sweep'[y].rows : CopyOK(c)
  BY <1>1, <1>2, <1>3, Zenon DEF IInv, TypeOK, CopiesOK
<1> QED
  BY <1>2, <1>4, <1>5, ReadOnlyIInv DEF IInv, CopiesOK

(* An iteration of the sweep retires one row or skips it.                  *)
LEMMA ReapRetireIInv ==
  ASSUME IInv, NEW z \in Sweeper, NEW c \in sweep[z].rows, reapRetire(z, c)
  PROVE  IInv'
<1>1. c \in RowCopy /\ CopyOK(c) /\ sweep[z] \in Sweep
  BY Zenon DEF IInv, TypeOK, CopiesOK, Sweep
<1>2. c.id \in RunId /\ runs[c.id].sessionId \in Session
  BY <1>1, Zenon DEF IInv, TypeOK, RowCopy, Run
<1>3. sweep' \in [Sweeper -> Sweep] /\ \A y \in Sweeper : sweep'[y].rows \subseteq sweep[y].rows
  BY <1>1, <1>2 DEF reapRetire, IInv, TypeOK, Sweep
<1>4. CASE StillLeased(c) /\ runs[c.id].leaseExpiresAt + sweep[z].age <= 0
  BY <1>1, <1>3, <1>4, RetireIInv, Zenon DEF reapRetire
<1>5. CASE ~(StillLeased(c) /\ runs[c.id].leaseExpiresAt + sweep[z].age <= 0)
  <2>1. UNCHANGED <<runs, claiming, failing, settling, settled, handbacks>>
    BY <1>5, Zenon DEF reapRetire
  <2>2. TypeOK'
    BY <1>3, <2>1, Zenon DEF IInv, TypeOK
  <2> QED
    BY <1>3, <2>1, <2>2, ReadOnlyIInv, Zenon DEF IInv, CopiesOK
<1> QED
  BY <1>4, <1>5, Zenon

(* Ending a sweep, regularly or not, or handling one of its sessions only  *)
(* forgets copies and sessions.                                            *)
LEMMA ReapDoneIInv ==
  ASSUME IInv, NEW z \in Sweeper, NEW t, reapDone(z) \/ abortSweep(z) \/ onRetired(z, t)
  PROVE  IInv'
<1>1. NoSweep \in Sweep /\ NoSweep.rows = {}
  BY Zenon DEF NoSweep, Sweep
<1>2. sweep' \in [Sweeper -> Sweep] /\ \A y \in Sweeper : sweep'[y].rows \subseteq sweep[y].rows
  <2>1. CASE reapDone(z) \/ abortSweep(z)
    BY <1>1, <2>1 DEF reapDone, abortSweep, IInv, TypeOK
  <2>2. CASE onRetired(z, t)
    BY <2>2, SMTT(30) DEF onRetired, IInv, TypeOK, Sweep
  <2> QED
    BY <2>1, <2>2, SMTT(30)
<1>3. UNCHANGED <<runs, claiming, failing, settling, settled, handbacks>>
  BY Zenon DEF reapDone, abortSweep, onRetired
<1>4. TypeOK'
  BY <1>2, <1>3, Zenon DEF IInv, TypeOK
<1> QED
  BY <1>2, <1>3, <1>4, ReadOnlyIInv, Zenon DEF IInv, CopiesOK

(* A fail() that dies before its update drops its copy.                    *)
LEMMA DieBeforeRetireIInv ==
  ASSUME IInv, NEW c \in failing, dieBeforeRetire(c)
  PROVE  IInv'
<1>1. TypeOK'
  BY Zenon DEF dieBeforeRetire, IInv, TypeOK
<1> QED
  BY <1>1, ReadOnlyIInv, Zenon DEF dieBeforeRetire, IInv, CopiesOK

(* Calling the listeners, or dying before it, takes the run off settling.  *)
LEMMA SettleIInv ==
  ASSUME IInv, NEW r \in RunId, settle(r) \/ dieBeforeSettle(r)
  PROVE  IInv'
<1>1. TypeOK'
  BY DEF settle, dieBeforeSettle, IInv, TypeOK
<1>2. /\ r \in settling /\ settling' = settling \ {r}
      /\ \A q \in RunId : q # r => settled'[q] = settled[q]
      /\ settled'[r] \in {settled[r], settled[r] + 1}
      /\ UNCHANGED <<runs, claiming, failing, sweep, handbacks>>
  BY Zenon DEF settle, dieBeforeSettle, IInv, TypeOK
<1>3. FieldsOK /\ FieldsOK'
  BY <1>1, TypedFields, TypedFieldsNext, SMTT(30) DEF IInv
<1>4. RowsOK'
  BY <1>2, <1>3, SMTT(30) DEF FieldsOK, IInv, RowsOK, OneRunningPerSession, LeaseIffRunning, ResultOfLastClaim,
         ErrorBudgetRespected, ClaimsInv, SettledOnce, isTerminal
<1>5. CopiesOK' /\ LocksOK'
  BY <1>2 DEF IInv, CopiesOK, CopyOK, LocksOK
<1> QED
  BY <1>1, <1>4, <1>5, Zenon DEF IInv

(* Time moves only the instants, which the row invariants do not mention.  *)
LEMMA TickIInv ==
  ASSUME IInv, Tick
  PROVE  IInv'
<1>1. \A r \in RunId :
        /\ runs'[r] \in Run
        /\ runs'[r].status = runs[r].status /\ runs'[r].sessionId = runs[r].sessionId
        /\ runs'[r].attempts = runs[r].attempts
        /\ runs'[r].errorAttempts = runs[r].errorAttempts
        /\ runs'[r].leaseToken = runs[r].leaseToken /\ runs'[r].resultOf = runs[r].resultOf
  <2> TAKE r \in RunId
  <2> DEFINE left == IF runs[r].status = "running" /\ runs[r].leaseExpiresAt > -MaxSweep
                       THEN runs[r].leaseExpiresAt - 1 ELSE runs[r].leaseExpiresAt
             start == IF runs[r].attempts > 0 /\ ~isTerminal(runs[r]) /\ runs[r].startedAt >= -MaxAge
                        THEN runs[r].startedAt - 1 ELSE runs[r].startedAt
             aged == [runs[r] EXCEPT !.leaseExpiresAt = left]
  <2>1. runs[r] \in Run /\ left \in Int /\ start \in Int
    BY TimeAssumption, SMTT(30) DEF IInv, TypeOK, Run
  <2>2. runs'[r] = [aged EXCEPT !.startedAt = start]
    BY Zenon DEF Tick, Aged
  <2> HIDE DEF left, start
  <2>3. /\ aged \in Run
        /\ aged.status = runs[r].status /\ aged.sessionId = runs[r].sessionId
        /\ aged.attempts = runs[r].attempts /\ aged.errorAttempts = runs[r].errorAttempts
        /\ aged.leaseToken = runs[r].leaseToken /\ aged.resultOf = runs[r].resultOf
    BY <2>1 DEF Run
  <2> HIDE DEF aged
  <2> QED
    BY <2>1, <2>2, <2>3 DEF Run
<1>2. /\ sweep' \in [Sweeper -> Sweep]
      /\ \A z \in Sweeper : sweep'[z].rows = sweep[z].rows
      /\ runs' = [r \in RunId |-> Aged(runs[r])]
      /\ UNCHANGED <<claiming, failing, settling, settled, handbacks>>
  BY SMTT(30) DEF Tick, IInv, TypeOK, Sweep
<1>3. TypeOK'
  BY <1>1, <1>2, Zenon DEF IInv, TypeOK
<1>4. FieldsOK /\ FieldsOK'
  BY <1>3, TypedFields, TypedFieldsNext, Zenon DEF IInv
<1>5. UNCHANGED <<claiming, failing, settling, settled, handbacks>>
  BY <1>2, SMTT(30)
<1>6. RowsOK'
  BY <1>1, <1>4, <1>5, SMTT(30) DEF FieldsOK, IInv, RowsOK, OneRunningPerSession, LeaseIffRunning, ResultOfLastClaim,
         ErrorBudgetRespected, ClaimsInv, SettledOnce, isTerminal
<1>7. CopiesOK'
  BY <1>1, <1>2, <1>4, <1>5, SMTT(30) DEF FieldsOK, IInv, CopiesOK, CopyOK
<1>8. LocksOK'
  BY <1>1, <1>4, <1>5, SMTT(30) DEF FieldsOK, IInv, LocksOK
<1> QED
  BY <1>3, <1>6, <1>7, <1>8, Zenon DEF IInv

(* Every step of the store preserves the inductive invariant.              *)
LEMMA NextIInv == IInv /\ [Next]_vars => IInv'
<1> SUFFICES ASSUME IInv, [Next]_vars PROVE IInv'
  BY Zenon
<1>1. ASSUME NEW r \in RunId, NEW s \in Session, NEW k \in DedupKey \cup {NoKey}, enqueue(r, s, k)
      PROVE  IInv'
  BY <1>1, EnqueueIInv, Zenon
<1>2. ASSUME NEW w \in Worker, claim(w) \/ abortClaim(w) PROVE IInv'
  BY <1>2, LockIInv, Zenon DEF claim, abortClaim
<1>3. ASSUME NEW w \in Worker, NEW r \in RunId, claimById(w, r) PROVE IInv'
  BY <1>3, LockIInv, Zenon DEF claimById
<1>4. ASSUME NEW w \in Worker, leaseClaimed(w) PROVE IInv'
  <2>1. CASE sessionHasRunning(runs[claiming[w]].sessionId)
    BY <1>4, <2>1, LockIInv, Zenon DEF leaseClaimed
  <2>2. CASE ~sessionHasRunning(runs[claiming[w]].sessionId)
    <3>1. claiming[w] \in RunId
      BY <1>4, Zenon DEF leaseClaimed, IInv, TypeOK
    <3> QED
      BY <1>4, <2>2, <3>1, LeaseClaimedIInv, Zenon
  <2> QED
    BY <2>1, <2>2, Zenon
<1>5. ASSUME NEW r \in RunId, NEW t \in 1..runs[r].attempts, TokenCall(r, t) PROVE IInv'
  <2>1. t \in Nat
    BY DEF IInv, TypeOK, Run
  <2>2. heartbeat(r, t) => IInv'
    BY <2>1, HeartbeatIInv, Zenon
  <2>3. releaseLease(r, t) => IInv'
    BY <2>1, ReleaseLeaseIInv, Zenon
  <2>4. complete(r, t) => IInv'
    BY <2>1, CompleteIInv, Zenon
  <2>5. ASSUME NEW retry \in BOOLEAN, fail(r, t, retry) PROVE IInv'
    BY <2>1, <2>5, FailIInv, Zenon
  <2> QED
    BY <1>5, <2>2, <2>3, <2>4, <2>5, Zenon DEF TokenCall
<1>6. ASSUME NEW c \in failing, failRetire(c) \/ dieBeforeRetire(c) PROVE IInv'
  BY <1>6, FailRetireIInv, DieBeforeRetireIInv, Zenon
<1>7. ASSUME NEW z \in Sweeper, reapExpired(z) PROVE IInv'
  BY <1>7, ReapExpiredIInv, Zenon
<1>8. ASSUME NEW z \in Sweeper, NEW t, reapDone(z) \/ abortSweep(z) \/ onRetired(z, t) PROVE IInv'
  BY <1>8, ReapDoneIInv, Zenon
<1>9. ASSUME NEW z \in Sweeper, NEW c \in sweep[z].rows, reapRetire(z, c) PROVE IInv'
  BY <1>9, ReapRetireIInv, Zenon
<1>10. ASSUME NEW r \in RunId, settle(r) \/ dieBeforeSettle(r) PROVE IInv'
  BY <1>10, SettleIInv, Zenon
<1>11. ASSUME Tick PROVE IInv'
  BY <1>11, TickIInv, SMTT(30)
<1>12. ASSUME UNCHANGED vars PROVE IInv'
  <2>1. /\ runs' = runs /\ claiming' = claiming /\ failing' = failing /\ sweep' = sweep
        /\ settling' = settling /\ settled' = settled /\ handbacks' = handbacks
    BY <1>12, Zenon DEF vars
  <2>2. TypeOK'
    BY <2>1, Zenon DEF IInv, TypeOK
  <2>3. RowsOK'
    BY <2>1, Zenon DEF IInv, RowsOK, OneRunningPerSession, LeaseIffRunning, ResultOfLastClaim,
                       ErrorBudgetRespected, ClaimsInv, SettledOnce
  <2>4. CopiesOK' /\ LocksOK'
    BY <2>1, Zenon DEF IInv, CopiesOK, CopyOK, LocksOK
  <2> QED
    BY <2>2, <2>3, <2>4, Zenon DEF IInv
<1> QED
  BY <1>1, <1>2, <1>3, <1>4, <1>5, <1>6, <1>7, <1>8, <1>9, <1>10, <1>11, <1>12 DEF Next

(* The invariant holds in every reachable state.                           *)
THEOREM Invariance == Spec => []IInv
  BY InitIInv, NextIInv, PTL DEF Spec

(* Every variable keeps its type.                                          *)
THEOREM TypeCorrect == Spec => []TypeOK
  BY Invariance, PTL DEF IInv

(* No session ever has two running runs, whatever the claims interleave    *)
(* with: the subselect's stale snapshot is backed by the unique index.     *)
THEOREM MutualExclusion == Spec => []OneRunningPerSession
  BY Invariance, PTL DEF IInv, RowsOK

(* A lease token is held exactly while running and is the last one issued; *)
(* hence complete() needs no test of the status.                           *)
THEOREM LeaseDiscipline == Spec => []LeaseIffRunning
  BY Invariance, PTL DEF IInv, RowsOK

(* A stored result was written under the last claim of its run.            *)
THEOREM ResultFenced == Spec => []ResultOfLastClaim
  BY Invariance, PTL DEF IInv, RowsOK

(* fail() decides from a copy that may be stale, yet never overspends or   *)
(* requeues without error budget.                                          *)
THEOREM BudgetSound == Spec => []ErrorBudgetRespected
  BY Invariance, PTL DEF IInv, RowsOK

(* Claims are bounded by maxClaims plus the handbacks.                     *)
THEOREM ClaimsBounded == Spec => []ClaimsCapped
<1>1. IInv => ClaimsCapped
  BY Zenon DEF IInv, RowsOK, ClaimsInv, ClaimsCapped
<1> QED
  BY <1>1, Invariance, PTL

(* onTerminal listeners run at most once per run, after it is terminal.    *)
THEOREM ListenersOnce == Spec => []SettledOnce
  BY Invariance, PTL DEF IInv, RowsOK

-----------------------------------------------------------------------------
(* Refinement of RunQueue and the action properties.  Both follow from     *)
(* what a step can do to the status and session of a row.                  *)

(* A step leaves every row's status, session and number of claims alone,   *)
(* and all of the terminal rows.                                           *)
Stutters ==
  \A q \in RunId :
    /\ runs'[q].status = runs[q].status /\ runs'[q].sessionId = runs[q].sessionId
    /\ runs'[q].attempts = runs[q].attempts
    /\ isTerminal(runs[q]) => runs'[q] = runs[q]

(* A step moves run r from one status to another, counting its claims, and *)
(* touches no other row.                                                   *)
Moves(r, from, to) ==
  /\ runs[r].status = from /\ runs'[r].status = to
  /\ runs'[r].attempts = IF to = "running" THEN runs[r].attempts + 1 ELSE runs[r].attempts
  /\ runs'[r].sessionId = runs[r].sessionId
  /\ \A q \in RunId : q # r => runs'[q] = runs[q]

(* The moves the abstract queue allows.                                    *)
QueueMove ==
  \/ Stutters
  \/ \E r \in RunId : /\ runs[r].status = "absent" /\ runs'[r].status = "pending"
                       /\ runs'[r].attempts = runs[r].attempts
                       /\ \A q \in RunId : q # r => runs'[q] = runs[q]
  \/ \E r \in RunId : /\ Moves(r, "pending", "running") /\ ~sessionHasRunning(runs[r].sessionId)
                       /\ \E w \in Worker : claiming[w] = r
  \/ \E r \in RunId, to \in {"pending", "done", "failed"} : Moves(r, "running", to)

(* The update of a claim starts a run of an idle session, or nothing.      *)
LEMMA LeaseClaimedMove ==
  ASSUME IInv, NEW w \in Worker, leaseClaimed(w)
  PROVE  QueueMove
<1>1. CASE sessionHasRunning(runs[claiming[w]].sessionId)
  BY <1>1, Zenon DEF leaseClaimed, QueueMove, Stutters
<1>2. CASE ~sessionHasRunning(runs[claiming[w]].sessionId)
  <2> DEFINE r == claiming[w]
             row == lease(runs[r])
  <2>1. r \in RunId /\ runs[r].status = "pending" /\ runs[r] \in Run
    BY SMTT(30) DEF leaseClaimed, IInv, TypeOK, LocksOK
  <2>2. /\ row.status = "running" /\ row.sessionId = runs[r].sessionId
        /\ row.attempts = runs[r].attempts + 1
    BY <2>1, LeasedRow
  <2>3. runs' = [runs EXCEPT ![r] = row]
    BY <1>2, Zenon DEF leaseClaimed
  <2> HIDE DEF row
  <2>4. Moves(r, "pending", "running")
    BY <2>1, <2>2, <2>3, Zenon DEF Moves, IInv, TypeOK
  <2> QED
    BY <1>2, <2>1, <2>4 DEF QueueMove
<1> QED
  BY <1>1, <1>2, Zenon

(* A retirement ends a running spell.                                      *)
LEMMA RetireMove ==
  ASSUME IInv, NEW c \in RowCopy, StillLeased(c), NEW errors \in {0, 1}, retire(c, errors)
  PROVE  QueueMove
<1> DEFINE r      == c.id
           status == IF Requeues(c, errors) THEN "pending" ELSE "failed"
           u      == Unleased(runs[r], status)
           row    == [u EXCEPT !.errorAttempts = @ + errors]
<1>1. r \in RunId /\ runs[r] \in Run /\ runs[r].status = "running"
  BY Zenon DEF RowCopy, StillLeased, IInv, TypeOK
<1>2. runs' = [runs EXCEPT ![r] = row]
  BY Zenon DEF retire
<1>3. status \in {"pending", "failed"}
  BY Zenon
<1> HIDE DEF status
<1>4. /\ u \in Run /\ u.status = status /\ u.sessionId = runs[r].sessionId
      /\ u.attempts = runs[r].attempts
  BY <1>1, <1>3, UnleasedRow
<1> HIDE DEF u
<1>5. /\ row.status = status /\ row.sessionId = runs[r].sessionId
      /\ row.attempts = runs[r].attempts
  BY <1>4, SMTT(30) DEF Run
<1> HIDE DEF row, r
<1>6. Moves(r, "running", status)
  BY <1>1, <1>2, <1>3, <1>5, SMTT(30) DEF Moves, IInv, TypeOK
<1> QED
  BY <1>1, <1>3, <1>6, Zenon DEF QueueMove

(* What any step of the store does to the statuses.                        *)
LEMMA NextMove == IInv /\ [Next]_vars => QueueMove
<1> SUFFICES ASSUME IInv, [Next]_vars PROVE QueueMove
  BY SMTT(30)
<1>1. ASSUME NEW r \in RunId, NEW s \in Session, NEW k \in DedupKey \cup {NoKey}, enqueue(r, s, k)
      PROVE  QueueMove
  <2>1. PICK at \in 1..MaxInstant :
          runs' = [runs EXCEPT ![r].sessionId = s, ![r].status = "pending",
                               ![r].dedupKey = k, ![r].createdAt = at]
    BY <1>1, ZenonT(30) DEF enqueue
  <2>2. /\ runs'[r].status = "pending" /\ runs'[r].attempts = runs[r].attempts
        /\ \A q \in RunId : q # r => runs'[q] = runs[q]
    BY <2>1 DEF IInv, TypeOK, Run
  <2> QED
    BY <1>1, <2>2, Zenon DEF enqueue, QueueMove
<1>2. ASSUME NEW w \in Worker, claim(w) \/ abortClaim(w) PROVE QueueMove
  BY <1>2, SMTT(30) DEF claim, abortClaim, QueueMove, Stutters
<1>3. ASSUME NEW w \in Worker, NEW r \in RunId, claimById(w, r) PROVE QueueMove
  BY <1>3, Zenon DEF claimById, QueueMove, Stutters
<1>4. ASSUME NEW w \in Worker, leaseClaimed(w) PROVE QueueMove
  BY <1>4, LeaseClaimedMove, Zenon
<1>5. ASSUME NEW r \in RunId, NEW t \in 1..runs[r].attempts, TokenCall(r, t) PROVE QueueMove
  <2>1. CASE heartbeat(r, t)
    <3>1. \A q \in RunId : q # r => runs'[q] = runs[q]
      BY <2>1, Zenon DEF heartbeat, IInv, TypeOK
    <3>2. /\ runs'[r].status = runs[r].status /\ runs'[r].sessionId = runs[r].sessionId
          /\ runs'[r].attempts = runs[r].attempts
      BY <2>1 DEF heartbeat, IInv, TypeOK, Run
    <3> QED
      BY <2>1, <3>1, <3>2, Zenon DEF heartbeat, QueueMove, Stutters, isTerminal
  <2>2. CASE releaseLease(r, t)
    <3> DEFINE row == Unleased(runs[r], "pending")
    <3>1. /\ row.status = "pending" /\ row.sessionId = runs[r].sessionId
          /\ row.attempts = runs[r].attempts
      BY UnleasedRow DEF IInv, TypeOK
    <3>2. runs' = [runs EXCEPT ![r] = row] /\ runs[r].status = "running"
      BY <2>2, Zenon DEF releaseLease
    <3> HIDE DEF row
    <3>3. Moves(r, "running", "pending")
      BY <3>1, <3>2, Zenon DEF Moves, IInv, TypeOK
    <3> QED
      BY <3>3, Zenon DEF QueueMove
  <2>3. CASE complete(r, t)
    <3> DEFINE u   == Unleased(runs[r], "done")
               row == [u EXCEPT !.resultOf = t]
    <3>1. /\ u \in Run /\ u.status = "done" /\ u.sessionId = runs[r].sessionId
          /\ u.attempts = runs[r].attempts
      BY UnleasedRow DEF IInv, TypeOK
    <3>2. runs' = [runs EXCEPT ![r] = row]
      BY <2>3 DEF complete
    <3>3. runs[r].status = "running"
      BY <2>3 DEF complete, Holds, IInv, RowsOK, LeaseIffRunning
    <3> HIDE DEF u
    <3>4. /\ row.status = "done" /\ row.sessionId = runs[r].sessionId
          /\ row.attempts = runs[r].attempts
      BY <3>1 DEF Run
    <3> HIDE DEF row
    <3>5. Moves(r, "running", "done")
      BY <3>2, <3>3, <3>4, SMTT(30) DEF Moves, IInv, TypeOK
    <3> QED
      BY <3>5, Zenon DEF QueueMove
  <2>4. ASSUME NEW retry \in BOOLEAN, fail(r, t, retry) PROVE QueueMove
    BY <2>4 DEF fail, QueueMove, Stutters
  <2> QED
    BY <1>5, <2>1, <2>2, <2>3, <2>4, Zenon DEF TokenCall
<1>6. ASSUME NEW c \in failing, failRetire(c) \/ dieBeforeRetire(c) PROVE QueueMove
  <2>1. c \in RowCopy
    BY DEF IInv, TypeOK
  <2>2. CASE failRetire(c) /\ StillLeased(c)
    BY <2>1, <2>2, RetireMove, SMTT(30) DEF failRetire
  <2>3. CASE failRetire(c) /\ ~StillLeased(c)
    BY <2>3, SMTT(30) DEF failRetire, QueueMove, Stutters
  <2>4. CASE dieBeforeRetire(c)
    BY <2>4 DEF dieBeforeRetire, QueueMove, Stutters
  <2> QED
    BY <1>6, <2>2, <2>3, <2>4
<1>7. ASSUME NEW z \in Sweeper, NEW t,
             reapExpired(z) \/ reapDone(z) \/ abortSweep(z) \/ onRetired(z, t)
      PROVE  QueueMove
  BY <1>7 DEF reapExpired, reapDone, abortSweep, onRetired, QueueMove, Stutters
<1>8. ASSUME NEW z \in Sweeper, NEW c \in sweep[z].rows, reapRetire(z, c) PROVE QueueMove
  <2>1. c \in RowCopy
    BY DEF IInv, TypeOK, Sweep
  <2>2. CASE StillLeased(c) /\ runs[c.id].leaseExpiresAt + sweep[z].age <= 0
    BY <1>8, <2>1, <2>2, RetireMove DEF reapRetire
  <2>3. CASE ~(StillLeased(c) /\ runs[c.id].leaseExpiresAt + sweep[z].age <= 0)
    BY <1>8, <2>3, SMTT(30) DEF reapRetire, QueueMove, Stutters
  <2> QED
    BY <2>2, <2>3
<1>9. ASSUME NEW r \in RunId, settle(r) \/ dieBeforeSettle(r) PROVE QueueMove
  BY <1>9, SMTT(30) DEF settle, dieBeforeSettle, QueueMove, Stutters
<1>10. ASSUME Tick PROVE QueueMove
  <2>1. \A q \in RunId : runs'[q] = Aged(runs[q]) /\ runs[q] \in Run
    BY <1>10 DEF Tick, IInv, TypeOK
  <2>2. \A run \in Run : /\ Aged(run).status = run.status
                          /\ Aged(run).sessionId = run.sessionId
                          /\ Aged(run).attempts = run.attempts
    BY DEF Aged, Run
  <2>3. \A run \in Run : isTerminal(run) => Aged(run) = run
    BY ZenonT(30) DEF Aged, Run, isTerminal
  <2> QED
    BY <2>1, <2>2, <2>3 DEF QueueMove, Stutters
<1>11. ASSUME UNCHANGED vars PROVE QueueMove
  BY <1>11 DEF vars, QueueMove, Stutters
<1> QED
  BY <1>1, <1>2, <1>3, <1>4, <1>5, <1>6, <1>7, <1>8, <1>9, <1>10, <1>11 DEF Next

(* Every step of the store leaves that much in place.                      *)
LEMMA NextPersists ==
  ASSUME IInv, IInv', [Next]_vars, NEW r \in RunId
  PROVE  RowPersists(r)
<1>1. QueueMove
  BY NextMove
<1>2. /\ runs[r].attempts \in Nat /\ runs'[r].attempts \in Nat
      /\ runs[r].leaseToken \in Nat /\ runs'[r].leaseToken \in Nat
  BY TypedFields, TypedFieldsNext DEF IInv, FieldsOK
<1>3. /\ runs'[r].status = "running" => runs'[r].leaseToken = runs'[r].attempts
      /\ runs'[r].status # "running" => runs'[r].leaseToken = 0
      /\ runs[r].status = "running" => runs[r].leaseToken = runs[r].attempts
  BY SMTT(30) DEF IInv, RowsOK, LeaseIffRunning
<1>4. \/ /\ runs'[r].attempts = runs[r].attempts
         /\ runs'[r].status = "running" => runs[r].status = "running"
      \/ /\ runs'[r].attempts = runs[r].attempts + 1 /\ runs'[r].status = "running"
         /\ \E w \in Worker : claiming[w] = r
  BY <1>1, SMTT(30) DEF QueueMove, Stutters, Moves
<1>5. runs[r].status # "absent" =>
        runs'[r].status # "absent" /\ runs'[r].sessionId = runs[r].sessionId
  BY <1>1, SMTT(30) DEF QueueMove, Stutters, Moves
<1>6. isTerminal(runs[r]) => runs'[r] = runs[r]
  BY <1>1, SMTT(30) DEF QueueMove, Stutters, Moves, isTerminal
<1>7. \A t \in 1..runs[r].attempts : ~Holds(r, t) => ~Holds(r, t)'
  BY <1>2, <1>3, <1>4 DEF Holds
<1> QED
  BY <1>2, <1>4, <1>5, <1>6, <1>7 DEF RowPersists

(* Nothing a late caller does changes a settled run.                       *)
THEOREM Finality == Spec => TerminalIsFinal
<1>1. IInv /\ [Next]_vars => \A r \in RunId : isTerminal(runs[r]) => runs'[r] = runs[r]
  <2> SUFFICES ASSUME QueueMove, NEW r \in RunId, isTerminal(runs[r]) PROVE runs'[r] = runs[r]
    BY NextMove
  <2> QED
    BY DEF QueueMove, Stutters, Moves, isTerminal
<1> QED
  BY <1>1, Invariance, PTL DEF Spec, TerminalIsFinal

(* A sweep ends only leases that are lapsed when its update runs: no       *)
(* renewal since the select is lost.                                       *)
THEOREM ReapsLapsed == Spec => ReapsOnlyLapsed
<1>1. IInv => \A z \in Sweeper : \A c \in sweep[z].rows :
                reapRetire(z, c) /\ runs' # runs => runs[c.id].leaseExpiresAt <= 0
  <2> SUFFICES ASSUME IInv, NEW z \in Sweeper, NEW c \in sweep[z].rows,
                      reapRetire(z, c), runs' # runs
               PROVE  runs[c.id].leaseExpiresAt <= 0
    OBVIOUS
  <2>1. runs[c.id].leaseExpiresAt + sweep[z].age <= 0
    BY DEF reapRetire
  <2>2. sweep[z].age \in Nat /\ c.id \in RunId
    BY SMTT(30) DEF IInv, TypeOK, Sweep, RowCopy
  <2>3. runs[c.id].leaseExpiresAt \in Int
    BY <2>2 DEF IInv, TypeOK, Run
  <2> QED
    BY <2>1, <2>2, <2>3
<1> QED
  BY <1>1, Invariance, PTL DEF ReapsOnlyLapsed

(* The initial states map to initial states of the abstract queue.         *)
LEMMA QueueInit == Init => Queue!Init
  BY SessionAssumption, SMTT(30) DEF Init, NoRow, Queue!Init

(* A move of the statuses is a step, or a stutter, of the abstract queue.  *)
LEMMA QueueStep ==
  ASSUME TypeOK, TypeOK', QueueMove
  PROVE  [Queue!Next]_(Queue!vars)
<1> DEFINE phase  == [q \in RunId |-> runs[q].status]
           thread == [q \in RunId |-> runs[q].sessionId]
<1>1. CASE Stutters
  BY <1>1, SMTT(30) DEF Stutters, Queue!vars
<1>2. ASSUME NEW r \in RunId, runs[r].status = "absent", runs'[r].status = "pending",
             \A q \in RunId : q # r => runs'[q] = runs[q]
      PROVE  Queue!Submit(r)
  <2>1. runs'[r].sessionId \in Session
    BY DEF TypeOK, Run
  <2>2. phase' = [phase EXCEPT ![r] = "pending"]
    BY <1>2, Zenon
  <2>3. thread' = [thread EXCEPT ![r] = runs'[r].sessionId]
    BY <1>2, Zenon
  <2> QED
    BY <1>2, <2>1, <2>2, <2>3, Zenon DEF Queue!Submit
<1>3. ASSUME NEW r \in RunId, Moves(r, "pending", "running"),
             ~sessionHasRunning(runs[r].sessionId)
      PROVE  Queue!Start(r)
  <2>1. phase' = [phase EXCEPT ![r] = "running"] /\ thread' = thread
    BY <1>3, Zenon DEF Moves
  <2> QED
    BY <1>3, <2>1 DEF Moves, sessionHasRunning, Queue!Start
<1>4. ASSUME NEW r \in RunId, NEW to \in {"pending", "done", "failed"}, Moves(r, "running", to)
      PROVE  Queue!Yield(r) \/ Queue!Settle(r)
  <2>1. phase' = [phase EXCEPT ![r] = to] /\ thread' = thread
    BY <1>4, Zenon DEF Moves
  <2> QED
    BY <1>4, <2>1, Zenon DEF Moves, Queue!Yield, Queue!Settle
<1> QED
  BY <1>1, <1>2, <1>3, <1>4 DEF QueueMove, Queue!Next

(* The store, with its tokens, clocks and split statements, implements the *)
(* abstract queue.                                                         *)
THEOREM Refinement == Spec => ImplementsQueue
<1>1. IInv /\ IInv' /\ [Next]_vars => [Queue!Next]_(Queue!vars)
  BY NextMove, QueueStep DEF IInv
<1> QED
  BY <1>1, QueueInit, Invariance, PTL DEF Spec, Queue!Spec, ImplementsQueue

-----------------------------------------------------------------------------
(* The session store.                                                      *)

(* No lease and no writes to begin with.                                   *)
LEMMA SessionInitIInv == SessionInit => SessionIInv
  BY DEF SessionInit, SessionIInv, SessionTypeOK, Fenced, WritersInTurn, NoLease, Lease

(* The fields of the tables are numbers.                                   *)
LEMMA SessionTypedFields ==
  ASSUME SessionTypeOK
  PROVE  \A q \in SessionId :
           /\ issued[q] \in Nat /\ leases[q].token \in Nat /\ Len(log[q]) \in Nat
           /\ \A i \in 1..Len(log[q]) : log[q][i].token \in Nat
<1> SUFFICES ASSUME NEW q \in SessionId
             PROVE  /\ issued[q] \in Nat /\ leases[q].token \in Nat /\ Len(log[q]) \in Nat
                    /\ \A i \in 1..Len(log[q]) : log[q][i].token \in Nat
  BY Zenon
<1>1. log[q] \in Seq(Write) /\ Len(log[q]) \in Nat
  BY DEF SessionTypeOK
<1>2. \A i \in 1..Len(log[q]) : log[q][i] \in Write
  BY <1>1
<1> QED
  BY <1>1, <1>2 DEF SessionTypeOK, Lease, Write

(* The lease row is replaced by one whose token is new or absent, and the  *)
(* log keeps its writes or is emptied.                                     *)
LEMMA LeaseIInv ==
  ASSUME SessionIInv, NEW s \in SessionId, NEW row \in Lease,
         leases' = [leases EXCEPT ![s] = row],
         \/ row.token = 0 /\ issued' = issued
         \/ row.token = issued[s] + 1 /\ issued' = [issued EXCEPT ![s] = @ + 1]
         \/ row.token = leases[s].token /\ issued' = issued,
         log' = log \/ log' = [log EXCEPT ![s] = <<>>]
  PROVE  SessionIInv'
<1>1. SessionTypeOK'
  <2>1. log' \in [SessionId -> Seq(Write)]
    <3>1. <<>> \in Seq(Write)
      OBVIOUS
    <3> QED
      BY <3>1, Zenon DEF SessionIInv, SessionTypeOK
  <2>2. issued' \in [SessionId -> Nat]
    BY DEF SessionIInv, SessionTypeOK
  <2> QED
    BY <2>1, <2>2, Zenon DEF SessionIInv, SessionTypeOK
<1>2. \A q \in SessionId :
        /\ issued[q] \in Nat /\ leases[q].token \in Nat /\ Len(log[q]) \in Nat
        /\ \A i \in 1..Len(log[q]) : log[q][i].token \in Nat
  BY SessionTypedFields DEF SessionIInv
<1>3. \A q \in SessionId : log'[q] = log[q] \/ log'[q] = <<>>
  BY DEF SessionIInv, SessionTypeOK
<1>4. \A q \in SessionId : q # s => leases'[q] = leases[q] /\ issued'[q] = issued[q]
  BY DEF SessionIInv, SessionTypeOK
<1>5. /\ leases'[s] = row
      /\ \/ row.token = 0 /\ issued'[s] = issued[s]
         \/ row.token = issued[s] + 1 /\ issued'[s] = issued[s] + 1
         \/ row.token = leases[s].token /\ issued'[s] = issued[s]
  BY DEF SessionIInv, SessionTypeOK
<1>6. Fenced'
  BY <1>2, <1>3, <1>4, <1>5 DEF SessionIInv, Fenced
<1>7. WritersInTurn'
  BY <1>3 DEF SessionIInv, WritersInTurn
<1> QED
  BY <1>1, <1>6, <1>7 DEF SessionIInv

(* A write goes to the end of the log, under the token of the lease row,   *)
(* which no earlier write exceeds.                                         *)
LEMMA AppendIInv ==
  ASSUME SessionIInv, NEW s \in SessionId, NEW t \in Nat,
         NEW kind \in {"entry", "tape"}, NEW rec \in Record, append(s, t, kind, rec)
  PROVE  SessionIInv'
<1> DEFINE w   == [token |-> t, kind |-> kind, record |-> rec]
           new == Append(log[s], w)
<1>1. w \in Write /\ w.token = t /\ log[s] \in Seq(Write)
  BY Zenon DEF Write, SessionIInv, SessionTypeOK
<1>2. /\ log' = [log EXCEPT ![s] = new]
      /\ leases' = [leases EXCEPT ![s].expiresAt = SessionTtl]
      /\ issued' = issued
      /\ t = leases[s].token /\ t # 0
  BY DEF append, HoldsLease
<1> HIDE DEF w
<1>3. /\ new \in Seq(Write) /\ Len(new) = Len(log[s]) + 1 /\ Len(log[s]) \in Nat
      /\ \A i \in 1..Len(log[s]) : new[i] = log[s][i]
      /\ new[Len(log[s]) + 1] = w
  BY <1>1
<1> HIDE DEF new
<1>4. SessionTypeOK'
  BY <1>2, <1>3, SessionBounds, ZenonT(30) DEF SessionIInv, SessionTypeOK, Lease
<1>5. /\ log'[s] = new
      /\ \A q \in SessionId : q # s => log'[q] = log[q]
      /\ \A q \in SessionId : leases'[q].token = leases[q].token
  BY <1>2 DEF SessionIInv, SessionTypeOK, Lease
<1>6. \A q \in SessionId :
        /\ issued[q] \in Nat /\ leases[q].token \in Nat /\ Len(log[q]) \in Nat
        /\ \A i \in 1..Len(log[q]) : log[q][i].token \in Nat
  BY SessionTypedFields, Zenon DEF SessionIInv
<1>7. \A i \in 1..Len(new) : i \in 1..Len(log[s]) \/ i = Len(log[s]) + 1
  BY <1>3
<1>8. Fenced'
  BY <1>1, <1>2, <1>3, <1>5, <1>6, <1>7 DEF SessionIInv, Fenced
<1>9. ASSUME NEW i \in 1..Len(new), NEW j \in 1..Len(new), i < j
      PROVE  new[i].token <= new[j].token
  <2>1. i \in 1..Len(log[s])
    BY <1>3, <1>9
  <2>2. CASE j \in 1..Len(log[s])
    BY <1>3, <1>9, <2>1, <2>2 DEF SessionIInv, WritersInTurn
  <2>3. CASE j = Len(log[s]) + 1
    BY <1>1, <1>2, <1>3, <2>1, <2>3 DEF SessionIInv, Fenced
  <2> QED
    BY <1>7, <2>2, <2>3
<1>10. WritersInTurn'
  BY <1>5, <1>9 DEF SessionIInv, WritersInTurn
<1> QED
  BY <1>4, <1>8, <1>10 DEF SessionIInv

(* Every step of the session store preserves the invariant.                *)
LEMMA SessionNextIInv == SessionIInv /\ [SessionNext]_sessionVars => SessionIInv'
<1> SUFFICES ASSUME SessionIInv, [SessionNext]_sessionVars PROVE SessionIInv'
  OBVIOUS
<1>1. NoLease \in Lease /\ NoLease.token = 0
  BY DEF NoLease, Lease
<1>2. ASSUME NEW s \in SessionId, acquireLease(s) PROVE SessionIInv'
  <2>1. [token |-> issued[s] + 1, expiresAt |-> SessionTtl] \in Lease
    BY SessionBounds DEF Lease, SessionIInv, SessionTypeOK
  <2> QED
    BY <1>2, <2>1, LeaseIInv, Zenon DEF acquireLease
<1>3. ASSUME NEW s \in SessionId, forceReleaseLease(s) \/ deleteSession(s) PROVE SessionIInv'
  BY <1>1, <1>3, LeaseIInv DEF forceReleaseLease, deleteSession
<1>4. ASSUME NEW s \in SessionId, NEW t \in 1..issued[s], releaseSessionLease(s, t) PROVE SessionIInv'
  <2>1. CASE leases[s].token = t
    BY <1>1, <1>4, <2>1, LeaseIInv, Zenon DEF releaseSessionLease
  <2>2. CASE leases[s].token # t
    BY <1>4, <2>2 DEF releaseSessionLease, SessionIInv, SessionTypeOK, Fenced, WritersInTurn
  <2> QED
    BY <2>1, <2>2
<1>5. ASSUME NEW s \in SessionId, NEW t \in 1..issued[s], NEW kind \in {"entry", "tape"},
             NEW rec \in Record, append(s, t, kind, rec)
      PROVE  SessionIInv'
  <2>1. t \in Nat
    BY DEF SessionIInv, SessionTypeOK
  <2> QED
    BY <1>5, <2>1, AppendIInv
<1>6. ASSUME SessionTick PROVE SessionIInv'
  <2>1. \A s \in SessionId : leases'[s] \in Lease /\ leases'[s].token = leases[s].token
    <3> SUFFICES ASSUME NEW s \in SessionId
                 PROVE  leases'[s] \in Lease /\ leases'[s].token = leases[s].token
      OBVIOUS
    <3>1. leases[s] \in Lease
      BY DEF SessionIInv, SessionTypeOK
    <3>2. leases'[s] = IF leases[s].expiresAt > 0
                         THEN [leases[s] EXCEPT !.expiresAt = leases[s].expiresAt - 1]
                         ELSE leases[s]
      BY <1>6 DEF SessionTick
    <3> QED
      BY <3>1, <3>2 DEF Lease
  <2>2. leases' \in [SessionId -> Lease]
    BY <1>6, <2>1 DEF SessionTick
  <2>3. issued' = issued /\ log' = log
    BY <1>6 DEF SessionTick
  <2> QED
    BY <2>1, <2>2, <2>3, Zenon DEF SessionIInv, SessionTypeOK, Fenced, WritersInTurn
<1>7. ASSUME UNCHANGED sessionVars PROVE SessionIInv'
  BY <1>7 DEF sessionVars, SessionIInv, SessionTypeOK, Fenced, WritersInTurn
<1> QED
  BY <1>2, <1>3, <1>4, <1>5, <1>6, <1>7 DEF SessionNext

(* The invariant holds in every reachable state.                           *)
THEOREM SessionInvariance == SessionSpec => []SessionIInv
  BY SessionInitIInv, SessionNextIInv, PTL DEF SessionSpec

(* Every variable keeps its type.                                          *)
THEOREM SessionTypeCorrect == SessionSpec => []SessionTypeOK
  BY SessionInvariance, PTL DEF SessionIInv

(* withLease fences the logs: whatever stale, expired or force-released    *)
(* holders attempt, writers take turns in the order of their acquisitions. *)
THEOREM LogsFenced == SessionSpec => []WritersInTurn
  BY SessionInvariance, PTL DEF SessionIInv
=============================================================================
