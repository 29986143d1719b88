------------------------ MODULE TurnExecutionProofs -------------------------
(***************************************************************************)
(* The other actions of TurnExecution keep the inductive invariant too.    *)
(* The workers, the turn and the reaper use both stores as the stores      *)
(* allow, so that what is proved of the stores with arbitrary callers      *)
(* holds of the composition, and the theorems follow.                      *)
(***************************************************************************)
EXTENDS TurnExecutionInvariant

(* processRun reports to a store that has moved on, or that cannot be      *)
(* reached.                                                                *)
LEMMA VainReport ==
  ASSUME TInv, StoresKept, NEW w \in Worker, reportResult(w) \/ reportError(w),
         ~R!Holds(wk[w].run, wk[w].token) \/ faults' # faults
  PROVE  Sound
<1>1. wk[w].pc = "report" /\ UNCHANGED sessionVars
  BY Zenon DEF reportResult, reportError
<1>2. faults' \in 0..MaxFaults
  BY FaultType, Zenon DEF reportResult, reportError
<1>3. UNCHANGED runVars /\ answer' = answer
  BY Zenon DEF reportResult, reportError
<1>4. [R!Next]_(R!vars) /\ failing' = failing /\ claiming' = claiming
  BY <1>3, NoRunCall, Zenon
<1>5. [S!SessionNext]_(S!sessionVars) /\ LogsPersist /\ log' = log
  BY <1>1, NoSessionCall, Zenon
<1>6. Finish(w) \/ wk' = [wk EXCEPT ![w].out = "error"]
  BY Zenon DEF reportResult, reportError
<1>7. CASE Finish(w)
  BY <1>1, <1>2, <1>3, <1>4, <1>5, <1>7, Finishes, Zenon
<1>8. CASE wk' = [wk EXCEPT ![w].out = "error"]
  <2> DEFINE x == [wk[w] EXCEPT !.out = "error"]
  <2>1. wk \in [Worker -> WorkerState] /\ wk[w] \in WorkerState
    BY Zenon DEF TInv, TypeOK
  <2>2. /\ x \in WorkerState /\ x.pc = wk[w].pc /\ x.run = wk[w].run /\ x.token = wk[w].token
        /\ x.lease = wk[w].lease /\ x.out = "error" /\ x.owed = wk[w].owed
        /\ x.lost = wk[w].lost
    BY <2>1, Zenon DEF WorkerState
  <2>3. wk' = [wk EXCEPT ![w] = x]
    BY <1>8, <2>1, Zenon
  <2>4. claiming[w] = None
    BY <1>1, Zenon DEF TInv, IdleClean
  <2> HIDE DEF x
  <2>5. wk'[w] = x => Stays(w)
    BY <1>1, <1>4, <2>2, <2>4, Zenon DEF Stays, Continues, Rests, busy
  <2> QED
    BY <1>2, <1>3, <1>4, <1>5, <2>2, <2>3, <2>5, WorkerStays, Zenon
<1> QED
  BY <1>6, <1>7, <1>8, Zenon

(* A call of fail() ends, and with it the worker's turn: the other calls   *)
(* under way are still those of the other workers.                         *)
LEMMA OtherFailures ==
  ASSUME TInv, NEW w \in Worker, wk[w].pc = "failing",
         failing' = failing \ {copyOf(w)}, wk'[w].pc # "failing",
         \A v \in Worker : v # w => wk'[v] = wk[v]
  PROVE  FailuresOwned' /\ copyOf(w) \in failing
<1> DEFINE c == copyOf(w)
<1>1. c \in failing /\ c.id = wk[w].run /\ c.token = wk[w].token
  <2>1. \E d \in failing : d.id = wk[w].run /\ d.token = wk[w].token
    BY Zenon DEF TInv, FailuresOwned
  <2> QED
    BY <2>1, Zenon DEF copyOf
<1> HIDE DEF c
<1>2. failing' = failing \ {c}
  BY Zenon DEF c
<1>3. ASSUME NEW v \in Worker, wk'[v].pc = "failing"
      PROVE  \E d \in failing' : d.id = wk'[v].run /\ d.token = wk'[v].token
  <2>1. v # w /\ wk'[v] = wk[v]
    BY <1>3, Zenon
  <2>2. PICK d \in failing : d.id = wk[v].run /\ d.token = wk[v].token
    BY <1>3, <2>1, Zenon DEF TInv, FailuresOwned
  <2>3. ~(wk[v].run = wk[w].run /\ wk[v].token = wk[w].token)
    BY <1>3, <2>1, Zenon DEF TInv, ClaimsApart, busy
  <2>4. d # c
    BY <1>1, <2>2, <2>3, Zenon
  <2> QED
    BY <1>2, <2>1, <2>2, <2>4, Zenon
<1>4. ASSUME NEW d \in failing'
      PROVE  \E v \in Worker : wk'[v].pc = "failing" /\ wk'[v].run = d.id /\ wk'[v].token = d.token
  <2>1. d \in failing /\ d # c
    BY <1>2, <1>4, Zenon
  <2>2. PICK v \in Worker : wk[v].pc = "failing" /\ wk[v].run = d.id /\ wk[v].token = d.token
    BY <2>1, Zenon DEF TInv, FailuresOwned
  <2>3. v # w
    BY <1>1, <2>1, <2>2 DEF TInv, FailuresOwned
  <2> QED
    BY <2>2, <2>3, Zenon
<1>5. \A d, e \in failing' : d.id = e.id /\ d.token = e.token => d = e
  BY <1>2, Zenon DEF TInv, FailuresOwned
<1> QED
  BY <1>1, <1>3, <1>4, <1>5, Zenon DEF FailuresOwned, c

(* A worker is done with fail(), and so is the copy fail() had read.       *)
LEMMA FailureEnds ==
  ASSUME TInv, StoresKept, NEW w \in Worker, [R!Next]_(R!vars), UNCHANGED sessionVars,
         answer' = answer, claiming' = claiming, faults' \in 0..MaxFaults,
         wk[w].pc = "failing", failing' = failing \ {copyOf(w)},
         NEW x \in WorkerState, wk' = [wk EXCEPT ![w] = x],
         /\ x.pc = "idle" /\ x.out = "none" /\ x.lost = 0 /\ x.lease = 0 /\ ~x.owed
         /\ x.release # "no" => /\ wk[w].release # "no"
                                /\ x.run = wk[w].run /\ x.token = wk[w].token
  PROVE  Sound
<1>1. wk \in [Worker -> WorkerState]
  BY Zenon DEF TInv, TypeOK
<1>2. /\ wk' \in [Worker -> WorkerState] /\ wk'[w] = x
      /\ \A v \in Worker : v # w => wk'[v] = wk[v]
  BY <1>1, Zenon
<1>3. [S!SessionNext]_(S!sessionVars) /\ LogsPersist /\ log' = log
  BY NoSessionCall, Zenon
<1>4. R!IInv' /\ S!SessionIInv' /\ RowsPersist
  BY <1>3, StoresStep, Zenon
<1>5. \A v \in Worker : v # w => Stays(v)
  BY <1>2, Bystander, Zenon
<1>6. claiming[w] = None
  BY Zenon DEF TInv, IdleClean
<1>7. Continues(w) /\ Rests(w) /\ wk'[w].pc # "failing" /\ ~wk'[w].owed
      /\ wk'[w].pc # "replied" /\ wk'[w].out # "answered"
  BY <1>2, <1>6, Zenon DEF Continues, Rests, busy
<1>8. \A v \in Worker : Continues(v) /\ Rests(v)
  BY <1>5, <1>7, Zenon DEF Stays
<1>9. TypeOK'
  BY <1>2, <1>4, StoreTypesNext, Zenon DEF TypeOK, TInv
<1>10. ClaimKnown' /\ ClaimsApart' /\ LostIsLost' /\ IdleClean' /\ ClaimsBounded'
  BY <1>3, <1>4, <1>8, KeptClaims, KeptLocks, KeptBounds, Zenon
<1>11. FailuresOwned'
  BY <1>2, <1>7, OtherFailures, Zenon
<1>12. ReplyWritten' /\ AnswerInTranscript'
  BY <1>2, <1>3, <1>4, <1>7, KeptReplies, Zenon
<1>13. HasLast' /\ OwedIsMissing' /\ RetryDoesNotRepeat'
  <2>1. \A v \in Worker : wk'[v].owed => wk[v].owed /\ wk'[v].pc # "idle"
    BY <1>2, <1>7, <1>8, Zenon DEF Rests
  <2> QED
    BY <1>3, <1>4, <1>8, <2>1, KeptTranscript, Zenon
<1> QED
  BY <1>3, <1>4, <1>9, <1>10, <1>11, <1>12, <1>13, Zenon DEF TInv, Sound

(* fail() retires the run ...                                              *)
LEMMA RetireStep ==
  ASSUME TInv, StoresKept, NEW w \in Worker, retire(w)
  PROVE  Sound
<1> DEFINE x == Done(wk[w])
<1>1. wk \in [Worker -> WorkerState] /\ wk[w].pc = "failing"
  BY Zenon DEF TInv, TypeOK, retire
<1>2. /\ x \in WorkerState /\ x.pc = "idle" /\ x.out = "none" /\ x.lost = 0
      /\ x.lease = 0 /\ ~x.owed /\ x.release = wk[w].release
      /\ wk[w].release # "no" => x.run = wk[w].run /\ x.token = wk[w].token
  BY <1>1, DoneState, Zenon
<1>3. wk' = [wk EXCEPT ![w] = x]
  BY <1>1, Zenon DEF retire, Finish
<1> HIDE DEF x
<1>4. /\ R!failRetire(copyOf(w)) /\ copyOf(w) \in failing
      /\ failing' = failing \ {copyOf(w)} /\ claiming' = claiming
  BY Zenon DEF retire, R!failRetire
<1>5. R!Next
  BY <1>4, Zenon DEF R!Next
<1>6. UNCHANGED sessionVars /\ answer' = answer /\ faults' \in 0..MaxFaults
  BY FaultType, Zenon DEF retire
<1> QED
  BY <1>1, <1>2, <1>3, <1>4, <1>5, <1>6, FailureEnds, Zenon

(* ... unless the process dies before, there or anywhere else.             *)
LEMMA DieStep ==
  ASSUME TInv, StoresKept, NEW w \in Worker, Die(w), UNCHANGED sessionVars, answer' = answer,
         faults' \in 0..MaxFaults
  PROVE  Sound
<1>1. wk \in [Worker -> WorkerState]
  BY Zenon DEF TInv, TypeOK
<1>2. /\ Idle \in WorkerState /\ Idle.pc = "idle" /\ Idle.out = "none" /\ Idle.lost = 0
      /\ Idle.lease = 0 /\ Idle.owed = FALSE /\ Idle.release = "no"
  BY TurnAssumption DEF Idle, WorkerState
<1>3. wk' = [wk EXCEPT ![w] = Idle]
  BY Zenon DEF Die
<1>4. wk' \in [Worker -> WorkerState] /\ wk'[w] = Idle /\ \A v \in Worker : v # w => wk'[v] = wk[v]
  BY <1>1, <1>2, <1>3, Zenon
<1>5. [S!SessionNext]_(S!sessionVars) /\ LogsPersist /\ log' = log
  BY NoSessionCall, Zenon
<1>6. CASE claiming[w] # None
  <2>1. R!abortClaim(w)
    BY <1>6, Zenon DEF Die
  <2>2. [R!Next]_(R!vars) /\ failing' = failing /\ claiming' = [claiming EXCEPT ![w] = None]
    BY <2>1, Zenon DEF R!Next, R!abortClaim
  <2>3. wk[w].pc = "idle" /\ claiming \in [Worker -> RunId \cup {None}]
    BY <1>6, Zenon DEF TInv, IdleClean, R!IInv, R!TypeOK
  <2>4. claiming'[w] = None /\ \A v \in Worker : v # w => claiming'[v] = claiming[v]
    BY <2>2, <2>3, Zenon
  <2>5. Stays(w)
    BY <1>2, <1>4, <2>3, <2>4, Zenon DEF Stays, Continues, Rests, busy
  <2>6. \A v \in Worker : Stays(v)
    BY <1>4, <2>4, <2>5, Bystander, Zenon
  <2> QED
    BY <1>4, <1>5, <2>2, <2>6, PlainStep, Zenon
<1>7. CASE claiming[w] = None /\ wk[w].pc = "failing"
  <2>1. /\ R!dieBeforeRetire(copyOf(w)) /\ copyOf(w) \in failing
        /\ failing' = failing \ {copyOf(w)} /\ claiming' = claiming
    BY <1>7, Zenon DEF Die, R!dieBeforeRetire
  <2>2. R!Next
    BY <2>1, Zenon DEF R!Next
  <2> QED
    BY <1>2, <1>3, <1>7, <2>1, <2>2, FailureEnds, Zenon
<1>8. CASE claiming[w] = None /\ wk[w].pc # "failing"
  <2>1. [R!Next]_(R!vars) /\ failing' = failing /\ claiming' = claiming
    BY <1>8, NoRunCall, Zenon DEF Die
  <2>2. Stays(w)
    BY <1>2, <1>4, <1>8, <2>1, Zenon DEF Stays, Continues, Rests, busy
  <2> QED
    BY <1>2, <1>3, <1>5, <2>1, <2>2, WorkerStays, Zenon
<1> QED
  BY <1>6, <1>7, <1>8, Zenon

(* The process exits or dies, or a statement of releaseInFlight throws.    *)
LEMMA ExitStep ==
  ASSUME TInv, StoresKept, NEW w \in Worker, exit(w) \/ crash(w) \/ releaseFails(w)
  PROVE  Sound
<1>1. UNCHANGED sessionVars /\ answer' = answer /\ faults' \in 0..MaxFaults
  BY FaultType, Zenon DEF exit, crash, releaseFails
<1>2. CASE Die(w)
  BY <1>1, <1>2, DieStep, Zenon
<1>3. CASE /\ wk' = [wk EXCEPT ![w] = Released(@, wk[w].releasedLeaseToken)]
           /\ UNCHANGED runVars /\ wk[w].release # "no"
  <2>1. wk[w].releasedLeaseToken \in Nat
    BY Zenon DEF TInv, TypeOK, WorkerState
  <2> QED
    BY <1>1, <1>3, <2>1, NoRunCall, Releases, Zenon
<1> QED
  BY <1>2, <1>3, Zenon DEF exit, crash, releaseFails

-----------------------------------------------------------------------------
(* The store takes the result of a claim whose reply is in the transcript. *)
LEMMA ReportResultStep ==
  ASSUME TInv, StoresKept, NEW w \in Worker, reportResult(w)
  PROVE  Sound
<1> SUFFICES ASSUME R!Holds(wk[w].run, wk[w].token), faults' = faults PROVE Sound
  BY VainReport, Zenon
<1>1. /\ wk[w].pc = "report" /\ wk[w].out \notin {"error", "fatal"} /\ Finish(w)
      /\ R!complete(wk[w].run, wk[w].token) /\ UNCHANGED sessionVars
      /\ answer' = [answer EXCEPT ![wk[w].run] = wk[w].out]
  BY TurnAssumption DEF reportResult, Fault, TInv, TypeOK
<1>2. busy(w) /\ claiming[w] = None
  BY <1>1, Zenon DEF busy, TInv, IdleClean
<1>3. [R!Next]_(R!vars) /\ failing' = failing /\ claiming' = claiming
  BY <1>1, <1>2, TokenStep, Zenon
<1>4. [S!SessionNext]_(S!sessionVars) /\ LogsPersist /\ log' = log
  BY <1>1, NoSessionCall, Zenon
<1>5. R!IInv' /\ S!SessionIInv' /\ RowsPersist
  BY <1>3, <1>4, StoresStep, Zenon
<1>6. PICK r \in RunId, t \in Nat, out \in {"none", "answered", "declined", "refused"} :
        r = wk[w].run /\ t = wk[w].token /\ out = wk[w].out
  <2>1. wk[w].out \in {"none", "answered", "declined", "refused"}
    BY <1>1, Zenon DEF TInv, TypeOK, WorkerState
  <2> QED
    BY <1>2, <2>1, KnownFields, Zenon
<1>7. /\ answer \in [RunId -> {"none", "answered", "declined", "refused"}]
      /\ answer' \in [RunId -> {"none", "answered", "declined", "refused"}]
      /\ answer'[r] = out /\ \A q \in RunId : q # r => answer'[q] = answer[q]
  BY <1>1, <1>6, Zenon DEF TInv, TypeOK
<1> DEFINE x == Done(wk[w])
<1>8. wk \in [Worker -> WorkerState]
  BY Zenon DEF TInv, TypeOK
<1>9. /\ x \in WorkerState /\ x.pc = "idle" /\ x.out = "none" /\ x.lost = 0
      /\ x.lease = 0 /\ ~x.owed /\ x.release = wk[w].release
      /\ wk[w].release # "no" => x.run = wk[w].run /\ x.token = wk[w].token
  BY <1>8, DoneState, Zenon
<1>10. wk' = [wk EXCEPT ![w] = x]
  BY <1>1, <1>8, Zenon DEF Finish
<1> HIDE DEF x
<1>11. /\ wk' \in [Worker -> WorkerState] /\ wk'[w] = x
       /\ \A v \in Worker : v # w => wk'[v] = wk[v]
  BY <1>8, <1>9, <1>10, Zenon
<1>12. \A v \in Worker : v # w => Stays(v)
  BY <1>3, <1>11, Bystander, Zenon
<1>13. Continues(w) /\ Rests(w) /\ wk'[w].pc \notin {"failing", "replied"}
       /\ wk'[w].out = "none" /\ ~wk'[w].owed
  BY <1>2, <1>3, <1>9, <1>11, Zenon DEF Continues, Rests, busy
<1>14. \A v \in Worker : Continues(v) /\ Rests(v)
  BY <1>12, <1>13, Zenon DEF Stays
<1>15. TypeOK'
  BY <1>5, <1>7, <1>11, StoreTypesNext, Zenon DEF TypeOK, TInv
<1>16. ClaimKnown' /\ ClaimsApart' /\ LostIsLost' /\ IdleClean' /\ ClaimsBounded'
  BY <1>4, <1>5, <1>14, KeptClaims, KeptLocks, KeptBounds, Zenon
<1>17. FailuresOwned'
  BY <1>1, <1>3, <1>11, <1>13, KeptFailures, Zenon
<1>18. runs'[r].status = "done" /\ runs'[r].resultOf = t /\ runs'[r].sessionId = runs[r].sessionId
  <2>1. runs' = [runs EXCEPT ![r] = [R!Unleased(@, "done") EXCEPT !.resultOf = t]]
    BY <1>1, <1>6, Zenon DEF R!complete
  <2>2. runs \in [RunId -> R!Run] /\ runs[r] \in R!Run
    BY Zenon DEF TInv, R!IInv, R!TypeOK
  <2>3. runs'[r] = [R!Unleased(runs[r], "done") EXCEPT !.resultOf = t]
    BY <2>1, <2>2, Zenon
  <2> QED
    BY <2>2, <2>3, Zenon DEF R!Unleased, R!Run
<1>19. ASSUME NEW v \in Worker, wk'[v].pc = "replied" \/ wk'[v].out = "answered"
       PROVE  Replied(wk[v].run, wk[v].token)'
  <2>1. wk'[v] = wk[v]
    BY <1>11, <1>13, <1>19, Zenon
  <2> QED
    BY <1>4, <1>5, <1>19, <2>1, KeptTurnReply, Zenon
<1>20. ASSUME NEW q \in RunId, answer'[q] # "none"
       PROVE  /\ R!isTerminal(runs'[q])
              /\ answer'[q] = "answered" => Replied(q, runs[q].resultOf)'
  <2>1. CASE q # r
    BY <1>4, <1>5, <1>7, <1>20, <2>1, KeptAnswer, Zenon
  <2>2. CASE q = r
    <3>1. ASSUME out = "answered" PROVE Replied(r, t)'
      <4>1. Replied(r, t)
        BY <1>6, <3>1, Zenon DEF TInv, ReplyWritten
      <4>2. runs[r].status # "absent"
        BY <1>2, <1>6, KnownFields, Zenon
      <4> QED
        BY <1>4, <1>5, <4>1, <4>2, KeptReply, Zenon
    <3> QED
      BY <1>7, <1>18, <2>2, <3>1, Zenon DEF R!isTerminal, Replied
  <2> QED
    BY <2>1, <2>2, Zenon
<1>21. ReplyWritten'
  BY <1>19, <1>20, Zenon DEF ReplyWritten
<1>22. AnswerInTranscript'
  BY <1>20, Zenon DEF AnswerInTranscript, Replied
<1>23. HasLast' /\ OwedIsMissing' /\ RetryDoesNotRepeat'
  <2>1. \A v \in Worker : wk'[v].owed => wk[v].owed /\ wk'[v].pc # "idle"
    BY <1>11, <1>13, <1>14, Zenon DEF Rests
  <2> QED
    BY <1>4, <1>5, <1>14, <2>1, KeptTranscript, Zenon
<1> QED
  BY <1>3, <1>4, <1>5, <1>15, <1>16, <1>17, <1>21, <1>22, <1>23, Zenon DEF TInv, Sound

(* The call of fail() begins: the worker's own, and the only one for its   *)
(* claim.                                                                  *)
LEMMA ReportErrorStep ==
  ASSUME TInv, StoresKept, NEW w \in Worker, reportError(w)
  PROVE  Sound
<1> SUFFICES ASSUME R!Holds(wk[w].run, wk[w].token) PROVE Sound
  BY VainReport, Zenon
<1>1. /\ wk[w].pc = "report" /\ Goto(w, "failing") /\ UNCHANGED sessionVars
      /\ R!fail(wk[w].run, wk[w].token, wk[w].out = "error")
      /\ answer' = answer /\ faults' \in 0..MaxFaults
  BY FaultType, Zenon DEF reportError
<1>2. busy(w) /\ claiming[w] = None
  BY <1>1, Zenon DEF busy, TInv, IdleClean
<1>3. PICK r \in RunId, t \in Nat, retry \in BOOLEAN :
        r = wk[w].run /\ t = wk[w].token /\ retry = (wk[w].out = "error")
  BY <1>2, KnownFields, Zenon
<1>4. t \in 1..runs[r].attempts
  BY <1>2, <1>3, KnownFields, Zenon
<1>5. ASSUME NEW d \in failing PROVE ~(d.id = r /\ d.token = t)
  <2>1. PICK v \in Worker : wk[v].pc = "failing" /\ wk[v].run = d.id /\ wk[v].token = d.token
    BY Zenon DEF TInv, FailuresOwned
  <2>2. v # w /\ busy(v)
    BY <1>1, <2>1, Zenon DEF busy
  <2> QED
    BY <1>2, <1>3, <2>1, <2>2, Zenon DEF TInv, ClaimsApart
<1>6. R!fail(r, t, retry)
  BY <1>1, <1>3, Zenon
<1>7. R!Next
  <2>1. R!TokenCall(r, t)
    BY <1>5, <1>6, Zenon DEF R!TokenCall
  <2> QED
    BY <1>4, <2>1, Zenon DEF R!Next
<1>8. PICK c : /\ failing' = failing \cup {c} /\ c.id = r /\ c.token = t
               /\ claiming' = claiming /\ runs' = runs
  <2> DEFINE c == R!rowCopy(r, retry)
  <2>1. c.id = r /\ c.token = t
    BY <1>6, Zenon DEF R!fail, R!rowCopy, R!Holds
  <2>2. failing' = failing \cup {c} /\ claiming' = claiming /\ runs' = runs
    BY <1>6, Zenon DEF R!fail
  <2> HIDE DEF c
  <2> QED
    BY <2>1, <2>2, Zenon
<1>9. [S!SessionNext]_(S!sessionVars) /\ LogsPersist /\ log' = log
  BY <1>1, NoSessionCall, Zenon
<1>10. R!IInv' /\ S!SessionIInv' /\ RowsPersist
  BY <1>7, <1>9, StoresStep, Zenon
<1> DEFINE x == [wk[w] EXCEPT !.pc = "failing"]
<1>11. wk \in [Worker -> WorkerState] /\ wk[w] \in WorkerState
  BY Zenon DEF TInv, TypeOK
<1>12. /\ x \in WorkerState /\ x.pc = "failing" /\ x.run = r /\ x.token = t
       /\ x.lease = wk[w].lease /\ x.out = wk[w].out /\ x.lost = wk[w].lost
       /\ x.owed = wk[w].owed
  BY <1>3, <1>11, Zenon DEF WorkerState
<1>13. wk' = [wk EXCEPT ![w] = x]
  BY <1>1, <1>11, Zenon DEF Goto
<1> HIDE DEF x
<1>14. /\ wk' \in [Worker -> WorkerState] /\ wk'[w] = x
       /\ \A v \in Worker : v # w => wk'[v] = wk[v]
  BY <1>11, <1>12, <1>13, Zenon
<1>15. \A v \in Worker : v # w => Stays(v)
  BY <1>8, <1>14, Bystander, Zenon
<1>16. Continues(w) /\ Rests(w)
  BY <1>1, <1>2, <1>3, <1>8, <1>12, <1>14, Zenon DEF Continues, Rests, busy
<1>17. \A v \in Worker : Continues(v) /\ Rests(v)
  BY <1>15, <1>16, Zenon DEF Stays
<1>18. TypeOK'
  BY <1>1, <1>10, <1>14, StoreTypesNext, Zenon DEF TypeOK, TInv
<1>19. ClaimKnown' /\ ClaimsApart' /\ LostIsLost' /\ IdleClean' /\ ClaimsBounded'
  BY <1>9, <1>10, <1>17, KeptClaims, KeptLocks, KeptBounds, Zenon
<1>20. FailuresOwned'
  <2>1. ASSUME NEW v \in Worker, wk'[v].pc = "failing"
        PROVE  \E d \in failing' : d.id = wk'[v].run /\ d.token = wk'[v].token
    <3>1. CASE v = w
      BY <1>8, <1>12, <1>14, <3>1, Zenon
    <3>2. CASE v # w
      <4>1. \E d \in failing : d.id = wk[v].run /\ d.token = wk[v].token
        BY <1>14, <2>1, <3>2, Zenon DEF TInv, FailuresOwned
      <4> QED
        BY <1>8, <1>14, <3>2, <4>1, Zenon
    <3> QED
      BY <3>1, <3>2, Zenon
  <2>2. ASSUME NEW d \in failing'
        PROVE  \E v \in Worker :
                 wk'[v].pc = "failing" /\ wk'[v].run = d.id /\ wk'[v].token = d.token
    <3>1. CASE d = c
      BY <1>8, <1>12, <1>14, <3>1, Zenon
    <3>2. CASE d \in failing
      <4>1. PICK v \in Worker : wk[v].pc = "failing" /\ wk[v].run = d.id /\ wk[v].token = d.token
        BY <3>2, Zenon DEF TInv, FailuresOwned
      <4>2. v # w
        BY <1>1, <4>1, Zenon
      <4> QED
        BY <1>14, <4>1, <4>2, Zenon
    <3> QED
      BY <1>8, <3>1, <3>2, Zenon
  <2>3. ASSUME NEW d \in failing', NEW e \in failing', d.id = e.id, d.token = e.token
        PROVE  d = e
    <3>1. CASE d \in failing /\ e \in failing
      BY <2>3, <3>1, Zenon DEF TInv, FailuresOwned
    <3>2. CASE d = c \/ e = c
      BY <1>5, <1>8, <2>3, <3>2, Zenon
    <3> QED
      BY <1>8, <3>1, <3>2, Zenon
  <2> QED
    BY <2>1, <2>2, <2>3, Zenon DEF FailuresOwned
<1>21. ReplyWritten' /\ AnswerInTranscript'
  <2>1. \A v \in Worker : wk'[v].pc = "replied" \/ wk'[v].out = "answered" =>
          /\ wk[v].pc = "replied" \/ wk[v].out = "answered"
          /\ wk'[v].run = wk[v].run /\ wk'[v].token = wk[v].token
    BY <1>3, <1>12, <1>14, Zenon
  <2> QED
    BY <1>1, <1>9, <1>10, <2>1, KeptReplies, Zenon
<1>22. HasLast' /\ OwedIsMissing' /\ RetryDoesNotRepeat'
  <2>1. \A v \in Worker : wk'[v].owed => wk[v].owed /\ wk'[v].pc # "idle"
    BY <1>12, <1>14, <1>17, Zenon DEF Rests
  <2> QED
    BY <1>9, <1>10, <1>17, <2>1, KeptTranscript, Zenon
<1> QED
  BY <1>7, <1>9, <1>10, <1>18, <1>19, <1>20, <1>21, <1>22, Zenon DEF TInv, Sound

-----------------------------------------------------------------------------
(* Every step is a step of both stores, or none, and keeps the invariant.  *)
LEMMA NextSound ==
  ASSUME TInv, StoresKept, [Next]_vars
  PROVE  Sound
<1>1. CASE UNCHANGED vars
  <2>1. /\ UNCHANGED runVars /\ UNCHANGED sessionVars /\ wk' = wk /\ answer' = answer
        /\ faults' = faults
    BY <1>1, Zenon DEF vars, runVars, sessionVars
  <2> QED
    BY <2>1, NoRunCall, NoSessionCall, FaultType, NobodyMoves, Zenon
<1>2. ASSUME NEW w \in Worker, claim(w) \/ workerStep(w) PROVE Sound
  <2>1. CASE turnStep(w)
    BY <2>1, QuietTurnStep, AcquireStep, ReadHistoryStep, EmitPromptStep, EmitReplyStep,
       RecordFailureStep, UnwindStep, Zenon DEF turnStep
  <2>2. CASE claim(w) \/ claimed(w) \/ handBack(w)
    BY <2>2, ClaimStep, ClaimedStep, HandBackStep, Zenon
  <2>3. CASE reportResult(w) \/ reportError(w) \/ retire(w)
    BY <2>3, ReportResultStep, ReportErrorStep, RetireStep, Zenon
  <2> QED
    BY <1>2, <2>1, <2>2, <2>3, Zenon DEF workerStep
<1>3. ASSUME NEW w \in Worker, drainStep(w) \/ beat(w) \/ stop(w) \/ releaseFails(w) \/ crash(w)
      PROVE  Sound
  BY <1>3, DrainStep, ReleaseRunStep, ExitStep, BeatStep, Zenon DEF drainStep
<1>4. ASSUME NEW r \in RunId, NEW s \in Session, submit(r, s) PROVE Sound
  BY <1>4, SubmitStep, Zenon
<1>5. ASSUME NEW z \in Sweeper, sweepStep(z) \/ sweepFails(z) PROVE Sound
  BY <1>5, SweepStep, Zenon
<1>6. ASSUME NEW r \in RunId, settle(r) PROVE Sound
  BY <1>6, SettleStep, Zenon
<1>7. CASE Tick
  BY <1>7, TickStep, Zenon
<1> QED
  BY <1>1, <1>2, <1>3, <1>4, <1>5, <1>6, <1>7, Zenon DEF Next

(* The rest of the invariant holds when the stores are empty and the       *)
(* workers idle.                                                           *)
LEMMA InitTInv ==
  ASSUME Init, R!IInv, S!SessionIInv
  PROVE  TInv
<1>1. /\ wk = [w \in Worker |-> Idle] /\ answer = [r \in RunId |-> "none"] /\ faults = 0
      /\ R!Init /\ S!SessionInit
  BY Zenon DEF Init
<1>2. R!TypeOK /\ S!SessionTypeOK
  BY StoreTypes, Zenon
<1>4. /\ Idle \in WorkerState /\ Idle.pc = "idle" /\ Idle.out = "none" /\ Idle.lost = 0
      /\ Idle.lease = 0 /\ Idle.owed = FALSE /\ Idle.release = "no"
  BY TurnAssumption DEF Idle, WorkerState
<1>5. wk \in [Worker -> WorkerState] /\ \A w \in Worker : wk[w] = Idle
  BY <1>1, <1>4, Zenon
<1>6. TypeOK
  BY <1>1, <1>2, <1>5, TurnAssumption DEF TypeOK
<1>7. \A w \in Worker : ~busy(w) /\ claiming[w] = None
  BY <1>1, <1>4, <1>5, Zenon DEF busy, R!Init
<1>8. ClaimKnown /\ ClaimsApart /\ IdleClean /\ LostIsLost
  BY <1>4, <1>5, <1>7, Zenon DEF ClaimKnown, ClaimsApart, IdleClean, LostIsLost
<1>9. \A r \in RunId : runs[r].attempts = 0 /\ answer[r] = "none"
  BY <1>1, Zenon DEF R!Init, R!NoRow
<1>10. ClaimsBounded
  <2>1. 0 <= ClaimBound
    BY StoreAssumption
  <2>2. \A r \in RunId : runs[r].attempts = 0
    BY <1>9, Zenon
  <2> QED
    BY <2>1, <2>2, Zenon DEF ClaimsBounded
<1>11. FailuresOwned
  BY <1>1, <1>4, <1>5, Zenon DEF FailuresOwned, R!Init
<1>12. ReplyWritten /\ AnswerInTranscript
  BY <1>4, <1>5, <1>9, Zenon DEF ReplyWritten, AnswerInTranscript
<1>13. \A s \in Session : Len(log[s]) = 0
  BY <1>1, Zenon DEF S!SessionInit
<1>14. HasLast /\ RetryDoesNotRepeat
  BY <1>13 DEF HasLast, RetryDoesNotRepeat
<1>15. OwedIsMissing
  BY <1>4, <1>5, Zenon DEF OwedIsMissing
<1> QED
  BY <1>6, <1>8, <1>10, <1>11, <1>12, <1>14, <1>15, Zenon DEF TInv

-----------------------------------------------------------------------------
(* The theorems about the two stores, under the composition's constants.   *)
SP == INSTANCE StoreProofs WITH DedupKey <- {}, SessionId <- Session, Record <- Entry

(* The constants satisfy what the stores assume of theirs.                 *)
LEMMA RunAssumptions ==
  /\ SP!BudgetAssumption /\ SP!TimeAssumption /\ SP!KeyAssumption
  /\ SP!SessionAssumption /\ SP!NoneAssumption
  BY StoreAssumption, Zenon DEF SP!BudgetAssumption, SP!TimeAssumption, SP!KeyAssumption,
                    SP!SessionAssumption, SP!NoneAssumption

(* The same of the session store.                                          *)
LEMMA SessionAssumptions == SP!SessionBounds
  BY StoreAssumption, Zenon DEF SP!SessionBounds

(* The two instances of a store are one: its operations and its next-state *)
(* relation.                                                               *)
LEMMA SameRunStore == R!Next => SP!Next
  BY Zenon DEF R!Next, SP!Next, R!enqueue, SP!enqueue, R!Claimable, SP!Claimable,
     R!sessionHasRunning, SP!sessionHasRunning, R!claim, SP!claim, R!claimById, SP!claimById,
     R!lease, SP!lease, R!leaseClaimed, SP!leaseClaimed, R!abortClaim, SP!abortClaim,
     R!Holds, SP!Holds, R!heartbeat, SP!heartbeat, R!releaseLease, SP!releaseLease,
     R!Unleased, SP!Unleased, R!complete, SP!complete, R!rowCopy, SP!rowCopy,
     R!Requeues, SP!Requeues, R!StillLeased, SP!StillLeased, R!retire, SP!retire,
     R!fail, SP!fail, R!failRetire, SP!failRetire, R!dieBeforeRetire, SP!dieBeforeRetire,
     R!leaseLapsed, SP!leaseLapsed, R!reapExpired, SP!reapExpired, R!NoSweep, SP!NoSweep,
     R!reapRetire, SP!reapRetire, R!onRetired, SP!onRetired, R!reapDone, SP!reapDone,
     R!abortSweep, SP!abortSweep, R!settle, SP!settle, R!dieBeforeSettle, SP!dieBeforeSettle,
     R!Aged, SP!Aged, R!isTerminal, SP!isTerminal, R!Tick, SP!Tick, R!TokenCall, SP!TokenCall

(* And those of the session store.                                         *)
LEMMA SameSessionStore == S!SessionNext => SP!SessionNext
  BY Zenon DEF S!SessionNext, SP!SessionNext, S!Acquirable, SP!Acquirable, S!acquireLease, SP!acquireLease,
     S!releaseSessionLease, SP!releaseSessionLease, S!NoLease, SP!NoLease, S!forceReleaseLease,
     SP!forceReleaseLease, S!HoldsLease, SP!HoldsLease, S!append, SP!append,
     S!deleteSession, SP!deleteSession, S!SessionTick, SP!SessionTick

(* So are their invariants.                                                *)
LEMMA SameInvariants == (R!IInv <=> SP!IInv) /\ (S!SessionIInv <=> SP!SessionIInv)
<1>1. R!IInv <=> SP!IInv
  BY Zenon DEF R!IInv, SP!IInv, R!TypeOK, SP!TypeOK, R!Run, SP!Run, R!RowCopy, SP!RowCopy, R!Sweep, SP!Sweep,
     R!RowsOK, SP!RowsOK, R!OneRunningPerSession, SP!OneRunningPerSession,
     R!LeaseIffRunning, SP!LeaseIffRunning, R!ResultOfLastClaim, SP!ResultOfLastClaim,
     R!ErrorBudgetRespected, SP!ErrorBudgetRespected, R!ClaimsInv, SP!ClaimsInv,
     R!SettledOnce, SP!SettledOnce, R!isTerminal, SP!isTerminal,
     R!CopiesOK, SP!CopiesOK, R!CopyOK, SP!CopyOK, R!LocksOK, SP!LocksOK
<1>2. S!SessionIInv <=> SP!SessionIInv
  BY Zenon DEF S!SessionIInv, SP!SessionIInv, S!SessionTypeOK, SP!SessionTypeOK, S!Lease, SP!Lease, S!Write, SP!Write,
     S!Fenced, SP!Fenced, S!WritersInTurn, SP!WritersInTurn
<1> QED
  BY <1>1, <1>2, Zenon

(* The same after a step.                                                  *)
LEMMA SameInvariantsNext == (R!IInv <=> SP!IInv)' /\ (S!SessionIInv <=> SP!SessionIInv)'
  BY SameInvariants, PTL

(* The stores' proofs apply to the composition.                            *)
LEMMA StoresSound == TInv => StoresKept
<1> SUFFICES ASSUME TInv PROVE StoresKept
  BY Zenon
<1>1. SP!IInv /\ SP!SessionIInv
  BY SameInvariants, Zenon DEF TInv
<1>2. ASSUME [R!Next]_(R!vars) PROVE R!IInv' /\ RowsPersist
  <2>1. [SP!Next]_(SP!vars)
    BY <1>2, SameRunStore, Zenon DEF R!vars, SP!vars
  <2>2. SP!IInv'
    BY <1>1, <2>1, SP!NextIInv, RunAssumptions, SessionAssumptions
  <2>3. \A r \in RunId : SP!RowPersists(r)
    BY <1>1, <2>1, <2>2, SP!NextPersists, RunAssumptions, SessionAssumptions
  <2>4. RowsPersist
    BY <2>3, Zenon DEF RowsPersist, R!RowPersists, SP!RowPersists, R!Holds, SP!Holds,
       R!isTerminal, SP!isTerminal
  <2> QED
    BY <2>2, <2>4, SameInvariantsNext, Zenon
<1>3. ASSUME [S!SessionNext]_(S!sessionVars) PROVE S!SessionIInv'
  <2>1. [SP!SessionNext]_(SP!sessionVars)
    BY <1>3, SameSessionStore, Zenon DEF S!sessionVars, SP!sessionVars
  <2>2. SP!SessionIInv'
    BY <1>1, <2>1, SP!SessionNextIInv, RunAssumptions, SessionAssumptions
  <2> QED
    BY <2>2, SameInvariantsNext, Zenon
<1> QED
  BY <1>2, <1>3, Zenon DEF StoresKept

(* The stores start empty and the workers idle.                            *)
LEMMA InitSound == Init => TInv /\ R!Init /\ S!SessionInit
<1> SUFFICES ASSUME Init PROVE TInv
  BY Zenon DEF Init
<1>1. SP!Init /\ SP!SessionInit
  BY Zenon DEF Init, R!Init, SP!Init, R!NoRow, SP!NoRow, R!NoSweep, SP!NoSweep,
     S!SessionInit, SP!SessionInit, S!NoLease, SP!NoLease
<1>2. SP!IInv /\ SP!SessionIInv
  BY <1>1, SP!InitIInv, RunAssumptions, SP!SessionInitIInv, SessionAssumptions, Zenon
<1> QED
  BY <1>2, SameInvariants, InitTInv, Zenon

(* Every step of the composition is one of each store, or none.            *)
LEMMA StepSound == TInv /\ [Next]_vars => Sound
  BY StoresSound, NextSound, Zenon

-----------------------------------------------------------------------------
(* The invariant holds in every reachable state.                           *)
THEOREM TurnInvariance == Spec => []TInv
<1>1. TInv /\ [Next]_vars => TInv'
  BY StepSound, Zenon DEF Sound
<1> QED
  BY <1>1, InitSound, PTL DEF Spec

(* Every variable of the composition keeps its type.                       *)
THEOREM TurnTypeCorrect == Spec => []TypeOK
<1>1. TInv => TypeOK
  BY Zenon DEF TInv
<1> QED
  BY <1>1, TurnInvariance, PTL

(* The beats cancel only a turn whose claim is lost for good: no run is    *)
(* left without the result of a turn that still had its lease.             *)
THEOREM CancelsOnlyLost == Spec => []CancelledLostLease
<1>1. TInv => CancelledLostLease
  <2> SUFFICES ASSUME TInv, NEW w \in Worker, inFlight(w), cancelled(w)
               PROVE  ~R!Holds(wk[w].run, wk[w].token)
    BY Zenon DEF CancelledLostLease
  <2>1. wk[w].pc # "idle" /\ wk[w].lost > 0
    BY TurnAssumption DEF inFlight, cancelled, TInv, TypeOK, WorkerState
  <2> QED
    BY <2>1, Zenon DEF TInv, LostIsLost
<1> QED
  BY <1>1, TurnInvariance, PTL

(* A run is stored as answered only with its reply in the transcript,      *)
(* written under the claim whose result was stored.                        *)
THEOREM AnswersWritten == Spec => []AnswerInTranscript
<1>1. TInv => AnswerInTranscript
  BY Zenon DEF TInv
<1> QED
  BY <1>1, TurnInvariance, PTL

(* No retry, whoever makes it, repeats a request that has a text in the    *)
(* transcript unless somebody answered or asked something else in between. *)
THEOREM RetriesResume == Spec => []RetryDoesNotRepeat
<1>1. TInv => RetryDoesNotRepeat
  BY Zenon DEF TInv
<1> QED
  BY <1>1, TurnInvariance, PTL

(* The workers, the drain and the reaper use the run store as it allows:   *)
(* every step of the system is a step of the store, or leaves it alone.    *)
THEOREM RefinesRunStore == Spec => ImplementsRunStore
<1>1. TInv /\ [Next]_vars => [R!Next]_(R!vars)
  BY StepSound, Zenon DEF Sound
<1> QED
  BY <1>1, InitSound, TurnInvariance, PTL DEF Spec, ImplementsRunStore, R!Spec

(* The same of the session store.                                          *)
THEOREM RefinesSessionStore == Spec => ImplementsSessionStore
<1>1. TInv /\ [Next]_vars => [S!SessionNext]_(S!sessionVars)
  BY StepSound, Zenon DEF Sound
<1> QED
  BY <1>1, InitSound, TurnInvariance, PTL DEF Spec, ImplementsSessionStore, S!SessionSpec
=============================================================================
