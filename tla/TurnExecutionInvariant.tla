----------------------- MODULE TurnExecutionInvariant -----------------------
(***************************************************************************)
(* The inductive invariant of TurnExecution, for any sets of runs,         *)
(* sessions, workers and sweepers and any bounds, and what a step has to   *)
(* do to keep each of its parts.  Then the actions, each of which is a     *)
(* step of both stores, or none, and keeps the invariant: those that       *)
(* change little of what it relates, those that write to the transcript or *)
(* give a run back, and those in which a worker claims a run or a session, *)
(* reads the history it will continue, or keeps its claim.  The others are *)
(* in TurnExecutionProofs.                                                 *)
(***************************************************************************)
EXTENDS TurnExecution, TLAPS

(* A worker that processes a run, or still releases the one it processed.  *)
busy(w) == wk[w].pc # "idle" \/ wk[w].release # "no"

(* A busy worker knows its run by a token that was issued for it, and any  *)
(* session lease it took is one that was issued for the run's session.     *)
ClaimKnown ==
  \A w \in Worker : busy(w) =>
    /\ wk[w].run \in RunId /\ runs[wk[w].run].status # "absent"
    /\ wk[w].token \in 1..runs[wk[w].run].attempts
    /\ wk[w].lease <= issued[thread(w)]

(* No two workers have the same claim, or the same session lease.          *)
ClaimsApart ==
  \A v, w \in Worker : v # w /\ busy(v) /\ busy(w) =>
    /\ wk[v].run = wk[w].run => wk[v].token # wk[w].token
    /\ thread(v) = thread(w) /\ wk[v].lease # 0 => wk[v].lease # wk[w].lease

(* Nothing of a turn is left in an idle worker, and nothing is owed before *)
(* the transcript is read; only an idle worker claims, and only within the *)
(* bound.                                                                  *)
IdleClean ==
  \A w \in Worker :
    /\ wk[w].pc = "idle" => wk[w].out = "none" /\ wk[w].lost = 0 /\ wk[w].lease = 0
    /\ wk[w].pc \in {"idle", "turn"} => ~wk[w].owed
    /\ claiming[w] # None => wk[w].pc = "idle" /\ runs[claiming[w]].attempts < ClaimBound

ClaimsBounded == \A r \in RunId : runs[r].attempts <= ClaimBound

(* The calls of fail() under way are those of the workers that report an   *)
(* error, one each.                                                        *)
FailuresOwned ==
  /\ \A w \in Worker : wk[w].pc = "failing" =>
       \E c \in failing : c.id = wk[w].run /\ c.token = wk[w].token
  /\ \A c \in failing : \E w \in Worker :
       wk[w].pc = "failing" /\ wk[w].run = c.id /\ wk[w].token = c.token
  /\ \A c, d \in failing : c.id = d.id /\ c.token = d.token => c = d

(* A beat is counted as lost only if the lease is, and that for good.      *)
LostIsLost ==
  \A w \in Worker : wk[w].pc # "idle" /\ wk[w].lost > 0 => ~R!Holds(wk[w].run, wk[w].token)

(* Did claim t of run r write its reply?                                   *)
Replied(r, t) ==
  \E i \in 1..Len(log[runs[r].sessionId]) :
    log[runs[r].sessionId][i].record = [type |-> "assistant", run |-> r, claim |-> t]

(* A turn that is going to report an answer has written it.                *)
ReplyWritten ==
  /\ \A w \in Worker :
       wk[w].pc = "replied" \/ wk[w].out = "answered" => Replied(wk[w].run, wk[w].token)
  /\ \A r \in RunId : answer[r] # "none" => R!isTerminal(runs[r])

(* The entries that decide how a retry continues, and the last of them.    *)
Decides(s, i) == log[s][i].record.type \in {"user", "assistant"}

HasLast ==
  \A s \in Session : \A i \in 1..Len(log[s]) : Decides(s, i) =>
    \E l \in i..Len(log[s]) :
      Decides(s, l) /\ \A j \in l + 1..Len(log[s]) : ~Decides(s, j)

(* As long as a retry that owes its request has the session lease, the     *)
(* transcript does not end with that request.                              *)
OwedIsMissing ==
  \A w \in Worker :
    wk[w].owed /\ holdsSession(w) /\ wk[w].token > 1 =>
      ~findTrailingPartialTurn(thread(w), wk[w].run)

TInv ==
  /\ TypeOK /\ R!IInv /\ S!SessionIInv
  /\ ClaimKnown /\ ClaimsApart /\ IdleClean /\ ClaimsBounded /\ FailuresOwned
  /\ LostIsLost /\ ReplyWritten /\ AnswerInTranscript
  /\ HasLast /\ OwedIsMissing /\ RetryDoesNotRepeat

-----------------------------------------------------------------------------
(* What a step leaves in place of the runs ...                             *)
RowsPersist == \A r \in RunId : R!RowPersists(r)

(* ... and of the sessions: the logs only grow, and a lease row changes    *)
(* hands only to a token that is new.                                      *)
LogsPersist ==
  \A s \in Session :
    /\ issued'[s] >= issued[s]
    /\ leases'[s].token \in {0, leases[s].token} \/ leases'[s].token > issued[s]
    /\ Len(log'[s]) >= Len(log[s])
    /\ \A i \in 1..Len(log[s]) : log'[s][i] = log[s][i]

(* What most steps do to a worker: it stays with its claim or lets it go.  *)
Continues(v) ==
  /\ busy(v)' => /\ busy(v) /\ wk'[v].run = wk[v].run /\ wk'[v].token = wk[v].token
                 /\ wk'[v].lease \in {0, wk[v].lease}
  /\ wk'[v].pc # "idle" => wk[v].pc # "idle"
  /\ wk'[v].pc # "idle" /\ wk'[v].lost > 0 =>
       wk[v].lost > 0 \/ ~R!Holds(wk[v].run, wk[v].token)

(* The types of what a busy worker knows of its run and its session.       *)
LEMMA KnownFields ==
  ASSUME TInv, NEW v \in Worker, busy(v)
  PROVE  /\ wk[v].run \in RunId /\ thread(v) \in Session
         /\ runs[wk[v].run].attempts \in Nat /\ runs[wk[v].run].status # "absent"
         /\ wk[v].token \in 1..runs[wk[v].run].attempts /\ wk[v].token \in Nat
         /\ wk[v].lease \in Nat /\ wk[v].lease <= issued[thread(v)]
         /\ issued[thread(v)] \in Nat /\ leases[thread(v)].token \in Nat
         /\ leases[thread(v)].token <= issued[thread(v)]
<1>1. /\ wk[v].run \in RunId /\ runs[wk[v].run].status # "absent"
      /\ wk[v].token \in 1..runs[wk[v].run].attempts
      /\ wk[v].lease <= issued[thread(v)]
  BY Zenon DEF TInv, ClaimKnown
<1>2. runs[wk[v].run].attempts \in Nat /\ thread(v) \in Session
  BY <1>1, Zenon DEF TInv, thread, R!IInv, R!TypeOK, R!Run
<1>3. wk[v].lease \in Nat
  BY Zenon DEF TInv, TypeOK, WorkerState
<1>4. /\ issued[thread(v)] \in Nat /\ leases[thread(v)].token \in Nat
      /\ leases[thread(v)].token <= issued[thread(v)]
  BY <1>2, Zenon DEF TInv, S!SessionIInv, S!SessionTypeOK, S!Fenced, S!Lease
<1> QED
  BY <1>1, <1>2, <1>3, <1>4

(* A claim that is kept is still known after the step.                     *)
LEMMA KeptClaim ==
  ASSUME TInv, RowsPersist, LogsPersist, R!IInv', S!SessionIInv',
         NEW v \in Worker, Continues(v), busy(v)'
  PROVE  /\ busy(v) /\ wk'[v].run = wk[v].run /\ wk'[v].token = wk[v].token
         /\ thread(v)' = thread(v) /\ runs'[wk[v].run].status # "absent"
         /\ wk[v].token \in 1..runs'[wk[v].run].attempts
         /\ wk'[v].lease \in {0, wk[v].lease} /\ wk'[v].lease <= issued'[thread(v)]
         /\ issued'[thread(v)] \in Nat
<1>1. /\ busy(v) /\ wk'[v].run = wk[v].run /\ wk'[v].token = wk[v].token
      /\ wk'[v].lease \in {0, wk[v].lease}
  BY Zenon DEF Continues
<1>2. /\ wk[v].run \in RunId /\ runs[wk[v].run].status # "absent" /\ thread(v) \in Session
      /\ runs[wk[v].run].attempts \in Nat
      /\ wk[v].token \in 1..runs[wk[v].run].attempts
      /\ wk[v].lease \in Nat /\ wk[v].lease <= issued[thread(v)] /\ issued[thread(v)] \in Nat
  BY <1>1, KnownFields, Zenon
<1>3. R!RowPersists(wk[v].run)
  BY <1>2, Zenon DEF RowsPersist
<1>4. /\ runs'[wk[v].run].status # "absent"
      /\ runs'[wk[v].run].sessionId = runs[wk[v].run].sessionId
      /\ \/ runs'[wk[v].run].attempts = runs[wk[v].run].attempts
         \/ runs'[wk[v].run].attempts = runs[wk[v].run].attempts + 1
  BY <1>2, <1>3, Zenon DEF R!RowPersists
<1>5. thread(v)' = thread(v)
  BY <1>1, <1>4, Zenon DEF thread
<1>6. issued'[thread(v)] \in Nat /\ issued'[thread(v)] >= issued[thread(v)]
  BY <1>2, Zenon DEF LogsPersist, S!SessionIInv, S!SessionTypeOK
<1>7. wk[v].token \in 1..runs'[wk[v].run].attempts
  BY <1>2, <1>4
<1>8. wk'[v].lease <= issued'[thread(v)]
  BY <1>1, <1>2, <1>6
<1> QED
  BY <1>1, <1>4, <1>5, <1>6, <1>7, <1>8, Zenon

(* Claims that are kept stay known and apart, and a lost lease stays lost. *)
LEMMA KeptClaims ==
  ASSUME TInv, RowsPersist, LogsPersist, R!IInv', S!SessionIInv', \A v \in Worker : Continues(v)
  PROVE  ClaimKnown' /\ ClaimsApart' /\ LostIsLost'
<1>1. ClaimKnown'
  <2> SUFFICES ASSUME NEW w \in Worker, busy(w)'
               PROVE  /\ wk'[w].run \in RunId /\ runs'[wk'[w].run].status # "absent"
                      /\ wk'[w].token \in 1..runs'[wk'[w].run].attempts
                      /\ wk'[w].lease <= issued'[thread(w)']
    BY Zenon DEF ClaimKnown
  <2> QED
    BY KeptClaim, KnownFields, Zenon
<1>2. ClaimsApart'
  <2> SUFFICES ASSUME NEW v \in Worker, NEW w \in Worker, v # w, busy(v)', busy(w)'
               PROVE  /\ wk'[v].run = wk'[w].run => wk'[v].token # wk'[w].token
                      /\ thread(v)' = thread(w)' /\ wk'[v].lease # 0 =>
                           wk'[v].lease # wk'[w].lease
    BY Zenon DEF ClaimsApart
  <2>1. /\ busy(v) /\ wk'[v].run = wk[v].run /\ wk'[v].token = wk[v].token
        /\ thread(v)' = thread(v) /\ wk'[v].lease \in {0, wk[v].lease}
    BY KeptClaim, Zenon
  <2>2. /\ busy(w) /\ wk'[w].run = wk[w].run /\ wk'[w].token = wk[w].token
        /\ thread(w)' = thread(w) /\ wk'[w].lease \in {0, wk[w].lease}
    BY KeptClaim, Zenon
  <2>3. /\ wk[v].run = wk[w].run => wk[v].token # wk[w].token
        /\ thread(v) = thread(w) /\ wk[v].lease # 0 => wk[v].lease # wk[w].lease
    BY <2>1, <2>2, Zenon DEF TInv, ClaimsApart
  <2> QED
    BY <2>1, <2>2, <2>3, Zenon
<1>3. LostIsLost'
  <2> SUFFICES ASSUME NEW w \in Worker, wk'[w].pc # "idle", wk'[w].lost > 0
               PROVE  ~R!Holds(wk[w].run, wk[w].token)'
    BY Zenon DEF LostIsLost
  <2>1. busy(w)'
    BY Zenon DEF busy
  <2>2. busy(w) /\ wk'[w].run = wk[w].run /\ wk'[w].token = wk[w].token
    BY <2>1, KeptClaim, Zenon
  <2>3. ~R!Holds(wk[w].run, wk[w].token)
    BY Zenon DEF Continues, TInv, LostIsLost
  <2>4. wk[w].run \in RunId /\ wk[w].token \in 1..runs[wk[w].run].attempts
    BY <2>2, KnownFields, Zenon
  <2>5. R!RowPersists(wk[w].run)
    BY <2>4, Zenon DEF RowsPersist
  <2> QED
    BY <2>2, <2>3, <2>4, <2>5, Zenon DEF R!RowPersists, R!Holds
<1> QED
  BY <1>1, <1>2, <1>3, Zenon

(* A worker that has nothing to do has nothing left of a turn, and only    *)
(* such a worker has a claim statement under way.                          *)
Rests(v) ==
  /\ wk'[v].pc = "idle" => wk'[v].out = "none" /\ wk'[v].lost = 0 /\ wk'[v].lease = 0
  /\ wk'[v].pc \in {"idle", "turn"} => ~wk'[v].owed
  /\ claiming'[v] # None => wk'[v].pc = "idle" /\ claiming'[v] = claiming[v]

(* Claims stay within the bound: a row is locked below it and locked once. *)
LEMMA KeptBounds ==
  ASSUME TInv, RowsPersist
  PROVE  ClaimsBounded'
<1> SUFFICES ASSUME NEW r \in RunId PROVE runs'[r].attempts <= ClaimBound
  BY Zenon DEF ClaimsBounded
<1>1. /\ runs[r].attempts \in Nat /\ runs[r].attempts <= ClaimBound
      /\ \/ runs'[r].attempts = runs[r].attempts
         \/ /\ runs'[r].attempts = runs[r].attempts + 1
            /\ \E w \in Worker : claiming[w] = r
  BY Zenon DEF RowsPersist, R!RowPersists, TInv, ClaimsBounded, R!IInv, R!TypeOK, R!Run
<1>2. \A w \in Worker : claiming[w] = r => runs[r].attempts < ClaimBound
  BY StoreAssumption, Zenon DEF TInv, IdleClean
<1> QED
  BY <1>1, <1>2, StoreAssumption

(* A locked row stays as it is.                                            *)
LEMMA KeptLocks ==
  ASSUME TInv, RowsPersist, R!IInv', \A v \in Worker : Rests(v)
  PROVE  IdleClean'
<1> SUFFICES ASSUME NEW w \in Worker, claiming'[w] # None
             PROVE  runs'[claiming'[w]].attempts < ClaimBound
  BY Zenon DEF IdleClean, Rests
<1> DEFINE r == claiming[w]
<1>1. claiming'[w] = r /\ runs'[r].status = "pending"
  BY Zenon DEF Rests, R!IInv, R!LocksOK
<1>2. r \in RunId /\ runs[r].attempts < ClaimBound
  BY <1>1, Zenon DEF TInv, IdleClean, R!IInv, R!TypeOK
<1>3. runs'[r].attempts = runs[r].attempts
  BY <1>1, <1>2, Zenon DEF RowsPersist, R!RowPersists
<1> QED
  BY <1>1, <1>2, <1>3, Zenon

(* A step that neither begins nor ends a call of fail().                   *)
LEMMA KeptFailures ==
  ASSUME TInv, failing' = failing,
         \A v \in Worker : /\ wk'[v].pc = "failing" <=> wk[v].pc = "failing"
                           /\ wk[v].pc = "failing" => /\ wk'[v].run = wk[v].run
                                                      /\ wk'[v].token = wk[v].token
  PROVE  FailuresOwned'
  BY DEF TInv, FailuresOwned

(* A reply that was written stays in the transcript of its run.            *)
LEMMA KeptReply ==
  ASSUME TInv, RowsPersist, LogsPersist, S!SessionIInv', NEW r \in RunId, NEW t,
         runs[r].status # "absent", Replied(r, t)
  PROVE  Replied(r, t)'
<1> DEFINE s == runs[r].sessionId
<1>1. s \in Session /\ runs'[r].sessionId = s
  BY Zenon DEF TInv, RowsPersist, R!RowPersists, R!IInv, R!TypeOK, R!Run
<1>2. PICK i \in 1..Len(log[s]) : log[s][i].record = [type |-> "assistant", run |-> r, claim |-> t]
  BY Zenon DEF Replied
<1>3. /\ Len(log[s]) \in Nat /\ Len(log'[s]) \in Nat /\ Len(log'[s]) >= Len(log[s])
      /\ log'[s][i] = log[s][i]
  BY <1>1 DEF LogsPersist, TInv, S!SessionIInv, S!SessionTypeOK
<1>4. i \in 1..Len(log'[s])
  BY <1>3
<1> QED
  BY <1>1, <1>2, <1>3, <1>4, Zenon DEF Replied

(* A turn that was going to report an answer still has it written.         *)
LEMMA KeptTurnReply ==
  ASSUME TInv, RowsPersist, LogsPersist, S!SessionIInv', NEW v \in Worker,
         wk[v].pc = "replied" \/ wk[v].out = "answered",
         wk'[v].run = wk[v].run, wk'[v].token = wk[v].token
  PROVE  Replied(wk[v].run, wk[v].token)'
<1>1. busy(v)
  BY Zenon DEF TInv, IdleClean, busy
<1>2. PICK r \in RunId, t \in Nat : r = wk[v].run /\ t = wk[v].token
  BY <1>1, KnownFields, Zenon
<1>3. runs[r].status # "absent" /\ Replied(r, t)
  BY <1>1, <1>2, KnownFields, Zenon DEF TInv, ReplyWritten
<1>4. Replied(r, t)'
  BY <1>3, KeptReply, Zenon
<1> QED
  BY <1>2, <1>4, Zenon DEF Replied

(* A run that has its answer keeps it, and the reply in the transcript.    *)
LEMMA KeptAnswer ==
  ASSUME TInv, RowsPersist, LogsPersist, S!SessionIInv', NEW r \in RunId, answer[r] # "none"
  PROVE  /\ R!isTerminal(runs'[r])
         /\ answer[r] = "answered" => Replied(r, runs[r].resultOf)'
<1>1. R!isTerminal(runs[r]) /\ R!isTerminal(runs'[r]) /\ runs'[r] = runs[r]
  BY Zenon DEF TInv, ReplyWritten, RowsPersist, R!RowPersists, R!isTerminal
<1>2. ASSUME answer[r] = "answered" PROVE Replied(r, runs[r].resultOf)'
  <2>1. PICK t : t = runs[r].resultOf
    BY Zenon
  <2>2. Replied(r, t) /\ runs[r].status # "absent"
    BY <1>1, <1>2, <2>1, Zenon DEF TInv, AnswerInTranscript, Replied, R!isTerminal
  <2>3. Replied(r, t)'
    BY <2>2, KeptReply, Zenon
  <2> QED
    BY <1>1, <2>1, <2>3, Zenon DEF Replied
<1> QED
  BY <1>1, <1>2, Zenon

(* A step that stores no result and ends no turn with an answer.           *)
LEMMA KeptReplies ==
  ASSUME TInv, RowsPersist, LogsPersist, S!SessionIInv', answer' = answer,
         \A v \in Worker : wk'[v].pc = "replied" \/ wk'[v].out = "answered" =>
           \/ Replied(wk[v].run, wk[v].token)'
           \/ /\ wk[v].pc = "replied" \/ wk[v].out = "answered"
              /\ wk'[v].run = wk[v].run /\ wk'[v].token = wk[v].token
  PROVE  ReplyWritten' /\ AnswerInTranscript'
<1>1. ASSUME NEW v \in Worker, wk'[v].pc = "replied" \/ wk'[v].out = "answered"
      PROVE  Replied(wk[v].run, wk[v].token)'
  BY <1>1, KeptTurnReply, Zenon
<1>2. ReplyWritten'
  BY <1>1, KeptAnswer, Zenon DEF ReplyWritten
<1>3. AnswerInTranscript'
  BY KeptAnswer, Zenon DEF AnswerInTranscript, Replied
<1> QED
  BY <1>2, <1>3, Zenon

(* A session lease that is held after a step was held before it.           *)
LEMMA HeldBefore ==
  ASSUME TInv, RowsPersist, LogsPersist, R!IInv', S!SessionIInv',
         NEW v \in Worker, Continues(v), busy(v)', holdsSession(v)'
  PROVE  holdsSession(v) /\ wk'[v].lease = wk[v].lease
<1>1. busy(v) /\ thread(v)' = thread(v) /\ wk'[v].lease \in {0, wk[v].lease}
  BY KeptClaim, Zenon
<1>2. /\ wk[v].lease \in Nat /\ wk[v].lease <= issued[thread(v)] /\ issued[thread(v)] \in Nat
      /\ thread(v) \in Session
  BY <1>1, KnownFields, Zenon
<1>3. wk'[v].lease # 0 /\ leases'[thread(v)].token = wk'[v].lease
  BY <1>1, Zenon DEF holdsSession, S!HoldsLease
<1>4. \/ leases'[thread(v)].token \in {0, leases[thread(v)].token}
      \/ leases'[thread(v)].token > issued[thread(v)]
  BY <1>2, Zenon DEF LogsPersist
<1> QED
  BY <1>1, <1>2, <1>3, <1>4 DEF holdsSession, S!HoldsLease

(* What is said of the logs alone holds as long as they do not change.     *)
LEMMA SameTranscript ==
  ASSUME log' = log, HasLast, RetryDoesNotRepeat
  PROVE  HasLast' /\ RetryDoesNotRepeat'
<1>1. HasLast'
  BY ZenonT(30) DEF HasLast, Decides
<1>2. RetryDoesNotRepeat'
  BY DEF RetryDoesNotRepeat
<1> QED
  BY <1>1, <1>2, Zenon

(* A request that was owed before a step that writes no entry is still     *)
(* missing after it.                                                       *)
LEMMA KeptOwed ==
  ASSUME TInv, RowsPersist, LogsPersist, R!IInv', S!SessionIInv', log' = log,
         NEW w \in Worker, Continues(w), wk[w].owed, wk'[w].pc # "idle",
         holdsSession(w)', wk'[w].token > 1
  PROVE  ~findTrailingPartialTurn(thread(w), wk[w].run)'
<1>1. busy(w)'
  BY Zenon DEF busy
<1>2. /\ busy(w) /\ wk'[w].run = wk[w].run /\ wk'[w].token = wk[w].token
      /\ thread(w)' = thread(w) /\ wk'[w].lease \in {0, wk[w].lease}
  BY <1>1, KeptClaim, Zenon
<1>3. holdsSession(w)
  BY <1>1, HeldBefore, Zenon
<1>4. ~findTrailingPartialTurn(thread(w), wk[w].run)
  BY <1>2, <1>3, Zenon DEF TInv, OwedIsMissing
<1> QED
  BY <1>2, <1>4 DEF findTrailingPartialTurn

(* A step that writes no entry and owes none.                              *)
LEMMA KeptTranscript ==
  ASSUME TInv, RowsPersist, LogsPersist, R!IInv', S!SessionIInv', log' = log,
         \A v \in Worker : wk'[v].owed => Continues(v) /\ wk[v].owed /\ wk'[v].pc # "idle"
  PROVE  HasLast' /\ OwedIsMissing' /\ RetryDoesNotRepeat'
<1>1. HasLast' /\ RetryDoesNotRepeat'
  BY SameTranscript, Zenon DEF TInv
<1>2. ASSUME NEW w \in Worker, wk'[w].owed, holdsSession(w)', wk'[w].token > 1
      PROVE  ~findTrailingPartialTurn(thread(w), wk[w].run)'
  BY <1>2, KeptOwed, Zenon
<1>3. OwedIsMissing'
  BY <1>2, Zenon DEF OwedIsMissing
<1> QED
  BY <1>1, <1>3, Zenon

(* A step after which a worker is where its turn was, or further, without  *)
(* a new entry, answer, claim or call of fail().                           *)
Stays(v) ==
  /\ Continues(v) /\ Rests(v)
  /\ wk'[v].pc = "failing" <=> wk[v].pc = "failing"
  /\ wk'[v].pc = "replied" \/ wk'[v].out = "answered" =>
       wk[v].pc = "replied" \/ wk[v].out = "answered"
  /\ wk'[v].owed => wk[v].owed

(* A worker that a step does not concern stays.                            *)
LEMMA Bystander ==
  ASSUME TInv, NEW v \in Worker, wk'[v] = wk[v], claiming'[v] \in {None, claiming[v]}
  PROVE  Stays(v)
  BY Zenon DEF TInv, IdleClean, Stays, Continues, Rests, busy

-----------------------------------------------------------------------------
(* The types of the tables follow from the stores' invariants.             *)
LEMMA StoreTypes == R!IInv /\ S!SessionIInv => R!TypeOK /\ S!SessionTypeOK
  BY Zenon DEF R!IInv, S!SessionIInv

(* The same after a step.                                                  *)
LEMMA StoreTypesNext == R!IInv' /\ S!SessionIInv' => R!TypeOK' /\ S!SessionTypeOK'
  BY Zenon DEF R!IInv, S!SessionIInv

(* What is proved of the stores: a step of theirs keeps their invariants   *)
(* and what a caller relies on.                                            *)
StoresKept ==
  /\ [R!Next]_(R!vars) => R!IInv' /\ RowsPersist
  /\ [S!SessionNext]_(S!sessionVars) => S!SessionIInv'

(* The stores' invariants after a step of theirs.                          *)
LEMMA StoresStep ==
  ASSUME TInv, StoresKept, [R!Next]_(R!vars), [S!SessionNext]_(S!sessionVars)
  PROVE  R!IInv' /\ S!SessionIInv' /\ RowsPersist
  BY Zenon DEF StoresKept

(* The goal for every action: it is a step of both stores, or none, and    *)
(* keeps the invariant.                                                    *)
Sound == [R!Next]_(R!vars) /\ [S!SessionNext]_(S!sessionVars) /\ TInv'

(* A step in which every worker stays is sound.                            *)
LEMMA PlainStep ==
  ASSUME TInv, StoresKept, [R!Next]_(R!vars), [S!SessionNext]_(S!sessionVars), LogsPersist,
         log' = log, answer' = answer, failing' = failing, faults' \in 0..MaxFaults,
         wk' \in [Worker -> WorkerState], \A v \in Worker : Stays(v)
  PROVE  Sound
<1>1. R!IInv' /\ S!SessionIInv' /\ RowsPersist
  BY StoresStep, Zenon
<1>2. TypeOK'
  BY <1>1, StoreTypesNext, Zenon DEF TypeOK, TInv
<1>3. ClaimKnown' /\ ClaimsApart' /\ LostIsLost'
  BY <1>1, KeptClaims, Zenon DEF Stays
<1>4. IdleClean' /\ ClaimsBounded'
  BY <1>1, KeptLocks, KeptBounds, Zenon DEF Stays
<1>5. FailuresOwned'
  <2>1. \A v \in Worker : wk[v].pc = "failing" =>
          wk'[v].run = wk[v].run /\ wk'[v].token = wk[v].token
    BY Zenon DEF Stays, Continues, busy
  <2> QED
    BY <2>1, KeptFailures, Zenon DEF Stays
<1>6. ReplyWritten' /\ AnswerInTranscript'
  <2>1. \A v \in Worker : wk'[v].pc = "replied" \/ wk'[v].out = "answered" =>
          wk'[v].run = wk[v].run /\ wk'[v].token = wk[v].token
    BY Zenon DEF Stays, Continues, Rests, busy
  <2> QED
    BY <1>1, <2>1, KeptReplies, Zenon DEF Stays
<1>7. HasLast' /\ OwedIsMissing' /\ RetryDoesNotRepeat'
  BY <1>1, KeptTranscript, Zenon DEF Stays, Rests
<1> QED
  BY <1>1, <1>2, <1>3, <1>4, <1>5, <1>6, <1>7, Zenon DEF TInv, Sound

-----------------------------------------------------------------------------
(* The calls of the session store.  The types its steps compute with:      *)
LEMMA SessionFields ==
  ASSUME TInv, NEW s \in Session
  PROVE  /\ issued[s] \in Nat /\ leases[s].token \in Nat /\ leases[s].token <= issued[s]
         /\ leases[s] \in S!Lease /\ log[s] \in Seq(S!Write) /\ Len(log[s]) \in Nat
  BY DEF TInv, S!SessionIInv, S!SessionTypeOK, S!Fenced, S!Lease

(* no call at all, ...                                                     *)
LEMMA NoSessionCall ==
  ASSUME TInv, UNCHANGED sessionVars
  PROVE  [S!SessionNext]_(S!sessionVars) /\ LogsPersist /\ log' = log
<1>1. log' = log /\ issued' = issued /\ leases' = leases
  BY Zenon DEF sessionVars
<1>2. LogsPersist
  BY <1>1, SessionFields DEF LogsPersist
<1> QED
  BY <1>1, <1>2, Zenon DEF S!sessionVars

(* ... a lease taken or taken away, ...                                    *)
LEMMA LeaseCall ==
  ASSUME TInv, NEW s \in Session, S!acquireLease(s) \/ S!forceReleaseLease(s)
  PROVE  [S!SessionNext]_(S!sessionVars) /\ LogsPersist /\ log' = log
<1>1. log' = log
  BY Zenon DEF S!acquireLease, S!forceReleaseLease
<1>2. ASSUME NEW q \in Session
      PROVE  /\ issued'[q] >= issued[q]
             /\ leases'[q].token \in {0, leases[q].token} \/ leases'[q].token > issued[q]
  <2>1. /\ issued[q] \in Nat /\ leases[q].token \in Nat
    BY SessionFields, Zenon
  <2>2. CASE S!acquireLease(s)
    <3>1. /\ issued' = [issued EXCEPT ![s] = @ + 1]
          /\ leases' = [leases EXCEPT ![s] = [token |-> issued[s] + 1, expiresAt |-> SessionTtl]]
      BY <2>2, Zenon DEF S!acquireLease
    <3> QED
      BY <2>1, <3>1 DEF TInv, S!SessionIInv, S!SessionTypeOK
  <2>3. CASE S!forceReleaseLease(s)
    BY <2>1, <2>3 DEF S!forceReleaseLease, S!NoLease, TInv, S!SessionIInv, S!SessionTypeOK
  <2> QED
    BY <2>2, <2>3, Zenon
<1>3. LogsPersist
  BY <1>1, <1>2, SessionFields DEF LogsPersist
<1> QED
  BY <1>1, <1>3, Zenon DEF S!SessionNext

(* ... the lease of a turn given back, ...                                 *)
LEMMA ReleaseCall ==
  ASSUME TInv, NEW w \in Worker, busy(w), S!releaseSessionLease(thread(w), wk[w].lease)
  PROVE  [S!SessionNext]_(S!sessionVars) /\ LogsPersist /\ log' = log
<1> DEFINE s == thread(w)
           t == wk[w].lease
<1>1. s \in Session /\ t \in Nat /\ t <= issued[s] /\ issued[s] \in Nat
  BY KnownFields, Zenon
<1>2. t # 0 /\ log' = log /\ issued' = issued
      /\ leases' = IF leases[s].token = t THEN [leases EXCEPT ![s] = S!NoLease] ELSE leases
  BY Zenon DEF S!releaseSessionLease
<1>3. t \in 1..issued[s]
  BY <1>1, <1>2
<1>4. S!SessionNext
  BY <1>1, <1>3, Zenon DEF S!SessionNext
<1>5. \A q \in Session : leases'[q].token \in {0, leases[q].token}
  BY <1>2, Zenon DEF S!NoLease, TInv, S!SessionIInv, S!SessionTypeOK
<1>6. LogsPersist
  BY <1>2, <1>5, SessionFields DEF LogsPersist
<1> QED
  BY <1>2, <1>4, <1>6, Zenon

(* ... and time.                                                           *)
LEMMA SessionTick ==
  ASSUME TInv, S!SessionTick
  PROVE  [S!SessionNext]_(S!sessionVars) /\ LogsPersist /\ log' = log
<1>1. log' = log /\ issued' = issued
  BY Zenon DEF S!SessionTick
<1>2. ASSUME NEW q \in Session PROVE leases'[q].token = leases[q].token
  <2>1. leases[q] \in S!Lease
    BY SessionFields, Zenon
  <2>2. leases'[q] = IF leases[q].expiresAt > 0
                       THEN [leases[q] EXCEPT !.expiresAt = leases[q].expiresAt - 1]
                       ELSE leases[q]
    BY Zenon DEF S!SessionTick
  <2> QED
    BY <2>1, <2>2, Zenon DEF S!Lease
<1>3. LogsPersist
  BY <1>1, <1>2, SessionFields DEF LogsPersist
<1> QED
  BY <1>1, <1>3, Zenon DEF S!SessionNext

(* The calls of the run store that leave failing alone: none, ...          *)
LEMMA NoRunCall ==
  ASSUME UNCHANGED runVars
  PROVE  [R!Next]_(R!vars) /\ failing' = failing /\ claiming' = claiming
  BY Zenon DEF runVars, R!vars

(* ... and those a worker makes with the token of its claim, ...           *)
LEMMA TokenStep ==
  ASSUME TInv, NEW w \in Worker, busy(w),
         \/ R!heartbeat(wk[w].run, wk[w].token)
         \/ R!releaseLease(wk[w].run, wk[w].token)
         \/ R!complete(wk[w].run, wk[w].token)
  PROVE  [R!Next]_(R!vars) /\ failing' = failing /\ claiming' = claiming
<1>1. wk[w].run \in RunId /\ wk[w].token \in 1..runs[wk[w].run].attempts
  BY KnownFields, Zenon
<1>2. R!TokenCall(wk[w].run, wk[w].token)
  BY Zenon DEF R!TokenCall
<1>3. R!Next
  BY <1>1, <1>2, Zenon DEF R!Next
<1> QED
  BY <1>3, Zenon DEF R!heartbeat, R!releaseLease, R!complete

(* A step of one worker in which it stays.                                 *)
LEMMA WorkerStays ==
  ASSUME TInv, StoresKept, NEW w \in Worker, [R!Next]_(R!vars), [S!SessionNext]_(S!sessionVars), LogsPersist,
         log' = log, answer' = answer, failing' = failing, claiming' = claiming,
         faults' \in 0..MaxFaults,
         NEW x \in WorkerState, wk' = [wk EXCEPT ![w] = x],
         wk'[w] = x => Stays(w)
  PROVE  Sound
<1>1. wk \in [Worker -> WorkerState]
  BY Zenon DEF TInv, TypeOK
<1>2. wk' \in [Worker -> WorkerState] /\ wk'[w] = x
  BY <1>1, Zenon
<1>3. ASSUME NEW v \in Worker, v # w PROVE Stays(v)
  BY <1>1, <1>3, Bystander, Zenon
<1>4. \A v \in Worker : Stays(v)
  BY <1>2, <1>3, Zenon
<1> QED
  BY <1>2, <1>4, PlainStep, Zenon

(* Faults are counted up to their bound.                                   *)
LEMMA FaultType ==
  ASSUME TInv, UNCHANGED faults \/ \E kind : Fault(kind)
  PROVE  faults' \in 0..MaxFaults
  BY TurnAssumption DEF TInv, TypeOK, Fault

(* A turn that goes on, or comes to an end.                                *)
LEMMA TurnMoves ==
  ASSUME TInv, StoresKept, NEW w \in Worker, [R!Next]_(R!vars), [S!SessionNext]_(S!sessionVars), LogsPersist,
         log' = log, answer' = answer, failing' = failing, claiming' = claiming,
         faults' \in 0..MaxFaults, wk[w].pc \notin {"idle", "failing"},
         NEW pc \in {"prompt", "working", "throw", "unwind", "report"},
         NEW out \in {"none", "answered", "declined", "refused", "error", "fatal"},
         out = "answered" => wk[w].pc = "replied" \/ wk[w].out = "answered",
         EndTurn(w, pc, out) \/ (Goto(w, pc) /\ out = wk[w].out)
  PROVE  Sound
<1> DEFINE x == [wk[w] EXCEPT !.pc = pc, !.out = out]
<1>1. wk \in [Worker -> WorkerState] /\ wk[w] \in WorkerState
  BY Zenon DEF TInv, TypeOK
<1>2. /\ x \in WorkerState /\ x.pc = pc /\ x.out = out /\ x.run = wk[w].run
      /\ x.token = wk[w].token /\ x.lease = wk[w].lease /\ x.lost = wk[w].lost
      /\ x.owed = wk[w].owed
  BY <1>1, ZenonT(30) DEF WorkerState
<1>3. wk' = [wk EXCEPT ![w] = x]
  <2>1. CASE EndTurn(w, pc, out)
    BY <1>1, <2>1, Zenon DEF EndTurn
  <2>2. CASE Goto(w, pc) /\ out = wk[w].out
    <3>1. [wk[w] EXCEPT !.pc = pc] = x
      BY <1>1, <2>2, Zenon DEF WorkerState
    <3>2. wk' = [wk EXCEPT ![w] = [wk[w] EXCEPT !.pc = pc]]
      BY <1>1, <2>2, Zenon DEF Goto
    <3> QED
      BY <3>1, <3>2, Zenon
  <2> QED
    BY <2>1, <2>2, Zenon
<1>4. claiming[w] = None
  BY Zenon DEF TInv, IdleClean
<1> HIDE DEF x
<1>5. wk'[w] = x => Stays(w)
  BY <1>2, <1>4, Zenon DEF Stays, Continues, Rests, busy
<1> QED
  BY <1>2, <1>3, <1>5, WorkerStays, Zenon

(* A worker claims a run or a session, or reads the history it continues.  *)

-----------------------------------------------------------------------------
(* A step that concerns no worker.                                         *)
LEMMA NobodyMoves ==
  ASSUME TInv, StoresKept, [R!Next]_(R!vars), [S!SessionNext]_(S!sessionVars), LogsPersist,
         log' = log, answer' = answer, failing' = failing, claiming' = claiming,
         faults' \in 0..MaxFaults, wk' = wk
  PROVE  Sound
<1>1. wk' \in [Worker -> WorkerState]
  BY Zenon DEF TInv, TypeOK
<1>2. \A v \in Worker : Stays(v)
  BY Bystander, Zenon
<1> QED
  BY <1>1, <1>2, PlainStep, Zenon

(* The steps of the API, the reaper, the listeners and time.               *)
LEMMA SubmitStep ==
  ASSUME TInv, StoresKept, NEW r \in RunId, NEW s \in Session, submit(r, s)
  PROVE  Sound
<1>1. [R!Next]_(R!vars) /\ failing' = failing /\ claiming' = claiming
  BY Zenon DEF submit, R!Next, R!enqueue
<1>2. UNCHANGED sessionVars /\ wk' = wk /\ answer' = answer /\ faults' \in 0..MaxFaults
  BY FaultType, Zenon DEF submit
<1> QED
  BY <1>1, <1>2, NoSessionCall, NobodyMoves, Zenon

(* The reaper retires runs and frees sessions; it touches no worker.       *)
LEMMA SweepStep ==
  ASSUME TInv, StoresKept, NEW z \in Sweeper, sweepStep(z) \/ sweepFails(z)
  PROVE  Sound
<1>1. CASE sweepRuns(z)
  <2>1. [R!Next]_(R!vars)
    BY <1>1, Zenon DEF sweepRuns, R!Next
  <2>2. failing' = failing /\ claiming' = claiming
    BY <1>1, Zenon DEF sweepRuns, R!reapExpired, R!reapDone, R!reapRetire
  <2>3. UNCHANGED sessionVars /\ wk' = wk /\ answer' = answer /\ faults' \in 0..MaxFaults
    BY <1>1, FaultType, Zenon DEF sweepRuns
  <2> QED
    BY <2>1, <2>2, <2>3, NoSessionCall, NobodyMoves, Zenon
<1>2. ASSUME NEW s \in Session, releaseStranded(z, s) PROVE Sound
  <2>1. [R!Next]_(R!vars) /\ failing' = failing /\ claiming' = claiming
    BY <1>2, Zenon DEF releaseStranded, R!Next, R!onRetired
  <2>2. wk' = wk /\ answer' = answer /\ faults' \in 0..MaxFaults
    BY <1>2, FaultType, Zenon DEF releaseStranded
  <2>3. [S!SessionNext]_(S!sessionVars) /\ LogsPersist /\ log' = log
    BY <1>2, LeaseCall, Zenon DEF releaseStranded
  <2> QED
    BY <2>1, <2>2, <2>3, NobodyMoves, Zenon
<1>3. CASE sweepFails(z)
  <2>1. [R!Next]_(R!vars) /\ failing' = failing /\ claiming' = claiming
    BY <1>3, Zenon DEF sweepFails, R!Next, R!abortSweep
  <2>2. UNCHANGED sessionVars /\ wk' = wk /\ answer' = answer /\ faults' \in 0..MaxFaults
    BY <1>3, FaultType, Zenon DEF sweepFails
  <2> QED
    BY <2>1, <2>2, NoSessionCall, NobodyMoves, Zenon
<1> QED
  BY <1>1, <1>2, <1>3, Zenon DEF sweepStep

(* The listeners of a terminal run are called.                             *)
LEMMA SettleStep ==
  ASSUME TInv, StoresKept, NEW r \in RunId, settle(r)
  PROVE  Sound
<1>1. [R!Next]_(R!vars) /\ failing' = failing /\ claiming' = claiming
  BY Zenon DEF settle, R!Next, R!settle, R!dieBeforeSettle
<1>2. UNCHANGED sessionVars /\ wk' = wk /\ answer' = answer /\ faults' \in 0..MaxFaults
  BY FaultType, Zenon DEF settle
<1> QED
  BY <1>1, <1>2, NoSessionCall, NobodyMoves, Zenon

(* Time passes in both stores.                                             *)
LEMMA TickStep ==
  ASSUME TInv, StoresKept, Tick
  PROVE  Sound
<1>1. [R!Next]_(R!vars) /\ failing' = failing /\ claiming' = claiming
  BY Zenon DEF Tick, R!Next, R!Tick
<1>2. wk' = wk /\ answer' = answer /\ faults' \in 0..MaxFaults
  BY FaultType, Zenon DEF Tick
<1>3. [S!SessionNext]_(S!sessionVars) /\ LogsPersist /\ log' = log
  BY SessionTick, Zenon DEF Tick
<1> QED
  BY <1>1, <1>2, <1>3, NobodyMoves, Zenon

-----------------------------------------------------------------------------
(* The steps of a turn that write no entry.                                *)
LEMMA QuietTurnStep ==
  ASSUME TInv, StoresKept, NEW w \in Worker, endEarly(w) \/ finishTurn(w) \/ leaveTurn(w)
  PROVE  Sound
<1>1. UNCHANGED runVars /\ UNCHANGED sessionVars /\ answer' = answer
  BY Zenon DEF endEarly, finishTurn, leaveTurn
<1>2. faults' \in 0..MaxFaults
  BY FaultType, Zenon DEF endEarly, finishTurn, leaveTurn
<1>3. PICK pc \in {"throw", "unwind", "report"},
           out \in {"answered", "declined", "error", "fatal"} :
        /\ EndTurn(w, pc, out) /\ wk[w].pc \notin {"idle", "failing"}
        /\ out = "answered" => wk[w].pc = "replied"
  BY Zenon DEF endEarly, finishTurn, leaveTurn
<1>4. [R!Next]_(R!vars) /\ failing' = failing /\ claiming' = claiming
  BY <1>1, NoRunCall, Zenon
<1>5. [S!SessionNext]_(S!sessionVars) /\ LogsPersist /\ log' = log
  BY <1>1, NoSessionCall, Zenon
<1> QED
  BY <1>1, <1>2, <1>3, <1>4, <1>5, TurnMoves, Zenon

(* The finally clause of the turn gives up the session lease.              *)
LEMMA UnwindStep ==
  ASSUME TInv, StoresKept, NEW w \in Worker, unwind(w)
  PROVE  Sound
<1>1. wk[w].pc = "unwind" /\ UNCHANGED runVars /\ answer' = answer
  BY Zenon DEF unwind
<1>2. faults' \in 0..MaxFaults
  BY FaultType, Zenon DEF unwind
<1>3. [R!Next]_(R!vars) /\ failing' = failing /\ claiming' = claiming
  BY <1>1, NoRunCall, Zenon
<1>4. CASE S!releaseSessionLease(thread(w), wk[w].lease) /\ Goto(w, "report")
  <2>1. [S!SessionNext]_(S!sessionVars) /\ LogsPersist /\ log' = log
    BY <1>1, <1>4, ReleaseCall, Zenon DEF busy
  <2>2. wk[w].out \in {"none", "answered", "declined", "refused", "error", "fatal"}
    BY Zenon DEF TInv, TypeOK, WorkerState
  <2> QED
    BY <1>1, <1>2, <1>3, <1>4, <2>1, <2>2, TurnMoves, Zenon
<1>5. CASE EndTurn(w, "report", "error") /\ UNCHANGED sessionVars
  <2>1. [S!SessionNext]_(S!sessionVars) /\ LogsPersist /\ log' = log
    BY <1>5, NoSessionCall, Zenon
  <2> QED
    BY <1>1, <1>2, <1>3, <1>5, <2>1, TurnMoves, Zenon
<1> QED
  BY <1>4, <1>5, Zenon DEF unwind

-----------------------------------------------------------------------------
(* Session s has one more entry, rec.                                      *)
Extended(s, rec) ==
  /\ Len(log'[s]) = Len(log[s]) + 1
  /\ log'[s][Len(log[s]) + 1].record = rec
  /\ \A i \in 1..Len(log[s]) : log'[s][i] = log[s][i]
  /\ \A q \in Session : q # s => log'[q] = log[q]

(* The entries of a transcript have their types.                           *)
LEMMA EntryTypes ==
  ASSUME TInv, NEW s \in Session, NEW i \in 1..Len(log[s])
  PROVE  /\ log[s][i].record \in Entry /\ log[s][i].record.claim \in 1..ClaimBound
         /\ log[s][i].record.type \in {"user", "note", "assistant", "failure"}
<1>1. log[s] \in Seq(S!Write)
  BY SessionFields, Zenon
<1>2. log[s][i] \in S!Write
  BY <1>1
<1>3. log[s][i].record \in Entry
  BY <1>2, Zenon DEF S!Write
<1> QED
  BY <1>3, Zenon DEF Entry

(* A turn that writes an entry under the session lease.                    *)
LEMMA WriteCall ==
  ASSUME TInv, NEW w \in Worker, busy(w), UNCHANGED runVars,
         NEW type \in {"user", "note", "assistant", "failure"}, write(w, type)
  PROVE  /\ [S!SessionNext]_(S!sessionVars) /\ LogsPersist
         /\ Extended(thread(w), entry(w, type))
<1>1. PICK s \in Session, t \in Nat, rec \in {entry(w, type)} :
        s = thread(w) /\ t = wk[w].lease /\ rec = entry(w, type)
  BY KnownFields, Zenon
<1>2. S!append(s, t, "entry", rec)
  BY <1>1, Zenon DEF write
<1>3. /\ t # 0 /\ leases[s].token = t
      /\ leases' = [leases EXCEPT ![s].expiresAt = SessionTtl] /\ issued' = issued
      /\ log' = [log EXCEPT ![s] = Append(@, [token |-> t, kind |-> "entry", record |-> rec])]
  BY <1>2, Zenon DEF S!append, S!HoldsLease
<1>4. rec \in Entry
  <2>1. /\ wk[w].run \in RunId /\ wk[w].token \in 1..runs[wk[w].run].attempts
        /\ runs[wk[w].run].attempts \in Nat
    BY KnownFields, Zenon
  <2>2. runs[wk[w].run].attempts <= ClaimBound
    BY <2>1, Zenon DEF TInv, ClaimsBounded
  <2>3. wk[w].token \in 1..ClaimBound
    BY <2>1, <2>2, StoreAssumption
  <2> QED
    BY <1>1, <2>1, <2>3, Zenon DEF entry, Entry
<1>5. issued[s] \in Nat /\ t <= issued[s]
  BY <1>3, SessionFields, Zenon
<1>6. t \in 1..issued[s]
  BY <1>3, <1>5
<1>7. S!SessionNext
  BY <1>2, <1>4, <1>6, Zenon DEF S!SessionNext
<1>8. log \in [Session -> Seq(S!Write)] /\ log[s] \in Seq(S!Write) /\ Len(log[s]) \in Nat
      /\ leases \in [Session -> S!Lease]
  BY SessionFields, Zenon DEF TInv, S!SessionIInv, S!SessionTypeOK
<1> DEFINE e == [token |-> t, kind |-> "entry", record |-> rec]
<1>9. e \in S!Write
  BY <1>4, Zenon DEF S!Write
<1>10. log'[s] = Append(log[s], e) /\ \A q \in Session : q # s => log'[q] = log[q]
  BY <1>3, <1>8, Zenon
<1>11. e.record = rec
  BY Zenon
<1> HIDE DEF e
<1>12. /\ Len(log'[s]) = Len(log[s]) + 1 /\ log'[s][Len(log[s]) + 1] = e
       /\ \A i \in 1..Len(log[s]) : log'[s][i] = log[s][i]
  BY <1>8, <1>9, <1>10
<1>13. Extended(s, rec)
  BY <1>10, <1>11, <1>12, Zenon DEF Extended
<1>14. LogsPersist
  <2> SUFFICES ASSUME NEW q \in Session
               PROVE  /\ issued'[q] >= issued[q]
                      /\ leases'[q].token = leases[q].token
                      /\ Len(log'[q]) >= Len(log[q])
                      /\ \A i \in 1..Len(log[q]) : log'[q][i] = log[q][i]
    BY Zenon DEF LogsPersist
  <2>1. issued'[q] >= issued[q]
    BY <1>3, SessionFields
  <2>2. leases'[q].token = leases[q].token
    BY <1>3, <1>8, Zenon DEF S!Lease
  <2>3. Len(log'[q]) >= Len(log[q]) /\ \A i \in 1..Len(log[q]) : log'[q][i] = log[q][i]
    <3>1. CASE q = s
      <4>1. log'[q] = log'[s] /\ log[q] = log[s]
        BY <3>1, Zenon
      <4>2. Len(log'[s]) >= Len(log[s])
        BY <1>8, <1>12
      <4> QED
        BY <1>12, <4>1, <4>2, Zenon
    <3>2. CASE q # s
      BY <1>10, <3>2, SessionFields
    <3> QED
      BY <3>1, <3>2, Zenon
  <2> QED
    BY <2>1, <2>2, <2>3, Zenon
<1> QED
  BY <1>1, <1>7, <1>13, <1>14, Zenon

(* The longer log has its last deciding entry: the new one, or the old.    *)
LEMMA LastKept ==
  ASSUME TInv, NEW s \in Session, NEW rec, Extended(s, rec)
  PROVE  HasLast'
<1>0. PICK n \in Nat : n = Len(log[s])
  BY SessionFields, Zenon
<1>1. /\ Len(log[s]) = n /\ Len(log'[s]) = n + 1 /\ log'[s][n + 1].record = rec
      /\ \A i \in 1..n : log'[s][i] = log[s][i]
  BY <1>0, Zenon DEF Extended
<1> SUFFICES ASSUME NEW q \in Session, NEW i \in 1..Len(log'[q]), Decides(q, i)'
             PROVE  \E l \in i..Len(log'[q]) :
                      Decides(q, l)' /\ \A j \in l + 1..Len(log'[q]) : ~Decides(q, j)'
  BY Zenon DEF HasLast
<1>2. CASE q # s
  <2>1. log'[q] = log[q]
    BY <1>2, Zenon DEF Extended
  <2>2. Decides(q, i)
    BY <2>1, Zenon DEF Decides
  <2>3. \E l \in i..Len(log[q]) : Decides(q, l) /\ \A j \in l + 1..Len(log[q]) : ~Decides(q, j)
    BY <2>1, <2>2, Zenon DEF TInv, HasLast
  <2> QED
    BY <2>1, <2>3, Zenon DEF Decides
<1>3. CASE q = s /\ rec.type \in {"user", "assistant"}
  <2>1. Decides(s, n + 1)'
    BY <1>1, <1>3, Zenon DEF Decides
  <2>2. n + 1 \in i..Len(log'[q]) /\ n + 1 + 1..Len(log'[q]) = {}
    BY <1>1, <1>3
  <2> QED
    BY <1>3, <2>1, <2>2, Zenon
<1>4. CASE q = s /\ rec.type \notin {"user", "assistant"}
  <2>1. ~Decides(s, n + 1)'
    BY <1>1, <1>4, Zenon DEF Decides
  <2>2. i \in 1..n
    BY <1>1, <1>4, <2>1
  <2>3. \A j \in 1..n : Decides(s, j)' <=> Decides(s, j)
    BY <1>1, Zenon DEF Decides
  <2>4. PICK l \in i..n : Decides(s, l) /\ \A j \in l + 1..n : ~Decides(s, j)
    BY <1>1, <1>4, <2>2, <2>3, Zenon DEF TInv, HasLast
  <2>5. ASSUME NEW j \in l + 1..n + 1 PROVE ~Decides(s, j)'
    <3>1. j = n + 1 \/ (j \in l + 1..n /\ j \in 1..n)
      BY <1>1, <2>2, <2>4
    <3> QED
      BY <2>1, <2>3, <2>4, <3>1, Zenon
  <2>6. l \in 1..n /\ l \in i..n + 1
    BY <1>1, <2>2, <2>4
  <2> QED
    BY <1>1, <1>4, <2>3, <2>4, <2>5, <2>6, Zenon
<1> QED
  BY <1>2, <1>3, <1>4, Zenon

(* A retry writes its request only where it is missing, so that somebody   *)
(* answered, or asked for something else, since it was written before.     *)
LEMMA RetryKept ==
  ASSUME TInv, NEW w \in Worker, busy(w), holdsSession(w),
         NEW type \in {"user", "note", "assistant", "failure"},
         Extended(thread(w), entry(w, type)), type = "user" => wk[w].owed
  PROVE  RetryDoesNotRepeat'
<1>1. PICK s \in Session, r \in RunId, t \in Nat, n \in Nat :
        s = thread(w) /\ r = wk[w].run /\ t = wk[w].token /\ n = Len(log[s])
  BY KnownFields, SessionFields, Zenon
<1>2. /\ Len(log[s]) = n /\ Len(log'[s]) = n + 1
      /\ log'[s][n + 1].record = [type |-> type, run |-> r, claim |-> t]
      /\ \A i \in 1..n : log'[s][i] = log[s][i]
      /\ \A q \in Session : q # s => log'[q] = log[q]
  BY <1>1, Zenon DEF Extended, entry
<1>3. /\ log'[s][n + 1].record.type = type /\ log'[s][n + 1].record.run = r
      /\ log'[s][n + 1].record.claim = t
  BY <1>2
<1> SUFFICES ASSUME NEW q \in Session, NEW i \in 1..Len(log'[q]), NEW j \in 1..Len(log'[q]),
                    i < j, log'[q][i].record.type = "user", log'[q][j].record.type = "user",
                    log'[q][i].record.run = log'[q][j].record.run, log'[q][i].record.run \notin Blank,
                    log'[q][i].record.claim < log'[q][j].record.claim
             PROVE  \E k \in i + 1..j - 1 :
                      \/ log'[q][k].record.type = "assistant"
                      \/ /\ log'[q][k].record.type = "user"
                         /\ log'[q][k].record.run # log'[q][i].record.run
  BY DEF RetryDoesNotRepeat
<1>4. CASE q # s
  <2>1. log'[q] = log[q]
    BY <1>2, <1>4, Zenon
  <2> QED
    BY <2>1 DEF TInv, RetryDoesNotRepeat
<1>5. CASE q = s /\ j \in 1..n
  <2>1. /\ i \in 1..n /\ \A k \in i + 1..j - 1 : k \in 1..n
    BY <1>5
  <2>2. log'[s][i] = log[s][i] /\ log'[s][j] = log[s][j]
    BY <1>2, <1>5, <2>1, Zenon
  <2>3. /\ i \in 1..Len(log[s]) /\ j \in 1..Len(log[s]) /\ i < j
        /\ log[s][i].record.type = "user" /\ log[s][j].record.type = "user"
        /\ log[s][i].record.run = log[s][j].record.run /\ log[s][i].record.run \notin Blank
        /\ log[s][i].record.claim < log[s][j].record.claim
    BY <1>2, <1>5, <2>1, <2>2, Zenon
  <2>4. RetryDoesNotRepeat
    BY Zenon DEF TInv
  <2>5. PICK k \in i + 1..j - 1 :
          \/ log[s][k].record.type = "assistant"
          \/ log[s][k].record.type = "user" /\ log[s][k].record.run # log[s][i].record.run
    BY <2>3, <2>4, ZenonT(30) DEF RetryDoesNotRepeat
  <2>6. log'[s][k] = log[s][k]
    BY <1>2, <2>1, <2>5, Zenon
  <2> QED
    BY <1>5, <2>2, <2>5, <2>6, ZenonT(30)
<1>6. CASE q = s /\ j = n + 1
  <2>1. i \in 1..n /\ log'[s][i] = log[s][i]
    BY <1>2, <1>6
  <2>2. /\ log[s][i].record.type = "user" /\ log[s][i].record.run = r
        /\ log[s][i].record.claim < t /\ wk[w].owed /\ r \notin Blank
    BY <1>3, <1>6, <2>1, Zenon
  <2>3. log[s][i].record.claim \in 1..ClaimBound
    BY <1>2, <2>1, EntryTypes, Zenon
  <2>4. t > 1
    <3>1. PICK c \in 1..ClaimBound : c < t
      BY <2>2, <2>3, Zenon
    <3>2. c >= 1 /\ c \in Int
      BY <3>1, StoreAssumption
    <3> QED
      BY <3>1, <3>2
  <2>5. ~findTrailingPartialTurn(s, r)
    BY <1>1, <2>2, <2>4, Zenon DEF TInv, OwedIsMissing
  <2>6. PICK l \in i..n : Decides(s, l) /\ \A k \in l + 1..n : ~Decides(s, k)
    BY <1>2, <2>1, <2>2, Zenon DEF TInv, HasLast, Decides
  <2>7. l \in 1..n
    BY <2>1, <2>6
  <2>8. ~(log[s][l].record.type = "user" /\ log[s][l].record.run = r)
    BY <1>2, <2>2, <2>5, <2>6, <2>7, Zenon DEF findTrailingPartialTurn, Decides
  <2>9. l \in i + 1..j - 1
    <3>1. l # i
      BY <2>2, <2>8, Zenon
    <3> QED
      BY <1>6, <2>1, <2>6, <3>1
  <2>10. \/ log[s][l].record.type = "assistant"
         \/ log[s][l].record.type = "user" /\ log[s][l].record.run # r
    BY <2>6, <2>8, Zenon DEF Decides
  <2>11. log'[s][l] = log[s][l]
    BY <1>2, <2>7, Zenon
  <2> QED
    BY <1>6, <2>1, <2>2, <2>9, <2>10, <2>11, ZenonT(30)
<1>7. q = s => j \in 1..n \/ j = n + 1
  BY <1>2
<1> QED
  BY <1>4, <1>5, <1>6, <1>7, Zenon

(* What is owed stays missing when somebody writes: only the holder of the *)
(* session lease can, and nobody else has it.                              *)
LEMMA OwedKept ==
  ASSUME TInv, RowsPersist, LogsPersist, R!IInv', S!SessionIInv',
         NEW w \in Worker, busy(w), holdsSession(w),
         NEW type \in {"user", "note", "assistant", "failure"},
         Extended(thread(w), entry(w, type)), type = "user" => ~wk'[w].owed,
         \A v \in Worker : Continues(v) /\ (wk'[v].owed => wk[v].owed /\ wk'[v].pc # "idle")
  PROVE  OwedIsMissing'
<1>1. PICK s \in Session, r \in RunId, t \in Nat, n \in Nat :
        s = thread(w) /\ r = wk[w].run /\ t = wk[w].token /\ n = Len(log[s])
  BY KnownFields, SessionFields, Zenon
<1>2. /\ Len(log[s]) = n /\ Len(log'[s]) = n + 1
      /\ log'[s][n + 1].record = [type |-> type, run |-> r, claim |-> t]
      /\ \A i \in 1..n : log'[s][i] = log[s][i]
      /\ \A q \in Session : q # s => log'[q] = log[q]
  BY <1>1, Zenon DEF Extended, entry
<1>3. log'[s][n + 1].record.type = type
  BY <1>2
<1>4. ASSUME NEW v \in Worker, wk'[v].owed, holdsSession(v)', wk'[v].token > 1
      PROVE  ~findTrailingPartialTurn(thread(v), wk[v].run)'
  <2>1. Continues(v) /\ wk[v].owed /\ busy(v)'
    BY <1>4, Zenon DEF busy
  <2>2. /\ busy(v) /\ wk'[v].run = wk[v].run /\ wk'[v].token = wk[v].token
        /\ thread(v)' = thread(v)
    BY <2>1, KeptClaim, Zenon
  <2>3. holdsSession(v)
    BY <1>4, <2>1, HeldBefore, Zenon
  <2>4. PICK q \in Session, o \in RunId : q = thread(v) /\ o = wk[v].run
    BY <2>2, KnownFields, Zenon
  <2>5. ~findTrailingPartialTurn(q, o)
    BY <1>4, <2>1, <2>2, <2>3, <2>4, Zenon DEF TInv, OwedIsMissing
  <2>6. ~findTrailingPartialTurn(q, o)'
    <3>1. CASE q # s
      BY <1>2, <2>5, <3>1, ZenonT(30) DEF findTrailingPartialTurn
    <3>2. CASE q = s
      <4>1. v = w
        BY <1>1, <2>2, <2>3, <2>4, <3>2, Zenon DEF TInv, ClaimsApart, holdsSession, S!HoldsLease
      <4>2. type # "user"
        BY <1>4, <4>1, Zenon
      <4> SUFFICES ASSUME o \notin Blank, NEW i \in 1..n + 1, log'[s][i].record.type = "user",
                          log'[s][i].record.run = o,
                          \A j \in i + 1..n + 1 :
                            log'[s][j].record.type \notin {"user", "assistant"}
                   PROVE  FALSE
        BY <1>2, <3>2, Zenon DEF findTrailingPartialTurn
      <4>3. i \in 1..n
        BY <1>3, <4>2
      <4>4. type # "assistant"
        BY <1>3, <4>3
      <4>5. ASSUME NEW j \in i + 1..n
            PROVE  log[s][j].record.type \notin {"user", "assistant"}
        <5>1. j \in 1..n /\ j \in i + 1..n + 1
          BY <4>3
        <5> QED
          BY <1>2, <5>1, Zenon
      <4>6. log[s][i].record.type = "user" /\ log[s][i].record.run = o
        BY <1>2, <4>3, Zenon
      <4> QED
        BY <1>2, <2>5, <3>2, <4>3, <4>5, <4>6, Zenon DEF findTrailingPartialTurn
    <3> QED
      BY <3>1, <3>2, Zenon
  <2> QED
    BY <2>2, <2>4, <2>6, ZenonT(30) DEF findTrailingPartialTurn
<1> QED
  BY <1>4, Zenon DEF OwedIsMissing

(* A turn that goes on after writing an entry.                             *)
LEMMA WriteStep ==
  ASSUME TInv, StoresKept, NEW w \in Worker, wk[w].pc \notin {"idle", "failing"}, holdsSession(w),
         UNCHANGED runVars, answer' = answer, faults' \in 0..MaxFaults,
         NEW type \in {"user", "note", "assistant", "failure"}, write(w, type),
         NEW x \in WorkerState, wk' = [wk EXCEPT ![w] = x],
         /\ x.pc \in {"working", "replied", "throw", "unwind"} /\ x.run = wk[w].run
         /\ x.token = wk[w].token /\ x.lease = wk[w].lease /\ x.out = wk[w].out
         /\ x.lost = wk[w].lost,
         x.owed => wk[w].owed, type = "user" => wk[w].owed /\ ~x.owed,
         x.pc = "replied" => type = "assistant"
  PROVE  Sound
<1>1. busy(w) /\ claiming[w] = None
  BY Zenon DEF TInv, IdleClean, busy
<1>2. [R!Next]_(R!vars) /\ failing' = failing /\ claiming' = claiming /\ runs' = runs
  BY NoRunCall, Zenon DEF runVars
<1>3. [S!SessionNext]_(S!sessionVars) /\ LogsPersist /\ Extended(thread(w), entry(w, type))
  BY <1>1, WriteCall, Zenon
<1>4. R!IInv' /\ S!SessionIInv' /\ RowsPersist
  BY <1>2, <1>3, StoresStep, Zenon
<1>5. /\ wk' \in [Worker -> WorkerState] /\ wk'[w] = x
      /\ \A v \in Worker : v # w => wk'[v] = wk[v]
  BY Zenon DEF TInv, TypeOK
<1>6. \A v \in Worker : v # w => Stays(v)
  BY <1>2, <1>5, Bystander, Zenon
<1>7. Continues(w) /\ Rests(w) /\ wk'[w].pc \notin {"idle", "failing"}
  BY <1>1, <1>2, <1>5, Zenon DEF Continues, Rests, busy
<1>8. \A v \in Worker : Continues(v) /\ Rests(v)
  BY <1>6, <1>7, Zenon DEF Stays
<1>9. TypeOK'
  BY <1>4, <1>5, StoreTypesNext, Zenon DEF TypeOK, TInv
<1>10. ClaimKnown' /\ ClaimsApart' /\ LostIsLost' /\ IdleClean' /\ ClaimsBounded'
  BY <1>3, <1>4, <1>8, KeptClaims, KeptLocks, KeptBounds, Zenon
<1>11. FailuresOwned'
  BY <1>2, <1>5, <1>7, KeptFailures, Zenon
<1>12. ReplyWritten' /\ AnswerInTranscript'
  <2>1. ASSUME wk'[w].pc = "replied" PROVE Replied(wk[w].run, wk[w].token)'
    <3>1. PICK s \in Session, r \in RunId, t \in Nat, n \in Nat :
            s = thread(w) /\ r = wk[w].run /\ t = wk[w].token /\ n = Len(log[s])
      BY <1>1, KnownFields, SessionFields, Zenon
    <3>2. /\ Len(log'[s]) = n + 1
          /\ log'[s][n + 1].record = [type |-> "assistant", run |-> r, claim |-> t]
      BY <1>3, <1>5, <2>1, <3>1, Zenon DEF Extended, entry
    <3>3. /\ wk'[w].run = r /\ wk'[w].token = t /\ runs'[r].sessionId = s
          /\ n + 1 \in 1..n + 1
      BY <1>2, <1>5, <3>1 DEF thread
    <3> QED
      BY <3>2, <3>3, ZenonT(30) DEF Replied
  <2> QED
    BY <1>3, <1>4, <1>5, <2>1, KeptReplies, Zenon
<1>13. HasLast'
  BY <1>1, <1>3, KnownFields, LastKept, Zenon
<1>14. RetryDoesNotRepeat'
  BY <1>1, <1>3, RetryKept, Zenon
<1>15. OwedIsMissing'
  <2>1. \A v \in Worker : wk'[v].owed => wk[v].owed /\ wk'[v].pc # "idle"
    BY <1>5, <1>7, <1>8, Zenon DEF Rests
  <2> QED
    BY <1>1, <1>3, <1>4, <1>5, <1>8, <2>1, OwedKept, Zenon
<1> QED
  BY <1>2, <1>3, <1>4, <1>9, <1>10, <1>11, <1>12, <1>13, <1>14, <1>15, Zenon DEF TInv, Sound

-----------------------------------------------------------------------------
(* The turn writes its request or a note, ...                              *)
LEMMA EmitPromptStep ==
  ASSUME TInv, StoresKept, NEW w \in Worker, emitPrompt(w)
  PROVE  Sound
<1>1. wk[w].pc = "prompt" /\ UNCHANGED runVars /\ answer' = answer /\ faults' \in 0..MaxFaults
  BY FaultType, Zenon DEF emitPrompt
<1>2. wk \in [Worker -> WorkerState] /\ wk[w] \in WorkerState
  BY Zenon DEF TInv, TypeOK
<1>3. CASE holdsSession(w)
  <2> DEFINE x == [wk[w] EXCEPT !.pc = "working", !.owed = FALSE]
  <2>1. /\ x \in WorkerState /\ x.pc = "working" /\ x.run = wk[w].run /\ x.token = wk[w].token
        /\ x.lease = wk[w].lease /\ x.out = wk[w].out /\ x.lost = wk[w].lost
        /\ x.owed = FALSE
    BY <1>2, ZenonT(30) DEF WorkerState
  <2>2. wk' = [wk EXCEPT ![w] = x]
    BY <1>2, <1>3, Zenon DEF emitPrompt
  <2> HIDE DEF x
  <2>3. PICK type \in {"user", "note"} : write(w, type) /\ (type = "user" => wk[w].owed)
    BY <1>3, Zenon DEF emitPrompt
  <2> QED
    BY <1>1, <1>3, <2>1, <2>2, <2>3, WriteStep, Zenon
<1>4. CASE ~holdsSession(w)
  <2>1. EndTurn(w, "throw", "error") /\ UNCHANGED sessionVars
    BY <1>4, Zenon DEF emitPrompt
  <2> QED
    BY <1>1, <2>1, NoRunCall, NoSessionCall, TurnMoves, Zenon
<1> QED
  BY <1>3, <1>4, Zenon

(* ... its reply, ...                                                      *)
LEMMA EmitReplyStep ==
  ASSUME TInv, StoresKept, NEW w \in Worker, emitReply(w)
  PROVE  Sound
<1>1. wk[w].pc = "working" /\ UNCHANGED runVars /\ answer' = answer /\ faults' \in 0..MaxFaults
  BY FaultType, Zenon DEF emitReply
<1>2. wk \in [Worker -> WorkerState] /\ wk[w] \in WorkerState
  BY Zenon DEF TInv, TypeOK
<1>3. CASE holdsSession(w)
  <2> DEFINE x == [wk[w] EXCEPT !.pc = "replied"]
  <2>1. /\ x \in WorkerState /\ x.pc = "replied" /\ x.run = wk[w].run /\ x.token = wk[w].token
        /\ x.lease = wk[w].lease /\ x.out = wk[w].out /\ x.lost = wk[w].lost
        /\ x.owed = wk[w].owed
    BY <1>2, ZenonT(30) DEF WorkerState
  <2>2. wk' = [wk EXCEPT ![w] = x] /\ write(w, "assistant")
    BY <1>2, <1>3, Zenon DEF emitReply, Goto
  <2> HIDE DEF x
  <2> QED
    BY <1>1, <1>3, <2>1, <2>2, WriteStep, Zenon
<1>4. CASE ~holdsSession(w)
  <2>1. EndTurn(w, "throw", "error") /\ UNCHANGED sessionVars
    BY <1>4, Zenon DEF emitReply
  <2> QED
    BY <1>1, <2>1, NoRunCall, NoSessionCall, TurnMoves, Zenon
<1> QED
  BY <1>3, <1>4, Zenon

(* ... or the record of its failure.                                       *)
LEMMA RecordFailureStep ==
  ASSUME TInv, StoresKept, NEW w \in Worker, recordFailure(w)
  PROVE  Sound
<1>1. wk[w].pc = "throw" /\ UNCHANGED runVars /\ answer' = answer /\ faults' \in 0..MaxFaults
  BY FaultType, Zenon DEF recordFailure
<1>2. wk \in [Worker -> WorkerState] /\ wk[w] \in WorkerState
  BY Zenon DEF TInv, TypeOK
<1>3. CASE /\ holdsSession(w) /\ wk[w].owed
           /\ write(w, "user") /\ wk' = [wk EXCEPT ![w].owed = FALSE]
  <2> DEFINE x == [wk[w] EXCEPT !.owed = FALSE]
  <2>1. /\ x \in WorkerState /\ x.pc = wk[w].pc /\ x.run = wk[w].run /\ x.token = wk[w].token
        /\ x.lease = wk[w].lease /\ x.out = wk[w].out /\ x.lost = wk[w].lost
        /\ x.owed = FALSE
    BY <1>2, Zenon DEF WorkerState
  <2>2. wk' = [wk EXCEPT ![w] = x]
    BY <1>2, <1>3, Zenon
  <2> HIDE DEF x
  <2>3. x.pc = "throw" /\ ~x.owed /\ wk[w].owed
    BY <1>1, <1>3, <2>1, Zenon
  <2> QED
    BY <1>1, <1>3, <2>1, <2>2, <2>3, WriteStep, ZenonT(30)
<1>4. CASE holdsSession(w) /\ write(w, "failure") /\ Goto(w, "unwind")
  <2> DEFINE x == [wk[w] EXCEPT !.pc = "unwind"]
  <2>1. /\ x \in WorkerState /\ x.pc = "unwind" /\ x.run = wk[w].run /\ x.token = wk[w].token
        /\ x.lease = wk[w].lease /\ x.out = wk[w].out /\ x.lost = wk[w].lost
        /\ x.owed = wk[w].owed
    BY <1>2, Zenon DEF WorkerState
  <2>2. wk' = [wk EXCEPT ![w] = x]
    BY <1>2, <1>4, Zenon DEF Goto
  <2> HIDE DEF x
  <2> QED
    BY <1>1, <1>4, <2>1, <2>2, WriteStep, Zenon
<1>5. CASE Goto(w, "unwind") /\ UNCHANGED sessionVars
  <2>1. wk[w].out \in {"none", "answered", "declined", "refused", "error", "fatal"}
    BY <1>2, Zenon DEF WorkerState
  <2> QED
    BY <1>1, <1>5, <2>1, NoRunCall, NoSessionCall, TurnMoves, Zenon
<1> QED
  BY <1>3, <1>4, <1>5, Zenon DEF recordFailure, backfills

-----------------------------------------------------------------------------
(* What is left of a worker that is done.                                  *)
LEMMA DoneState ==
  ASSUME NEW y \in WorkerState
  PROVE  /\ Done(y) \in WorkerState /\ Done(y).pc = "idle" /\ Done(y).out = "none"
         /\ Done(y).lost = 0 /\ Done(y).lease = 0 /\ Done(y).owed = FALSE
         /\ Done(y).release = y.release
         /\ y.release # "no" => Done(y).run = y.run /\ Done(y).token = y.token
<1>1. PICK run, token, stopped, release, last :
        /\ run = IF y.release = "no" THEN None ELSE y.run
        /\ token = IF y.release = "no" THEN 0 ELSE y.token
        /\ stopped = y.stopped /\ release = y.release /\ last = y.releasedLeaseToken
  BY Zenon
<1>2. Done(y) = [Idle EXCEPT !.stopped = stopped, !.release = release,
                             !.releasedLeaseToken = last, !.run = run, !.token = token]
  BY <1>1, Zenon DEF Done
<1>3. Done(y) = [pc |-> "idle", run |-> run, token |-> token, final |-> FALSE,
                 lease |-> 0, owed |-> FALSE, out |-> "none", lost |-> 0,
                 stopped |-> stopped, release |-> release, releasedLeaseToken |-> last]
  BY <1>2, Zenon DEF Idle
<1>4. /\ run \in RunId \cup {None} /\ token \in Nat /\ stopped \in BOOLEAN
      /\ release \in {"no", "beaten", "unlocked"} /\ last \in Nat
      /\ release = y.release
      /\ y.release # "no" => run = y.run /\ token = y.token
  BY <1>1, Zenon DEF WorkerState
<1>5. 0 \in 0..LostBeats
  BY TurnAssumption
<1> QED
  BY <1>3, <1>4, <1>5 DEF WorkerState

(* The worker is done with its run.                                        *)
LEMMA Finishes ==
  ASSUME TInv, StoresKept, NEW w \in Worker, [R!Next]_(R!vars), [S!SessionNext]_(S!sessionVars), LogsPersist,
         log' = log, answer' = answer, failing' = failing, claiming' = claiming,
         faults' \in 0..MaxFaults, wk[w].pc # "failing", Finish(w)
  PROVE  Sound
<1> DEFINE x == Done(wk[w])
<1>1. wk \in [Worker -> WorkerState]
  BY Zenon DEF TInv, TypeOK
<1>2. /\ x \in WorkerState /\ x.pc = "idle" /\ x.out = "none" /\ x.lost = 0
      /\ x.lease = 0 /\ ~x.owed /\ x.release = wk[w].release
      /\ wk[w].release # "no" => x.run = wk[w].run /\ x.token = wk[w].token
  BY <1>1, DoneState, Zenon
<1>3. wk' = [wk EXCEPT ![w] = x]
  BY <1>1, Zenon DEF Finish
<1> HIDE DEF x
<1>4. wk'[w] = x => Stays(w)
  BY <1>2, Zenon DEF Stays, Continues, Rests, busy
<1> QED
  BY <1>2, <1>3, <1>4, WorkerStays, Zenon

(* A run claimed after stop() is given back.                               *)
LEMMA HandBackStep ==
  ASSUME TInv, StoresKept, NEW w \in Worker, handBack(w)
  PROVE  Sound
<1>1. wk[w].pc = "handback" /\ busy(w) /\ UNCHANGED sessionVars /\ answer' = answer /\ Finish(w)
  BY Zenon DEF handBack, busy
<1>2. faults' \in 0..MaxFaults
  BY FaultType, Zenon DEF handBack
<1>3. [R!Next]_(R!vars) /\ failing' = failing /\ claiming' = claiming
  BY <1>1, TokenStep, NoRunCall, Zenon DEF handBack
<1> QED
  BY <1>1, <1>2, <1>3, NoSessionCall, Finishes, ZenonT(30)

(* What is left of a worker whose release is over.                         *)
LEMMA ReleasedState ==
  ASSUME NEW y \in WorkerState, NEW t \in Nat
  PROVE  LET x == Released(y, t) IN
         /\ x \in WorkerState /\ x.release = "no" /\ x.pc = y.pc
         /\ y.pc = "idle" => x.out = "none" /\ x.lost = 0 /\ x.lease = 0 /\ ~x.owed
         /\ y.pc # "idle" => /\ x.run = y.run /\ x.token = y.token /\ x.lease = y.lease
                             /\ x.out = y.out /\ x.lost = y.lost /\ x.owed = y.owed
<1> DEFINE x == [y EXCEPT !.release = "no", !.releasedLeaseToken = t]
<1>1. /\ x \in WorkerState /\ x.release = "no" /\ x.pc = y.pc /\ x.run = y.run
      /\ x.token = y.token /\ x.lease = y.lease /\ x.out = y.out /\ x.lost = y.lost
      /\ x.owed = y.owed
  BY Zenon DEF WorkerState
<1>2. Released(y, t) = IF y.pc = "idle" THEN Done(x) ELSE x
  BY Zenon DEF Released
<1> HIDE DEF x
<1>3. CASE y.pc = "idle"
  <2>1. /\ Done(x) \in WorkerState /\ Done(x).pc = "idle" /\ Done(x).out = "none"
        /\ Done(x).lost = 0 /\ Done(x).lease = 0 /\ Done(x).owed = FALSE
        /\ Done(x).release = "no"
    BY <1>1, DoneState, Zenon
  <2>2. Released(y, t) = Done(x)
    BY <1>2, <1>3, Zenon
  <2> QED
    BY <1>3, <2>1, <2>2, Zenon
<1>4. CASE y.pc # "idle"
  BY <1>1, <1>2, <1>4, ZenonT(30)
<1> QED
  BY <1>3, <1>4, Zenon

(* The end of releaseInFlight leaves the turn, if there is one, as it was. *)
LEMMA Releases ==
  ASSUME TInv, StoresKept, NEW w \in Worker, [R!Next]_(R!vars), UNCHANGED sessionVars,
         answer' = answer, failing' = failing, claiming' = claiming,
         faults' \in 0..MaxFaults, wk[w].release # "no",
         NEW t \in Nat, wk' = [wk EXCEPT ![w] = Released(@, t)]
  PROVE  Sound
<1> DEFINE x == Released(wk[w], t)
<1>1. wk \in [Worker -> WorkerState] /\ wk[w] \in WorkerState
  BY Zenon DEF TInv, TypeOK
<1>2. /\ x \in WorkerState /\ x.release = "no" /\ x.pc = wk[w].pc
      /\ wk[w].pc = "idle" => x.out = "none" /\ x.lost = 0 /\ x.lease = 0 /\ ~x.owed
      /\ wk[w].pc # "idle" => /\ x.run = wk[w].run /\ x.token = wk[w].token
                              /\ x.lease = wk[w].lease /\ x.out = wk[w].out
                              /\ x.lost = wk[w].lost /\ x.owed = wk[w].owed
  BY <1>1, ReleasedState, ZenonT(30)
<1>3. wk' = [wk EXCEPT ![w] = x]
  BY <1>1, Zenon
<1> HIDE DEF x
<1>4. ASSUME wk'[w] = x PROVE Stays(w)
  <2>1. Continues(w)
    BY <1>2, <1>4, Zenon DEF Continues, busy
  <2>2. Rests(w)
    BY <1>2, <1>4, ZenonT(30) DEF Rests, TInv, IdleClean
  <2> QED
    BY <1>2, <1>4, <2>1, <2>2, ZenonT(30) DEF Stays
<1> QED
  BY <1>2, <1>3, <1>4, NoSessionCall, WorkerStays, Zenon

(* Handing back the run of an interrupted turn.                            *)
LEMMA ReleaseRunStep ==
  ASSUME TInv, StoresKept, NEW w \in Worker, releaseRun(w)
  PROVE  Sound
<1>1. /\ busy(w) /\ wk[w].release # "no" /\ UNCHANGED sessionVars /\ answer' = answer
      /\ wk' = [wk EXCEPT ![w] = Released(@, wk[w].token)]
  BY Zenon DEF releaseRun, busy
<1>2. wk[w].token \in Nat /\ faults' \in 0..MaxFaults
  BY FaultType, Zenon DEF releaseRun, TInv, TypeOK, WorkerState
<1>3. [R!Next]_(R!vars) /\ failing' = failing /\ claiming' = claiming
  BY <1>1, TokenStep, NoRunCall, Zenon DEF releaseRun
<1> QED
  BY <1>1, <1>2, <1>3, Releases, Zenon

-----------------------------------------------------------------------------
(* A worker with a new claim, or a new lease, beside workers that keep     *)
(* theirs.                                                                 *)
LEMMA NewClaim ==
  ASSUME TInv, RowsPersist, LogsPersist, R!IInv', S!SessionIInv', NEW w \in Worker,
         \A v \in Worker : v # w => Continues(v),
         wk'[w].run \in RunId, runs'[wk'[w].run].status # "absent",
         wk'[w].token \in 1..runs'[wk'[w].run].attempts,
         wk'[w].lease <= issued'[thread(w)'],
         wk'[w].lost > 0 => ~R!Holds(wk[w].run, wk[w].token)',
         \A v \in Worker : v # w /\ busy(v)' =>
           /\ wk'[v].run = wk'[w].run => wk'[v].token # wk'[w].token
           /\ thread(v)' = thread(w)' => wk'[v].lease = 0 \/ wk'[v].lease # wk'[w].lease
  PROVE  ClaimKnown' /\ ClaimsApart' /\ LostIsLost'
<1>1. ASSUME NEW v \in Worker, v # w, busy(v)'
      PROVE  /\ busy(v) /\ wk'[v].run = wk[v].run /\ wk'[v].token = wk[v].token
             /\ thread(v)' = thread(v) /\ runs'[wk[v].run].status # "absent"
             /\ wk[v].token \in 1..runs'[wk[v].run].attempts
             /\ wk'[v].lease \in {0, wk[v].lease} /\ wk'[v].lease <= issued'[thread(v)]
             /\ wk[v].run \in RunId /\ wk[v].token \in 1..runs[wk[v].run].attempts
  BY <1>1, KeptClaim, KnownFields, Zenon
<1>2. ClaimKnown'
  <2> SUFFICES ASSUME NEW v \in Worker, busy(v)'
               PROVE  /\ wk'[v].run \in RunId /\ runs'[wk'[v].run].status # "absent"
                      /\ wk'[v].token \in 1..runs'[wk'[v].run].attempts
                      /\ wk'[v].lease <= issued'[thread(v)']
    BY Zenon DEF ClaimKnown
  <2> QED
    BY <1>1, Zenon
<1>3. ClaimsApart'
  <2> SUFFICES ASSUME NEW u \in Worker, NEW v \in Worker, u # v, busy(u)', busy(v)'
               PROVE  /\ wk'[u].run = wk'[v].run => wk'[u].token # wk'[v].token
                      /\ thread(u)' = thread(v)' /\ wk'[u].lease # 0 =>
                           wk'[u].lease # wk'[v].lease
    BY Zenon DEF ClaimsApart
  <2>1. CASE u = w \/ v = w
    BY <2>1, Zenon
  <2>2. CASE u # w /\ v # w
    <3>1. /\ busy(u) /\ wk'[u].run = wk[u].run /\ wk'[u].token = wk[u].token
          /\ thread(u)' = thread(u) /\ wk'[u].lease \in {0, wk[u].lease}
      BY <1>1, <2>2, Zenon
    <3>2. /\ busy(v) /\ wk'[v].run = wk[v].run /\ wk'[v].token = wk[v].token
          /\ thread(v)' = thread(v) /\ wk'[v].lease \in {0, wk[v].lease}
      BY <1>1, <2>2, Zenon
    <3>3. /\ wk[u].run = wk[v].run => wk[u].token # wk[v].token
          /\ thread(u) = thread(v) /\ wk[u].lease # 0 => wk[u].lease # wk[v].lease
      BY <3>1, <3>2, Zenon DEF TInv, ClaimsApart
    <3> QED
      BY <3>1, <3>2, <3>3, Zenon
  <2> QED
    BY <2>1, <2>2, Zenon
<1>4. LostIsLost'
  <2> SUFFICES ASSUME NEW v \in Worker, wk'[v].pc # "idle", wk'[v].lost > 0
               PROVE  ~R!Holds(wk[v].run, wk[v].token)'
    BY Zenon DEF LostIsLost
  <2>1. CASE v = w
    BY <2>1, Zenon
  <2>2. CASE v # w
    <3>1. busy(v)' /\ Continues(v)
      BY <2>2, Zenon DEF busy
    <3>2. /\ wk'[v].run = wk[v].run /\ wk'[v].token = wk[v].token
          /\ wk[v].run \in RunId /\ wk[v].token \in 1..runs[wk[v].run].attempts
      BY <1>1, <2>2, <3>1, Zenon
    <3>3. ~R!Holds(wk[v].run, wk[v].token)
      BY <3>1, Zenon DEF Continues, TInv, LostIsLost
    <3>4. R!RowPersists(wk[v].run)
      BY <3>2, Zenon DEF RowsPersist
    <3> QED
      BY <3>2, <3>3, <3>4, Zenon DEF R!RowPersists, R!Holds
  <2> QED
    BY <2>1, <2>2, Zenon
<1> QED
  BY <1>2, <1>3, <1>4, Zenon

(* A claim statement locks its row ...                                     *)
LEMMA ClaimStep ==
  ASSUME TInv, StoresKept, NEW w \in Worker, claim(w)
  PROVE  Sound
<1>1. wk[w].pc = "idle" /\ UNCHANGED sessionVars /\ wk' = wk /\ answer' = answer
  BY Zenon DEF claim
<1>2. faults' \in 0..MaxFaults
  BY FaultType, Zenon DEF claim
<1>3. R!Next
  BY Zenon DEF claim, R!Next
<1>4. PICK r \in RunId : /\ runs[r].attempts < ClaimBound
                         /\ claiming' = [claiming EXCEPT ![w] = r]
  BY Zenon DEF claim, R!claim, R!claimById, R!Claimable
<1>5. failing' = failing /\ runs' = runs
  BY Zenon DEF claim, R!claim, R!claimById
<1>6. [S!SessionNext]_(S!sessionVars) /\ LogsPersist /\ log' = log
  BY <1>1, NoSessionCall, Zenon
<1>7. R!IInv' /\ S!SessionIInv' /\ RowsPersist
  BY <1>3, <1>6, StoresStep, Zenon
<1>8. \A v \in Worker : Continues(v)
  BY <1>1, Zenon DEF Continues, busy
<1>9. TypeOK'
  BY <1>1, <1>2, <1>7, StoreTypesNext, Zenon DEF TypeOK, TInv
<1>10. ClaimKnown' /\ ClaimsApart' /\ LostIsLost' /\ ClaimsBounded'
  BY <1>6, <1>7, <1>8, KeptClaims, KeptBounds, Zenon
<1>11. IdleClean'
  BY <1>1, <1>4, <1>5, Zenon DEF TInv, IdleClean, R!IInv, R!TypeOK
<1>12. FailuresOwned'
  BY <1>1, <1>5, KeptFailures, Zenon
<1>13. ReplyWritten' /\ AnswerInTranscript'
  BY <1>1, <1>6, <1>7, KeptReplies, Zenon
<1>14. HasLast' /\ OwedIsMissing' /\ RetryDoesNotRepeat'
  <2>1. \A v \in Worker : wk'[v].owed => wk[v].owed /\ wk'[v].pc # "idle"
    BY <1>1, Zenon DEF TInv, IdleClean
  <2> QED
    BY <1>6, <1>7, <1>8, <2>1, KeptTranscript, Zenon
<1> QED
  BY <1>3, <1>6, <1>7, <1>9, <1>10, <1>11, <1>12, <1>13, <1>14, Zenon DEF TInv, Sound

(* ... and returns nothing, ...                                            *)
LEMMA ClaimedNothing ==
  ASSUME TInv, StoresKept, NEW w \in Worker, claimed(w), runs' = runs
  PROVE  Sound
<1>1. UNCHANGED sessionVars /\ wk' = wk /\ answer' = answer /\ faults' \in 0..MaxFaults
  BY FaultType, Zenon DEF claimed
<1>2. R!Next /\ failing' = failing /\ claiming' = [claiming EXCEPT ![w] = None]
  BY Zenon DEF claimed, R!leaseClaimed, R!Next
<1>3. \A v \in Worker : claiming'[v] \in {None, claiming[v]}
  BY <1>2, Zenon DEF TInv, R!IInv, R!TypeOK
<1>4. \A v \in Worker : Stays(v)
  BY <1>1, <1>3, Bystander, Zenon
<1>5. wk' \in [Worker -> WorkerState]
  BY <1>1, Zenon DEF TInv, TypeOK
<1> QED
  BY <1>1, <1>2, <1>4, <1>5, NoSessionCall, PlainStep, Zenon

(* ... or the run under a token that nobody has had.                       *)
LEMMA ClaimedStep ==
  ASSUME TInv, StoresKept, NEW w \in Worker, claimed(w)
  PROVE  Sound
<1> SUFFICES ASSUME runs' # runs PROVE Sound
  BY ClaimedNothing, Zenon
<1>1. UNCHANGED sessionVars /\ answer' = answer /\ faults' \in 0..MaxFaults
  BY FaultType, Zenon DEF claimed
<1>2. /\ R!Next /\ failing' = failing /\ claiming' = [claiming EXCEPT ![w] = None]
      /\ claiming[w] # None /\ runs' = [runs EXCEPT ![claiming[w]] = R!lease(@)]
  BY Zenon DEF claimed, R!leaseClaimed, R!Next
<1>3. PICK r \in RunId : r = claiming[w]
  BY <1>2, Zenon DEF TInv, R!IInv, R!TypeOK
<1>4. /\ claiming'[w] = None /\ \A v \in Worker : v # w => claiming'[v] = claiming[v]
      /\ runs \in [RunId -> R!Run] /\ runs[r] \in R!Run
      /\ wk \in [Worker -> WorkerState] /\ wk[w] \in WorkerState
  BY <1>2, Zenon DEF TInv, R!IInv, R!TypeOK, TypeOK
<1>5. /\ wk[w].pc = "idle" /\ wk[w].out = "none" /\ wk[w].lost = 0 /\ wk[w].lease = 0
      /\ ~wk[w].owed
  BY <1>2, Zenon DEF TInv, IdleClean
<1>6. runs'[r] = R!lease(runs[r])
  BY <1>2, <1>3, <1>4, Zenon
<1>7. /\ runs[r].attempts \in Nat /\ runs'[r].attempts = runs[r].attempts + 1
      /\ runs'[r].leaseToken = runs[r].attempts + 1 /\ runs'[r].status = "running"
      /\ runs'[r].sessionId = runs[r].sessionId /\ runs[r].sessionId \in Session
  BY <1>4, <1>6, Zenon DEF R!lease, R!Run
<1>8. PICK pc \in {"handback", "turn"}, final \in BOOLEAN, t \in Nat :
        /\ t = runs[r].attempts + 1
        /\ wk' = [wk EXCEPT ![w] =
             [@ EXCEPT !.pc = pc, !.run = r, !.token = t, !.final = final]]
  <2>1. errorParks(runs'[r]) \in BOOLEAN
    BY Zenon DEF errorParks
  <2>2. runs[r].attempts + 1 \in Nat
    BY <1>7
  <2> QED
    BY <1>3, <1>7, <2>1, <2>2, Zenon DEF claimed
<1> DEFINE x == [wk[w] EXCEPT !.pc = pc, !.run = r, !.token = t, !.final = final]
<1>9. /\ x \in WorkerState /\ x.pc = pc /\ x.run = r /\ x.token = t /\ x.out = "none"
      /\ x.lost = 0 /\ x.lease = 0 /\ x.owed = wk[w].owed
  BY <1>4, <1>5, Zenon DEF WorkerState
<1>10. wk' = [wk EXCEPT ![w] = x]
  BY <1>4, <1>8, Zenon
<1> HIDE DEF x
<1>11. /\ wk' \in [Worker -> WorkerState] /\ wk'[w] = x
       /\ \A v \in Worker : v # w => wk'[v] = wk[v]
  BY <1>4, <1>9, <1>10, Zenon
<1>12. [S!SessionNext]_(S!sessionVars) /\ LogsPersist /\ log' = log /\ issued' = issued
  BY <1>1, NoSessionCall, Zenon DEF sessionVars
<1>13. R!IInv' /\ S!SessionIInv' /\ RowsPersist
  BY <1>2, <1>12, StoresStep, Zenon
<1>14. \A v \in Worker : v # w => Stays(v)
  BY <1>4, <1>11, Bystander, Zenon
<1>15. Rests(w) /\ wk'[w].pc \notin {"idle", "replied", "failing"} /\ wk'[w].out = "none"
       /\ ~wk'[w].owed
  BY <1>4, <1>5, <1>9, <1>11, Zenon DEF Rests
<1>16. TypeOK'
  BY <1>1, <1>11, <1>13, StoreTypesNext, Zenon DEF TypeOK, TInv
<1>17. ClaimKnown' /\ ClaimsApart' /\ LostIsLost'
  <2>1. \A v \in Worker : v # w => Continues(v)
    BY <1>14, Zenon DEF Stays
  <2>2. wk'[w].token \in 1..runs'[wk'[w].run].attempts
    BY <1>7, <1>8, <1>9, <1>11
  <2>3. thread(w)' \in Session
    BY <1>7, <1>9, <1>11, Zenon DEF thread
  <2>4. wk'[w].lease <= issued'[thread(w)']
    BY <1>9, <1>11, <1>12, <2>3, SessionFields
  <2>5. ASSUME NEW v \in Worker, v # w, busy(v)', wk'[v].run = wk'[w].run
        PROVE  wk'[v].token # wk'[w].token
    <3>1. busy(v) /\ wk[v].run = r /\ wk'[v].token = wk[v].token
      BY <1>9, <1>11, <2>5, Zenon DEF busy
    <3>2. wk[v].token \in 1..runs[r].attempts
      BY <3>1, KnownFields, Zenon
    <3> QED
      BY <1>7, <1>8, <1>9, <1>11, <3>1, <3>2
  <2>6. ASSUME NEW v \in Worker
        PROVE  wk'[v].lease = 0 \/ wk'[v].lease # wk'[w].lease
    BY <1>9, <1>11, Zenon
  <2> QED
    BY <1>7, <1>9, <1>11, <1>12, <1>13, <2>1, <2>2, <2>4, <2>5, <2>6, NewClaim
<1>18. IdleClean' /\ ClaimsBounded'
  BY <1>13, <1>14, <1>15, KeptLocks, KeptBounds, Zenon DEF Stays
<1>19. FailuresOwned'
  BY <1>2, <1>5, <1>11, <1>15, KeptFailures, Zenon
<1>20. ReplyWritten' /\ AnswerInTranscript'
  BY <1>1, <1>11, <1>12, <1>13, <1>15, KeptReplies, Zenon
<1>21. HasLast' /\ OwedIsMissing' /\ RetryDoesNotRepeat'
  <2>1. \A v \in Worker : wk'[v].owed => Continues(v) /\ wk[v].owed /\ wk'[v].pc # "idle"
    BY <1>11, <1>14, <1>15, Zenon DEF Stays, Rests
  <2> QED
    BY <1>12, <1>13, <2>1, KeptTranscript, Zenon
<1> QED
  BY <1>2, <1>12, <1>13, <1>16, <1>17, <1>18, <1>19, <1>20, <1>21, Zenon DEF TInv, Sound

-----------------------------------------------------------------------------
(* The turn takes the session lease under a number that nobody has had, or *)
(* is told that the session is busy.                                       *)
LEMMA AcquireStep ==
  ASSUME TInv, StoresKept, NEW w \in Worker, acquire(w)
  PROVE  Sound
<1>1. wk[w].pc = "turn" /\ busy(w) /\ UNCHANGED runVars /\ answer' = answer
  BY Zenon DEF acquire, busy
<1>2. faults' \in 0..MaxFaults
  BY FaultType, Zenon DEF acquire
<1>3. [R!Next]_(R!vars) /\ failing' = failing /\ claiming' = claiming /\ runs' = runs
  BY <1>1, NoRunCall, Zenon DEF runVars
<1>4. CASE EndTurn(w, "report", "refused") /\ UNCHANGED sessionVars
  BY <1>1, <1>2, <1>3, <1>4, NoSessionCall, TurnMoves, Zenon
<1>5. CASE /\ S!acquireLease(thread(w))
           /\ wk' = [wk EXCEPT ![w].pc = "leased", ![w].lease = issued'[thread(w)]]
  <2>1. PICK s \in Session, n \in Nat : s = thread(w) /\ n = issued[s] + 1
    BY <1>1, KnownFields
  <2>2. S!acquireLease(s) /\ issued' = [issued EXCEPT ![s] = @ + 1]
    BY <1>5, <2>1, Zenon DEF S!acquireLease
  <2>3. [S!SessionNext]_(S!sessionVars) /\ LogsPersist /\ log' = log
    BY <2>2, LeaseCall, Zenon
  <2>4. issued'[s] = n /\ issued[s] \in Nat
    BY <2>1, <2>2, SessionFields, Zenon DEF TInv, S!SessionIInv, S!SessionTypeOK
  <2>5. R!IInv' /\ S!SessionIInv' /\ RowsPersist
    BY <1>3, <2>3, StoresStep, Zenon
  <2> DEFINE x == [wk[w] EXCEPT !.pc = "leased", !.lease = n]
  <2>6. wk \in [Worker -> WorkerState] /\ wk[w] \in WorkerState
    BY Zenon DEF TInv, TypeOK
  <2>7. /\ x \in WorkerState /\ x.pc = "leased" /\ x.lease = n /\ x.run = wk[w].run
        /\ x.token = wk[w].token /\ x.out = wk[w].out /\ x.lost = wk[w].lost
        /\ x.owed = wk[w].owed
    BY <2>6, Zenon DEF WorkerState
  <2>8. wk' = [wk EXCEPT ![w] = x]
    BY <1>5, <2>1, <2>4, <2>6, Zenon
  <2> HIDE DEF x
  <2>9. /\ wk' \in [Worker -> WorkerState] /\ wk'[w] = x
        /\ \A v \in Worker : v # w => wk'[v] = wk[v]
    BY <2>6, <2>7, <2>8, Zenon
  <2>10. \A v \in Worker : v # w => Stays(v)
    BY <1>3, <2>9, Bystander, Zenon
  <2>11. claiming[w] = None /\ ~wk[w].owed
    BY <1>1, Zenon DEF TInv, IdleClean
  <2>12. Rests(w) /\ wk'[w].pc \notin {"idle", "replied", "failing"} /\ ~wk'[w].owed
    BY <1>3, <2>7, <2>9, <2>11, Zenon DEF Rests
  <2>13. TypeOK'
    BY <1>1, <1>2, <2>5, <2>9, StoreTypesNext, Zenon DEF TypeOK, TInv
  <2>14. ClaimKnown' /\ ClaimsApart' /\ LostIsLost'
    <3>1. \A v \in Worker : v # w => Continues(v)
      BY <2>10, Zenon DEF Stays
    <3>2. /\ wk'[w].run \in RunId /\ runs'[wk'[w].run].status # "absent"
          /\ wk'[w].token \in 1..runs'[wk'[w].run].attempts
      BY <1>1, <1>3, <2>7, <2>9, KnownFields, Zenon
    <3>3. thread(w)' = s
      BY <1>3, <2>1, <2>7, <2>9, Zenon DEF thread
    <3>4. wk'[w].lease = n /\ wk'[w].lease <= issued'[thread(w)']
      BY <2>4, <2>7, <2>9, <3>3
    <3>5. wk'[w].lost > 0 => ~R!Holds(wk[w].run, wk[w].token)'
      BY <1>1, <1>3, <2>7, <2>9, Zenon DEF TInv, LostIsLost, R!Holds
    <3>6. ASSUME NEW v \in Worker, v # w, busy(v)'
          PROVE  /\ wk'[v].run = wk'[w].run => wk'[v].token # wk'[w].token
                 /\ thread(v)' = thread(w)' => wk'[v].lease = 0 \/ wk'[v].lease # wk'[w].lease
      <4>1. busy(v) /\ wk'[v] = wk[v] /\ thread(v)' = thread(v)
        BY <1>3, <2>9, <3>6, Zenon DEF busy, thread
      <4>2. wk[v].run = wk[w].run => wk[v].token # wk[w].token
        BY <1>1, <3>6, <4>1, Zenon DEF TInv, ClaimsApart
      <4>3. wk[v].lease \in Nat /\ wk[v].lease <= issued[thread(v)]
        BY <4>1, KnownFields, Zenon
      <4>4. thread(v)' = thread(w)' => wk[v].lease # n
        BY <2>1, <2>4, <3>3, <4>1, <4>3
      <4> QED
        BY <2>7, <2>9, <3>4, <4>1, <4>2, <4>4, Zenon
    <3> QED
      BY <2>3, <2>5, <3>1, <3>2, <3>4, <3>5, <3>6, NewClaim, Zenon
  <2>15. IdleClean' /\ ClaimsBounded'
    BY <2>5, <2>10, <2>12, KeptLocks, KeptBounds, Zenon DEF Stays
  <2>16. FailuresOwned'
    BY <1>1, <1>3, <2>9, <2>12, KeptFailures, Zenon
  <2>17. ReplyWritten' /\ AnswerInTranscript'
    BY <1>1, <2>3, <2>5, <2>7, <2>9, <2>12, KeptReplies, Zenon
  <2>18. HasLast' /\ OwedIsMissing' /\ RetryDoesNotRepeat'
    <3>1. \A v \in Worker : wk'[v].owed => Continues(v) /\ wk[v].owed /\ wk'[v].pc # "idle"
      BY <2>9, <2>10, <2>12, Zenon DEF Stays, Rests
    <3> QED
      BY <2>3, <2>5, <3>1, KeptTranscript, Zenon
  <2> QED
    BY <1>3, <2>3, <2>5, <2>13, <2>14, <2>15, <2>16, <2>17, <2>18, Zenon DEF TInv, Sound
<1> QED
  BY <1>4, <1>5, Zenon DEF acquire

(* It reads the transcript, and owes its request unless a retry finds it   *)
(* there.                                                                  *)
LEMMA ReadHistoryStep ==
  ASSUME TInv, StoresKept, NEW w \in Worker, readHistory(w)
  PROVE  Sound
<1>1. /\ wk[w].pc = "leased" /\ busy(w) /\ UNCHANGED runVars /\ UNCHANGED sessionVars
      /\ answer' = answer
  BY Zenon DEF readHistory, busy
<1>2. faults' \in 0..MaxFaults
  BY FaultType, Zenon DEF readHistory
<1>3. [R!Next]_(R!vars) /\ failing' = failing /\ claiming' = claiming /\ runs' = runs
  BY <1>1, NoRunCall, Zenon DEF runVars
<1>4. [S!SessionNext]_(S!sessionVars) /\ LogsPersist /\ log' = log
  BY <1>1, NoSessionCall, Zenon
<1>5. PICK owed \in BOOLEAN :
        /\ owed = ~(wk[w].token > 1 /\ findTrailingPartialTurn(thread(w), wk[w].run))
        /\ wk' = [wk EXCEPT ![w].pc = "prompt", ![w].owed = owed]
  BY Zenon DEF readHistory
<1> DEFINE x == [wk[w] EXCEPT !.pc = "prompt", !.owed = owed]
<1>6. wk \in [Worker -> WorkerState] /\ wk[w] \in WorkerState
  BY Zenon DEF TInv, TypeOK
<1>7. /\ x \in WorkerState /\ x.pc = "prompt" /\ x.lease = wk[w].lease /\ x.run = wk[w].run
      /\ x.token = wk[w].token /\ x.out = wk[w].out /\ x.lost = wk[w].lost
      /\ x.owed = owed
  BY <1>6, Zenon DEF WorkerState
<1>8. wk' = [wk EXCEPT ![w] = x]
  BY <1>5, <1>6, Zenon
<1> HIDE DEF x
<1>9. /\ wk' \in [Worker -> WorkerState] /\ wk'[w] = x
      /\ \A v \in Worker : v # w => wk'[v] = wk[v]
  BY <1>6, <1>7, <1>8, Zenon
<1>10. \A v \in Worker : v # w => Stays(v)
  BY <1>3, <1>9, Bystander, Zenon
<1>11. claiming[w] = None
  BY <1>1, Zenon DEF TInv, IdleClean
<1>12. Continues(w) /\ Rests(w) /\ wk'[w].pc \notin {"idle", "replied", "failing"}
  BY <1>1, <1>3, <1>7, <1>9, <1>11, Zenon DEF Continues, Rests, busy
<1>13. \A v \in Worker : Continues(v) /\ Rests(v)
  BY <1>10, <1>12, Zenon DEF Stays
<1>14. R!IInv' /\ S!SessionIInv' /\ RowsPersist
  BY <1>3, <1>4, StoresStep, Zenon
<1>15. TypeOK'
  BY <1>1, <1>2, <1>9, <1>14, StoreTypesNext, Zenon DEF TypeOK, TInv
<1>16. ClaimKnown' /\ ClaimsApart' /\ LostIsLost' /\ IdleClean' /\ ClaimsBounded'
  BY <1>4, <1>13, <1>14, KeptClaims, KeptLocks, KeptBounds, Zenon
<1>17. FailuresOwned'
  BY <1>1, <1>3, <1>9, <1>12, KeptFailures, Zenon
<1>18. ReplyWritten' /\ AnswerInTranscript'
  BY <1>1, <1>4, <1>7, <1>9, <1>12, <1>14, KeptReplies, Zenon
<1>19. HasLast' /\ RetryDoesNotRepeat'
  BY <1>4, SameTranscript, Zenon DEF TInv
<1>20. ASSUME NEW v \in Worker, wk'[v].owed, holdsSession(v)', wk'[v].token > 1
       PROVE  ~findTrailingPartialTurn(thread(v), wk[v].run)'
  <2>1. CASE v = w
    <3>1. ~findTrailingPartialTurn(thread(w), wk[w].run)
      BY <1>5, <1>7, <1>9, <1>20, <2>1, Zenon
    <3>2. thread(w)' = thread(w) /\ wk'[w].run = wk[w].run
      BY <1>3, <1>7, <1>9, Zenon DEF thread
    <3> QED
      BY <1>4, <2>1, <3>1, <3>2 DEF findTrailingPartialTurn
  <2>2. CASE v # w
    <3>1. Continues(v) /\ wk[v].owed /\ wk'[v].pc # "idle"
      BY <1>9, <1>10, <1>20, <2>2, Zenon DEF Stays, Rests
    <3> QED
      BY <1>4, <1>14, <1>20, <3>1, KeptOwed, Zenon
  <2> QED
    BY <2>1, <2>2, Zenon
<1>21. OwedIsMissing'
  BY <1>20, Zenon DEF OwedIsMissing
<1> QED
  BY <1>3, <1>4, <1>14, <1>15, <1>16, <1>17, <1>18, <1>19, <1>21, Zenon DEF TInv, Sound

-----------------------------------------------------------------------------
(* The steps beside the turn: what a timer or a drain notes about it.      *)
LEMMA Notes ==
  ASSUME TInv, StoresKept, NEW w \in Worker, [R!Next]_(R!vars), [S!SessionNext]_(S!sessionVars), LogsPersist,
         log' = log, answer' = answer, failing' = failing, claiming' = claiming,
         faults' \in 0..MaxFaults,
         NEW x \in WorkerState, wk' = [wk EXCEPT ![w] = x],
         /\ x.pc = wk[w].pc /\ x.run = wk[w].run /\ x.token = wk[w].token
         /\ x.lease = wk[w].lease /\ x.out = wk[w].out /\ x.owed = wk[w].owed,
         x.release # "no" => busy(w),
         \/ x.lost = wk[w].lost
         \/ /\ wk[w].pc # "idle"
            /\ x.lost = 0 \/ ~R!Holds(wk[w].run, wk[w].token)
  PROVE  Sound
<1>1. wk'[w] = x => Stays(w)
  <2> SUFFICES ASSUME wk'[w] = x PROVE Stays(w)
    BY Zenon
  <2>1. Continues(w)
    BY DEF Continues, busy
  <2>2. Rests(w)
    BY ZenonT(30) DEF Rests, TInv, IdleClean
  <2> QED
    BY <2>1, <2>2, Zenon DEF Stays
<1> QED
  BY <1>1, WorkerStays, Zenon

(* Alive is what Holds comes to for a claim that was issued.               *)
LEMMA AliveHolds ==
  ASSUME TInv, NEW w \in Worker, busy(w)
  PROVE  Alive(w) <=> R!Holds(wk[w].run, wk[w].token)
<1>1. wk[w].run \in RunId
  BY KnownFields, Zenon
<1> QED
  BY <1>1, Zenon DEF Alive, R!Holds, TInv, R!IInv, R!RowsOK, R!LeaseIffRunning

(* A heartbeat counts as lost only if the lease is gone.                   *)
LEMMA BeatStep ==
  ASSUME TInv, StoresKept, NEW w \in Worker, beat(w)
  PROVE  Sound
<1>1. /\ busy(w) /\ wk[w].pc # "idle" /\ wk[w].lost < LostBeats
      /\ UNCHANGED sessionVars /\ answer' = answer
  BY TurnAssumption DEF beat, beating, busy, cancelled, TInv, TypeOK, WorkerState
<1>2. faults' \in 0..MaxFaults
  BY FaultType, Zenon DEF beat
<1>3. [R!Next]_(R!vars) /\ failing' = failing /\ claiming' = claiming
  BY <1>1, TokenStep, NoRunCall, Zenon DEF beat
<1>4. PICK n \in 0..LostBeats : /\ wk' = [wk EXCEPT ![w].lost = n]
                                /\ n = 0 \/ ~R!Holds(wk[w].run, wk[w].token)
  <2>1. wk[w].lost + 1 \in 0..LostBeats /\ 0 \in 0..LostBeats
    BY <1>1, TurnAssumption DEF TInv, TypeOK, WorkerState
  <2> QED
    BY <1>1, <2>1, AliveHolds, Zenon DEF beat
<1> DEFINE x == [wk[w] EXCEPT !.lost = n]
<1>5. wk \in [Worker -> WorkerState]
  BY Zenon DEF TInv, TypeOK
<1>6. /\ x \in WorkerState /\ x.pc = wk[w].pc /\ x.run = wk[w].run /\ x.token = wk[w].token
      /\ x.lease = wk[w].lease /\ x.out = wk[w].out /\ x.owed = wk[w].owed /\ x.lost = n
  BY <1>5 DEF WorkerState
<1>7. wk' = [wk EXCEPT ![w] = x]
  BY <1>4, <1>5, Zenon
<1> HIDE DEF x
<1> QED
  BY <1>1, <1>2, <1>3, <1>4, <1>6, <1>7, NoSessionCall, Notes, Zenon

(* Stopping, and the first two statements of releaseInFlight.              *)
LEMMA DrainStep ==
  ASSUME TInv, StoresKept, NEW w \in Worker, stop(w) \/ releaseBeat(w) \/ releaseSession(w)
  PROVE  Sound
<1>1. wk \in [Worker -> WorkerState] /\ wk[w] \in WorkerState
  BY Zenon DEF TInv, TypeOK
<1>2. faults' \in 0..MaxFaults /\ answer' = answer
  BY FaultType, Zenon DEF stop, releaseBeat, releaseSession
<1>3. releaseBeat(w) \/ releaseSession(w) => busy(w)
  BY Zenon DEF releaseBeat, releaseSession, inFlight, busy
<1>4. [R!Next]_(R!vars) /\ failing' = failing /\ claiming' = claiming
  BY <1>3, TokenStep, NoRunCall, Zenon DEF stop, releaseBeat, releaseSession
<1>5. [S!SessionNext]_(S!sessionVars) /\ LogsPersist /\ log' = log
  BY <1>3, KnownFields, LeaseCall, NoSessionCall, Zenon DEF stop, releaseBeat, releaseSession
<1>6. CASE stop(w)
  <2> DEFINE x == [wk[w] EXCEPT !.stopped = TRUE]
  <2>1. /\ x \in WorkerState /\ x.pc = wk[w].pc /\ x.run = wk[w].run /\ x.token = wk[w].token
        /\ x.lease = wk[w].lease /\ x.out = wk[w].out /\ x.owed = wk[w].owed
        /\ x.lost = wk[w].lost /\ x.release = wk[w].release
    BY <1>1, Zenon DEF WorkerState
  <2>2. wk' = [wk EXCEPT ![w] = x]
    BY <1>1, <1>6, Zenon DEF stop
  <2> HIDE DEF x
  <2>3. x.release # "no" => busy(w)
    BY <2>1, Zenon DEF busy
  <2> QED
    BY <1>2, <1>4, <1>5, <2>1, <2>2, <2>3, Notes, Zenon
<1>7. CASE releaseSession(w) \/ (releaseBeat(w) /\ Alive(w))
  <2>1. PICK release \in {"beaten", "unlocked"} : wk' = [wk EXCEPT ![w].release = release]
    BY <1>7, Zenon DEF releaseSession, releaseBeat
  <2> DEFINE x == [wk[w] EXCEPT !.release = release]
  <2>2. /\ x \in WorkerState /\ x.pc = wk[w].pc /\ x.run = wk[w].run /\ x.token = wk[w].token
        /\ x.lease = wk[w].lease /\ x.out = wk[w].out /\ x.owed = wk[w].owed
        /\ x.lost = wk[w].lost
    BY <1>1, ZenonT(30) DEF WorkerState
  <2>3. wk' = [wk EXCEPT ![w] = x]
    BY <1>1, <2>1, Zenon
  <2> HIDE DEF x
  <2> QED
    BY <1>2, <1>3, <1>4, <1>5, <1>7, <2>2, <2>3, Notes, Zenon
<1>8. CASE releaseBeat(w) /\ ~Alive(w)
  <2> DEFINE x == [wk[w] EXCEPT !.releasedLeaseToken = wk[w].token]
  <2>1. /\ x \in WorkerState /\ x.pc = wk[w].pc /\ x.run = wk[w].run /\ x.token = wk[w].token
        /\ x.lease = wk[w].lease /\ x.out = wk[w].out /\ x.owed = wk[w].owed
        /\ x.lost = wk[w].lost
    BY <1>1, Zenon DEF WorkerState
  <2>2. wk' = [wk EXCEPT ![w] = x]
    BY <1>1, <1>8, Zenon DEF releaseBeat
  <2> HIDE DEF x
  <2> QED
    BY <1>2, <1>3, <1>4, <1>5, <1>8, <2>1, <2>2, Notes, Zenon
<1> QED
  BY <1>6, <1>7, <1>8, Zenon
=============================================================================
