------------------------- MODULE RunSignalsInvariant -------------------------
(***************************************************************************)
(* The invariant of RunSignals that its properties need and that is        *)
(* inductive, with the steps of the jobs that carry a message and of a     *)
(* turn up to its reply.                                                   *)
(*                                                                         *)
(* A message is in one place at a time (PlaceOK): with a job, in a row, in *)
(* the batch of a poll, in a run, or settled.  Most steps move one message *)
(* from a place to the next, so that what a job does with what it has      *)
(* (Proceeds, Comes) and what a turn does (TurnGoesOn) is proved once.     *)
(***************************************************************************)
EXTENDS RunSignals, TLAPS

(* A run below its last claim may be claimed again; one run of the thread  *)
(* runs at a time; what was enqueued is a run.                             *)
RunsOK ==
  /\ \A r \in Message : phase[r] \in {"absent", "pending"} => spell[r] < MaxSpells
  /\ \A r \in Message : phase[r] = "absent" => spell[r] = 0
  /\ \A r, q \in Message : phase[r] = "running" /\ phase[q] = "running" => r = q
  /\ \A i \in DOMAIN born : phase[born[i]] # "absent"

(* What a job is at, and since when it may be.                             *)
JobOK(j) ==
  /\ job[j].pc \in {"none", "take"} => job[j].todo = {}
  /\ job[j].pc \notin {"none", "take"} => job[j].msg \in Message
  /\ job[j].pc \in {"send", "check"} => job[j].to \in Message /\ phase[job[j].to] # "absent"
  /\ \A m \in Message : j = <<"turn", m>> /\ job[j].pc # "none" => kind[m] # "none"
  /\ \A r \in Message : j = <<"end", r>> /\ job[j].pc # "none" => isTerminal(r)

Leased == {"leased", "streaming", "ended", "stopping", "closing", "unwind"}

(* A turn has a run, polls only while it is prompting, and has a lease     *)
(* from the moment it was acquired.  One that nobody took for dead has its *)
(* claim and its lease still.                                              *)
TurnOK(p) ==
  /\ turn[p].pc # "idle" =>
       /\ turn[p].run \in Message /\ phase[turn[p].run] # "absent"
       /\ turn[p].spell \in 1..spell[turn[p].run]
  /\ turn[p].poll # "off" => turn[p].pc \in {"streaming", "ended", "stopping"}
  /\ turn[p].poll # "dispatching" => turn[p].batch = {}
  /\ turn[p].lease <= issued[Thread]
  /\ turn[p].pc \in Leased => turn[p].lease # 0
  /\ ~stalled => /\ turn[p].pc # "idle" => Current(p)
                 /\ turn[p].pc \in Leased => holdsSession(p)

(* No two turns have the same claim or the same lease.                     *)
Apart(p, q) ==
  /\ turn[p].lease = turn[q].lease => turn[p].lease = 0 \/ p = q
  /\ turn[p].pc # "idle" /\ turn[q].pc # "idle" /\ turn[p].run = turn[q].run
       /\ turn[p].spell = turn[q].spell => p = q

(* A row was sent to a run, after the run's own message was last sent, and *)
(* is the last that carried its message.                                   *)
RowOK(x) ==
  /\ x.id <= serial /\ sentAt[x.msg] = x.id
  /\ sentAt[x.to] < x.id /\ phase[x.to] # "absent"

TableOK ==
  /\ \A m \in Message : sentAt[m] <= serial
  /\ \A m, n \in Message : sentAt[m] = sentAt[n] => sentAt[m] = 0 \/ m = n
  /\ \A x \in signals : RowOK(x)
  /\ \A p \in Process : \A x \in turn[p].batch :
       /\ RowOK(x) /\ x.to = turn[p].run
       /\ \A y \in signals : y.to = x.to => x.id < y.id

-----------------------------------------------------------------------------
(* Where a message is: in a row, with a job, with a poll, the request of a *)
(* run, or at its end.                                                     *)
NoRow(m) == RowsOf(m) = {}
OneRow(m) == \E x : RowsOf(m) = {x}
NotAt(j, m) == ~AtHand(j, m) /\ WaitsOf(j, m) = {}
OnceAt(j, m) == \/ AtHand(j, m) /\ WaitsOf(j, m) = {}
                \/ ~AtHand(j, m) /\ \E x : WaitsOf(j, m) = {x}
NoCall(m) == \A j \in Job : NotAt(j, m)
OneCall(m) == \E j \in Job : OnceAt(j, m) /\ \A i \in Job : i # j => NotAt(i, m)
NoPoll(m) == \A p \in Process : BatchOf(p, m) = {}
OnePoll(m) == \E p \in Process : /\ \E x : BatchOf(p, m) = {x}
                                 /\ \A q \in Process : q # p => BatchOf(q, m) = {}
NoRun(m) == phase[m] = "absent"
NoEnd(m) == fate[m] = "none"

Nowhere(m) == NoRow(m) /\ NoCall(m) /\ NoPoll(m) /\ NoRun(m) /\ NoEnd(m)

Placed(m) ==
  \/ OneRow(m) /\ NoCall(m) /\ NoPoll(m) /\ NoRun(m) /\ NoEnd(m)
  \/ NoRow(m) /\ OneCall(m) /\ NoPoll(m) /\ NoRun(m) /\ NoEnd(m)
  \/ NoRow(m) /\ NoCall(m) /\ OnePoll(m) /\ NoRun(m) /\ NoEnd(m)
  \/ NoRow(m) /\ NoCall(m) /\ NoPoll(m) /\ ~NoRun(m) /\ NoEnd(m)
  \/ NoRow(m) /\ NoCall(m) /\ NoPoll(m) /\ NoRun(m) /\ ~NoEnd(m)

PlaceOK(m) == IF kind[m] = "none" THEN Nowhere(m) ELSE Placed(m)

-----------------------------------------------------------------------------
(* A message of the transcript steered a turn and has come to its end, or  *)
(* is the request of a run that has begun; its first attempt has, unless a *)
(* stalled process is about to begin it once more.                         *)
Begun(m) ==
  /\ phase[m] # "absent" /\ spell[m] > 0
  /\ \/ stalled
     \/ \A p \in Process : turn[p].pc \in {"claimed", "leased"} /\ turn[p].run = m
                             => turn[p].spell > 1

(* What a turn has recorded was sent before what it still has to.          *)
Ahead(p) ==
  \A i \in DOMAIN transcript :
    turn[p].lease # 0 /\ transcript[i].token = turn[p].lease =>
      /\ turn[p].pc # "leased"
      /\ transcript[i].record \in Message =>
           /\ \A x \in turn[p].batch : sentAt[transcript[i].record] < x.id
           /\ \A x \in signals : x.to = turn[p].run => sentAt[transcript[i].record] < x.id

RecordsOK ==
  /\ leases[Thread].token <= issued[Thread]
  /\ \A i \in DOMAIN transcript : transcript[i].token <= issued[Thread]
  /\ \A m \in Message : InTranscript(m) => fate[m] # "none" \/ Begun(m)
  /\ \A p \in Process : Ahead(p)
  /\ SteeredIsRecorded /\ RecordedInOrder /\ RepeatsOnlyWhatIsPast

SignalsIInv ==
  /\ SignalsTypeOK /\ RunsOK
  /\ \A j \in Job : JobOK(j)
  /\ \A p \in Process : TurnOK(p)
  /\ \A p, q \in Process : Apart(p, q)
  /\ TableOK
  /\ \A m \in Message : PlaceOK(m)
  /\ RecordsOK

-----------------------------------------------------------------------------
(* The constants.                                                          *)
LEMMA Given ==
  /\ SessionId = {Thread} /\ Thread \in SessionId
  /\ Message \subseteq Record /\ Reply \in Record /\ None \notin Message /\ Reply \notin Message
  /\ First \in Message /\ MaxSpells \in Nat \ {0} /\ Kinds \subseteq Kind
  /\ SessionTtl \in Nat \ {0} /\ MaxLeases \in Nat /\ MaxLog \in Nat
  BY SignalsAssumption, SessionBounds

(* The jobs there are.                                                     *)
LEMMA Jobs ==
  /\ \A m \in Message : <<"turn", m>> \in Job /\ <<"end", m>> \in Job
  /\ \A p \in Process : <<"sweep", p>> \in Job
  BY DEF Job

(* What the variables hold, field by field.                                *)
LEMMA Fields ==
  ASSUME SignalsTypeOK
  PROVE  /\ leases[Thread].token \in Nat /\ issued[Thread] \in Nat
         /\ \A m \in Message : /\ phase[m] \in Queue!Phase /\ spell[m] \in Nat
                               /\ spell[m] <= MaxSpells /\ sentAt[m] \in Nat
         /\ \A p \in Process : turn[p] \in TurnState
         /\ \A j \in Job : job[j] \in JobState
         /\ serial \in Nat
<1>1. /\ leases \in [SessionId -> Lease] /\ issued \in [SessionId -> Nat]
      /\ phase \in [Message -> Queue!Phase] /\ spell \in [Message -> 0..MaxSpells]
      /\ sentAt \in [Message -> Nat] /\ turn \in [Process -> TurnState]
      /\ job \in [Job -> JobState] /\ serial \in Nat
  BY Zenon DEF SignalsTypeOK, SessionTypeOK
<1>2. leases[Thread].token \in Nat /\ issued[Thread] \in Nat
  BY <1>1, Given DEF Lease
<1>3. ASSUME NEW m \in Message
      PROVE  phase[m] \in Queue!Phase /\ spell[m] \in Nat /\ spell[m] <= MaxSpells /\ sentAt[m] \in Nat
  BY <1>1, Given
<1> QED
  BY <1>1, <1>2, <1>3, Zenon

(* The fields of a turn.                                                   *)
LEMMA TurnFields ==
  ASSUME NEW t \in TurnState
  PROVE  /\ t.run \in Message \cup {None} /\ t.spell \in Nat /\ t.lease \in Nat
         /\ t.ok \in BOOLEAN /\ t.batch \subseteq Row
         /\ t.poll \in {"off", "quiet", "taking", "dispatching"}
  BY DEF TurnState

(* The fields of a job.                                                    *)
LEMMA JobFields ==
  ASSUME NEW x \in JobState
  PROVE  /\ x.msg \in Message \cup {None} /\ x.depth \in Nat /\ x.todo \subseteq Waiting
         /\ x.at \in Process \cup {None} /\ x.to \in Message \cup {None}
  BY DEF JobState

(* The fields of a row of run_signals.                                     *)
LEMMA RowFields ==
  ASSUME NEW x \in Row PROVE x.to \in Message /\ x.msg \in Message /\ x.id \in Nat
  BY DEF Row

(* The transcript is a sequence of writes.                                 *)
LEMMA Transcript ==
  ASSUME SignalsTypeOK
  PROVE  /\ transcript \in Seq(Write) /\ Len(transcript) \in Nat
         /\ DOMAIN transcript = 1..Len(transcript)
         /\ \A i \in DOMAIN transcript :
              transcript[i].token \in Nat /\ transcript[i].record \in Record
<1>1. transcript \in Seq(Write)
  BY Given, Zenon DEF SignalsTypeOK, SessionTypeOK, transcript
<1>2. Len(transcript) \in Nat /\ DOMAIN transcript = 1..Len(transcript)
  BY <1>1
<1>3. ASSUME NEW i \in DOMAIN transcript PROVE transcript[i] \in Write
  BY <1>1, <1>2
<1> QED
  BY <1>1, <1>2, <1>3 DEF Write

-----------------------------------------------------------------------------
(* The session store, as a turn uses it.                                   *)
LEMMA Appends ==
  ASSUME SignalsTypeOK, NEW t \in Nat, NEW m \in Record, append(Thread, t, "entry", m)
  PROVE  /\ SessionTypeOK' /\ issued' = issued /\ leases'[Thread].token = t
         /\ leases[Thread].token = t /\ t # 0
         /\ Len(transcript') = Len(transcript) + 1
         /\ \A i \in 1..Len(transcript) : transcript'[i] = transcript[i]
         /\ transcript'[Len(transcript) + 1].token = t
         /\ transcript'[Len(transcript) + 1].record = m
<1> DEFINE w == [token |-> t, kind |-> "entry", record |-> m]
<1>1. /\ leases \in [SessionId -> Lease] /\ issued \in [SessionId -> Nat]
      /\ log \in [SessionId -> Seq(Write)]
  BY Zenon DEF SignalsTypeOK, SessionTypeOK
<1>2. /\ issued' = issued /\ HoldsLease(Thread, t)
      /\ leases' = [leases EXCEPT ![Thread].expiresAt = SessionTtl]
      /\ log' = [log EXCEPT ![Thread] = Append(@, w)]
  BY Zenon DEF append
<1>3. leases' \in [SessionId -> Lease] /\ leases'[Thread].token = leases[Thread].token
  BY <1>1, <1>2, Given DEF Lease
<1>4. w \in Write
  BY DEF Write
<1>5. log[Thread] \in Seq(Write)
  BY <1>1, Given, Zenon
<1>6. log'[Thread] = Append(log[Thread], w)
  BY <1>1, <1>2, Given, Zenon
<1>7. log' \in [SessionId -> Seq(Write)]
  <2>1. Append(log[Thread], w) \in Seq(Write)
    BY <1>4, <1>5
  <2> QED
    BY <1>1, <1>2, <2>1, Given, Zenon
<1>8. /\ Len(log'[Thread]) = Len(log[Thread]) + 1
      /\ \A i \in 1..Len(log[Thread]) : log'[Thread][i] = log[Thread][i]
      /\ log'[Thread][Len(log[Thread]) + 1] = w
  <2> HIDE DEF w
  <2> QED
    BY <1>4, <1>5, <1>6
<1>9. w.token = t /\ w.record = m
  OBVIOUS
<1> HIDE DEF w
<1> QED
  BY <1>1, <1>2, <1>3, <1>7, <1>8, <1>9, Zenon DEF SessionTypeOK, HoldsLease, transcript

(* A lease that is acquired has a fresh token and leaves the log alone.    *)
LEMMA Acquires ==
  ASSUME SignalsTypeOK, acquireLease(Thread)
  PROVE  /\ SessionTypeOK' /\ log' = log
         /\ issued'[Thread] = issued[Thread] + 1 /\ leases'[Thread].token = issued'[Thread]
<1>1. leases \in [SessionId -> Lease] /\ issued \in [SessionId -> Nat]
  BY Zenon DEF SignalsTypeOK, SessionTypeOK
<1>2. /\ issued' = [issued EXCEPT ![Thread] = @ + 1] /\ log' = log
      /\ leases' = [leases EXCEPT ![Thread] = [token |-> issued[Thread] + 1, expiresAt |-> SessionTtl]]
  BY Zenon DEF acquireLease
<1>3. issued' \in [SessionId -> Nat] /\ issued'[Thread] = issued[Thread] + 1
  BY <1>1, <1>2, Given
<1>4. leases' \in [SessionId -> Lease] /\ leases'[Thread].token = issued[Thread] + 1
  BY <1>1, <1>2, Given DEF Lease
<1> QED
  BY <1>2, <1>3, <1>4, Zenon DEF SignalsTypeOK, SessionTypeOK

(* releaseSessionLease clears the lease with the token given, or none.     *)
LEMMA Releases ==
  ASSUME SignalsTypeOK, NEW t \in Nat, releaseSessionLease(Thread, t)
  PROVE  /\ SessionTypeOK' /\ log' = log /\ issued' = issued
         /\ leases[Thread].token # t => leases'[Thread].token = leases[Thread].token
         /\ leases'[Thread].token \in {0, leases[Thread].token}
<1>1. leases \in [SessionId -> Lease]
  BY Zenon DEF SignalsTypeOK, SessionTypeOK
<1>2. /\ leases' = IF leases[Thread].token = t THEN [leases EXCEPT ![Thread] = NoLease] ELSE leases
      /\ issued' = issued /\ log' = log
  BY Zenon DEF releaseSessionLease
<1>3. leases' \in [SessionId -> Lease]
  BY <1>1, <1>2, Zenon DEF Lease, NoLease
<1>4. /\ leases[Thread].token # t => leases'[Thread].token = leases[Thread].token
      /\ leases'[Thread].token \in {0, leases[Thread].token}
  BY <1>1, <1>2, Given DEF NoLease
<1> QED
  BY <1>2, <1>3, <1>4, Zenon DEF SignalsTypeOK, SessionTypeOK

(* Time takes no lease away from its holder.                               *)
LEMMA Ticks ==
  ASSUME SignalsTypeOK, SessionTick
  PROVE  /\ SessionTypeOK' /\ log' = log /\ issued' = issued
         /\ leases'[Thread].token = leases[Thread].token
<1>1. leases \in [SessionId -> Lease]
  BY Zenon DEF SignalsTypeOK, SessionTypeOK
<1>2. /\ leases' = [s \in SessionId |->
                      IF leases[s].expiresAt > 0 THEN [leases[s] EXCEPT !.expiresAt = @ - 1]
                                                 ELSE leases[s]]
      /\ issued' = issued /\ log' = log
  BY Zenon DEF SessionTick
<1>3. leases' \in [SessionId -> Lease] /\ leases'[Thread].token = leases[Thread].token
  BY <1>1, <1>2, Given DEF Lease
<1> QED
  BY <1>2, <1>3, Zenon DEF SignalsTypeOK, SessionTypeOK

-----------------------------------------------------------------------------
(* What a step leaves alone.                                               *)
LEMMA RunsKept ==
  ASSUME RunsOK, UNCHANGED queueVars PROVE RunsOK'
  BY Zenon DEF RunsOK, queueVars

(* A step that touches no job and no run keeps what is known of the jobs.  *)
LEMMA JobsKept ==
  ASSUME \A j \in Job : JobOK(j), UNCHANGED <<job, kind, phase>>
  PROVE  \A j \in Job : JobOK(j)'
  BY Zenon DEF JobOK, isTerminal

(* A step that touches no turn, run or lease keeps what is known of the    *)
(* turns.                                                                  *)
LEMMA TurnsKept ==
  ASSUME \A p \in Process : TurnOK(p), \A p, q \in Process : Apart(p, q),
         UNCHANGED <<turn, phase, spell, issued, stalled>>,
         leases'[Thread].token = leases[Thread].token
  PROVE  (\A p \in Process : TurnOK(p)') /\ \A p, q \in Process : Apart(p, q)'
<1>1. ASSUME NEW p \in Process PROVE TurnOK(p)'
  <2>1. TurnOK(p)
    OBVIOUS
  <2>2. Current(p)' <=> Current(p)
    BY Zenon DEF Current
  <2>3. holdsSession(p)' <=> holdsSession(p)
    BY Zenon DEF holdsSession, HoldsLease
  <2> QED
    BY <2>1, <2>2, <2>3, Zenon DEF TurnOK
<1>2. ASSUME NEW p \in Process, NEW q \in Process PROVE Apart(p, q)'
  BY Zenon DEF Apart
<1> QED
  BY <1>1, <1>2, Zenon

(* A step that touches neither the table nor a turn keeps the table.       *)
LEMMA TableKept ==
  ASSUME TableOK, UNCHANGED <<signals, serial, sentAt, phase, turn>> PROVE TableOK'
  BY Zenon DEF TableOK, RowOK

(* A message that a step does not concern stays where it is.               *)
LEMMA PlaceKept ==
  ASSUME NEW m \in Message, PlaceOK(m), kind'[m] = kind[m], RowsOf(m)' = RowsOf(m),
         \A j \in Job : (AtHand(j, m)' <=> AtHand(j, m)) /\ WaitsOf(j, m)' = WaitsOf(j, m),
         \A p \in Process : BatchOf(p, m)' = BatchOf(p, m),
         NoRun(m)' <=> NoRun(m), NoEnd(m)' <=> NoEnd(m)
  PROVE  PlaceOK(m)'
<1>1. /\ NoRow(m)' <=> NoRow(m)
      /\ OneRow(m)' <=> OneRow(m)
  BY Zenon DEF NoRow, OneRow
<1>2. ASSUME NEW j \in Job PROVE (NotAt(j, m)' <=> NotAt(j, m)) /\ (OnceAt(j, m)' <=> OnceAt(j, m))
  BY Zenon DEF NotAt, OnceAt
<1>3. /\ NoCall(m)' <=> NoCall(m)
      /\ OneCall(m)' <=> OneCall(m)
  BY <1>2, Zenon DEF NoCall, OneCall
<1>4. /\ NoPoll(m)' <=> NoPoll(m)
      /\ OnePoll(m)' <=> OnePoll(m)
  BY Zenon DEF NoPoll, OnePoll
<1>5. Nowhere(m)' <=> Nowhere(m)
  BY <1>1, <1>3, <1>4, Zenon DEF Nowhere
<1>6. Placed(m)' <=> Placed(m)
  BY <1>1, <1>3, <1>4, Zenon DEF Placed
<1> QED
  BY <1>5, <1>6, Zenon DEF PlaceOK

(* In one place is in no other.                                            *)
LEMMA Elsewhere ==
  ASSUME NEW m \in Message, PlaceOK(m)
  PROVE  /\ kind[m] = "none" => Nowhere(m)
         /\ ~NoRow(m) => OneRow(m) /\ NoCall(m) /\ NoPoll(m) /\ NoRun(m) /\ NoEnd(m)
         /\ ~NoCall(m) => NoRow(m) /\ OneCall(m) /\ NoPoll(m) /\ NoRun(m) /\ NoEnd(m)
         /\ ~NoPoll(m) => NoRow(m) /\ NoCall(m) /\ OnePoll(m) /\ NoRun(m) /\ NoEnd(m)
         /\ ~NoRun(m) => NoRow(m) /\ NoCall(m) /\ NoPoll(m) /\ NoEnd(m)
         /\ ~NoEnd(m) => NoRow(m) /\ NoCall(m) /\ NoPoll(m) /\ NoRun(m)
         /\ kind[m] = "none" <=> Nowhere(m)
<1>1. OneRow(m) => ~NoRow(m)
  BY Zenon DEF OneRow, NoRow
<1>2. OneCall(m) => ~NoCall(m)
  BY Zenon DEF OneCall, NoCall, OnceAt, NotAt
<1>3. OnePoll(m) => ~NoPoll(m)
  BY Zenon DEF OnePoll, NoPoll
<1> QED
  BY <1>1, <1>2, <1>3, Zenon DEF PlaceOK, Placed, Nowhere

(* A message with a job is with that one only.                             *)
LEMMA WithJob ==
  ASSUME NEW m \in Message, PlaceOK(m), NEW j \in Job, ~NotAt(j, m)
  PROVE  /\ kind[m] # "none" /\ OnceAt(j, m) /\ \A i \in Job : i # j => NotAt(i, m)
         /\ NoRow(m) /\ NoPoll(m) /\ NoRun(m) /\ NoEnd(m)
<1>1. ~NoCall(m)
  BY Zenon DEF NoCall
<1>2. OneCall(m) /\ NoRow(m) /\ NoPoll(m) /\ NoRun(m) /\ NoEnd(m) /\ kind[m] # "none"
  BY <1>1, Elsewhere, Zenon DEF Nowhere
<1> QED
  BY <1>2, Zenon DEF OneCall

(* A message in the batch of one poll is nowhere else.                     *)
LEMMA InPoll ==
  ASSUME NEW m \in Message, PlaceOK(m), NEW p \in Process, BatchOf(p, m) # {}
  PROVE  /\ kind[m] # "none" /\ (\E x : BatchOf(p, m) = {x})
         /\ \A q \in Process : q # p => BatchOf(q, m) = {}
         /\ NoRow(m) /\ NoCall(m) /\ NoRun(m) /\ NoEnd(m)
<1>1. ~NoPoll(m)
  BY Zenon DEF NoPoll
<1>2. OnePoll(m) /\ NoRow(m) /\ NoCall(m) /\ NoRun(m) /\ NoEnd(m) /\ kind[m] # "none"
  BY <1>1, Elsewhere, Zenon DEF Nowhere
<1> QED
  BY <1>2, Zenon DEF OnePoll

(* A step that moves no message keeps the place of every message.          *)
LEMMA PlacesKept ==
  ASSUME \A m \in Message : PlaceOK(m), UNCHANGED <<signals, job, turn, phase, fate, kind>>
  PROVE  \A m \in Message : PlaceOK(m)'
<1> TAKE m \in Message
<1>1. RowsOf(m)' = RowsOf(m)
  BY Zenon DEF RowsOf
<1>2. ASSUME NEW j \in Job PROVE (AtHand(j, m)' <=> AtHand(j, m)) /\ WaitsOf(j, m)' = WaitsOf(j, m)
  BY Zenon DEF AtHand, WaitsOf
<1>3. ASSUME NEW p \in Process PROVE BatchOf(p, m)' = BatchOf(p, m)
  BY Zenon DEF BatchOf
<1> QED
  BY <1>1, <1>2, <1>3, PlaceKept, Zenon DEF NoRun, NoEnd

(* A step that writes no transcript entry and sends nothing.               *)
LEMMA RecordsKept ==
  ASSUME SignalsIInv, log' = log, sentAt' = sentAt,
         leases'[Thread].token <= issued'[Thread], issued[Thread] <= issued'[Thread],
         issued'[Thread] \in Nat, stalled => stalled',
         \A m \in Message : fate[m] # "none" => fate'[m] # "none",
         \A m \in Message : fate'[m] \in {"heard", "unread"} /\ kind'[m] = "plain"
                              => \/ fate'[m] = fate[m] /\ kind'[m] = kind[m]
                                 \/ InTranscript(m) \/ stalled,
         \A m \in Message : kind[m] # "none" => kind'[m] = kind[m],
         \A m \in Message : Begun(m) => Begun(m)',
         \A p \in Process : Ahead(p)'
  PROVE  RecordsOK'
<1>1. transcript' = transcript
  BY Zenon DEF transcript
<1>2. \A m : InTranscript(m)' <=> InTranscript(m)
  BY <1>1, Zenon DEF InTranscript
<1>3. RecordsOK
  BY Zenon DEF SignalsIInv
<1>4. ASSUME NEW i \in DOMAIN transcript' PROVE transcript'[i].token <= issued'[Thread]
  <2>1. transcript[i].token \in Nat /\ issued[Thread] \in Nat /\ transcript[i].token <= issued[Thread]
    BY <1>1, <1>3, <1>4, Transcript, Fields, Zenon DEF RecordsOK, SignalsIInv
  <2> QED
    BY <2>1, <1>1
<1>5. ASSUME NEW m \in Message, InTranscript(m)' PROVE fate'[m] # "none" \/ Begun(m)'
  BY <1>2, <1>3, <1>5, Zenon DEF RecordsOK
<1>6. SteeredIsRecorded'
  BY <1>2, <1>3, Zenon DEF RecordsOK, SteeredIsRecorded
<1>7. RecordedInOrder'
  BY <1>1, <1>3, Zenon DEF RecordsOK, RecordedInOrder
<1>8. RepeatsOnlyWhatIsPast'
  <2> SUFFICES ASSUME NEW i \in DOMAIN transcript, NEW j \in DOMAIN transcript,
                      i < j, transcript[i].record = transcript[j].record,
                      transcript[i].record \in Message
               PROVE  \/ stalled' \/ kind'[transcript[i].record] = "blank"
                      \/ \E k \in i + 1..j - 1 : transcript[k].record # transcript[i].record
    BY <1>1, Zenon DEF RepeatsOnlyWhatIsPast
  <2>1. "blank" # "none"
    OBVIOUS
  <2> QED
    BY <1>3, <2>1, Zenon DEF RecordsOK, RepeatsOnlyWhatIsPast
<1> QED
  BY <1>4, <1>5, <1>6, <1>7, <1>8, Zenon DEF RecordsOK

-----------------------------------------------------------------------------
(* Jobs.                                                                   *)
LEMMA Proceeds ==
  ASSUME SignalsTypeOK, NEW j \in Job, NEW todo \in SUBSET Waiting, Proceed(j, todo)
  PROVE  /\ job' \in [Job -> JobState]
         /\ \A i \in Job : i # j => job'[i] = job[i]
         /\ \/ todo = {} /\ job'[j] = NoJob
            \/ \E x \in todo : /\ job'[j].pc = "look" /\ job'[j].msg = x.msg
                               /\ job'[j].todo = todo \ {x}
<1>1. job \in [Job -> JobState] /\ job[j] \in JobState
  BY Zenon DEF SignalsTypeOK
<1>2. CASE todo = {} /\ job' = [job EXCEPT ![j] = NoJob]
  <2>1. NoJob \in JobState
    BY DEF NoJob, JobState
  <2> QED
    BY <1>1, <1>2, <2>1, Zenon
<1>3. ASSUME NEW x \in todo,
             job' = [job EXCEPT ![j] = [pc |-> "look", msg |-> x.msg, depth |-> x.depth,
                                        todo |-> todo \ {x}, to |-> None, at |-> @.at]]
      PROVE  /\ job' \in [Job -> JobState]
             /\ \A i \in Job : i # j => job'[i] = job[i]
             /\ job'[j].pc = "look" /\ job'[j].msg = x.msg /\ job'[j].todo = todo \ {x}
  <2> DEFINE y == [pc |-> "look", msg |-> x.msg, depth |-> x.depth,
                   todo |-> todo \ {x}, to |-> None, at |-> job[j].at]
  <2>1. x.msg \in Message /\ x.depth \in Nat
    BY DEF Waiting
  <2>2. job[j].at \in Process \cup {None}
    BY <1>1, JobFields, Zenon
  <2>3. y \in JobState
    BY <2>1, <2>2 DEF JobState
  <2>4. y.pc = "look" /\ y.msg = x.msg /\ y.todo = todo \ {x}
    OBVIOUS
  <2>5. job' = [job EXCEPT ![j] = y]
    BY <1>3
  <2> HIDE DEF y
  <2> QED
    BY <1>1, <2>3, <2>4, <2>5, Zenon
<1> QED
  BY <1>2, <1>3, Zenon DEF Proceed

(* The message that comes up is at hand, the others wait.                  *)
LEMMA Advance ==
  ASSUME SignalsTypeOK, NEW j \in Job, NEW todo \in SUBSET Waiting, Proceed(j, todo),
         NEW m \in Message
  PROVE  /\ {x \in todo : x.msg = m} = {} => NotAt(j, m)'
         /\ \A x : {y \in todo : y.msg = m} = {x} => OnceAt(j, m)'
<1>1. CASE todo = {} /\ job'[j] = NoJob
  <2>1. job'[j].pc = "none" /\ job'[j].todo = {}
    BY <1>1 DEF NoJob
  <2>2. NotAt(j, m)'
    BY <2>1 DEF NotAt, AtHand, WaitsOf
  <2>3. \A x : {y \in todo : y.msg = m} # {x}
    BY <1>1, Zenon
  <2> QED
    BY <2>2, <2>3, Zenon
<1>2. ASSUME NEW z \in todo, job'[j].pc = "look", job'[j].msg = z.msg, job'[j].todo = todo \ {z}
      PROVE  /\ {x \in todo : x.msg = m} = {} => NotAt(j, m)'
             /\ \A x : {y \in todo : y.msg = m} = {x} => OnceAt(j, m)'
  <2>1. AtHand(j, m)' <=> z.msg = m
    BY <1>2, Zenon DEF AtHand
  <2>2. WaitsOf(j, m)' = {x \in todo : x.msg = m} \ {z}
    BY <1>2 DEF WaitsOf
  <2>3. z \in {x \in todo : x.msg = m} <=> z.msg = m
    BY Zenon
  <2> DEFINE of == {x \in todo : x.msg = m}
  <2> HIDE DEF of
  <2>4. of = {} => NotAt(j, m)'
    BY <2>1, <2>2, <2>3, Zenon DEF NotAt, of
  <2>5. ASSUME NEW x, of = {x} PROVE OnceAt(j, m)'
    <3>1. CASE z.msg = m
      <4>1. z = x
        BY <2>3, <2>5, <3>1, Zenon DEF of
      <4>2. WaitsOf(j, m)' = {}
        BY <2>2, <2>5, <4>1, Zenon DEF of
      <4> QED
        BY <2>1, <3>1, <4>2, Zenon DEF OnceAt
    <3>2. CASE z.msg # m
      <4>1. z # x
        BY <2>3, <2>5, <3>2, Zenon DEF of
      <4>2. {x} \ {z} = {x}
        BY <4>1, Zenon
      <4>3. WaitsOf(j, m)' = {x}
        BY <2>2, <2>5, <4>2, Zenon DEF of
      <4> QED
        BY <2>1, <3>2, <4>3, Zenon DEF OnceAt
    <3> QED
      BY <3>1, <3>2, Zenon
  <2> QED
    BY <2>4, <2>5, Zenon DEF of
<1> QED
  BY <1>1, <1>2, Proceeds, Zenon

(* A job that goes on, to its next row or to its end, is as a job has to   *)
(* be.                                                                     *)
LEMMA JobProceeds ==
  ASSUME SignalsIInv, NEW j \in Job, NEW todo \in SUBSET Waiting, Proceed(j, todo),
         kind' = kind,
         \A r \in Message : /\ phase[r] # "absent" => phase'[r] # "absent"
                            /\ isTerminal(r) => isTerminal(r)',
         \/ job[j].pc # "none"
         \/ \A m \in Message : j # <<"turn", m>> /\ j # <<"end", m>>
  PROVE  \A i \in Job : JobOK(i)'
<1> TAKE i \in Job
<1>1. JobOK(i) /\ JobOK(j) /\ SignalsTypeOK
  BY Zenon DEF SignalsIInv
<1>2. CASE i # j
  <2>1. job'[i] = job[i]
    BY <1>1, <1>2, Proceeds, Zenon
  <2> QED
    BY <1>1, <2>1, Zenon DEF JobOK
<1>3. CASE i = j
  <2>1. \/ job'[j].pc = "none" /\ job'[j].todo = {}
        \/ job'[j].pc = "look" /\ job'[j].msg \in Message
    <3>1. NoJob.pc = "none" /\ NoJob.todo = {}
      BY DEF NoJob
    <3>2. \A x \in todo : x.msg \in Message
      BY DEF Waiting
    <3>3. \/ todo = {} /\ job'[j] = NoJob
          \/ \E x \in todo : /\ job'[j].pc = "look" /\ job'[j].msg = x.msg
                             /\ job'[j].todo = todo \ {x}
      BY <1>1, Proceeds, Zenon
    <3>4. CASE job'[j] = NoJob
      BY <3>1, <3>4, Zenon
    <3>5. ASSUME NEW x \in todo, job'[j].pc = "look", job'[j].msg = x.msg
          PROVE  job'[j].pc = "look" /\ job'[j].msg \in Message
      BY <3>2, <3>5, Zenon
    <3> QED
      BY <3>3, <3>4, <3>5, Zenon
  <2>2. \A m \in Message : j = <<"turn", m>> => kind'[m] # "none"
    BY <1>1, Zenon DEF JobOK
  <2>3. \A m \in Message : j = <<"end", m>> => isTerminal(m)'
    BY <1>1, Zenon DEF JobOK
  <2> QED
    BY <1>3, <2>1, <2>2, <2>3, Zenon DEF JobOK
<1> QED
  BY <1>2, <1>3, Zenon

(* A message waiting with the job, or elsewhere altogether.                *)
LEMMA PlaceProceeds ==
  ASSUME SignalsIInv, NEW j \in Job, NEW todo \in SUBSET Waiting, Proceed(j, todo),
         NEW m \in Message, {x \in todo : x.msg = m} = WaitsOf(j, m), ~AtHand(j, m),
         UNCHANGED <<kind, turn>>, RowsOf(m)' = RowsOf(m),
         NoRun(m)' <=> NoRun(m), NoEnd(m)' <=> NoEnd(m)
  PROVE  PlaceOK(m)'
<1>1. PlaceOK(m) /\ SignalsTypeOK
  BY Zenon DEF SignalsIInv
<1>2. \A p \in Process : BatchOf(p, m)' = BatchOf(p, m)
  BY Zenon DEF BatchOf
<1>3. ASSUME NEW i \in Job, i # j
      PROVE  (AtHand(i, m)' <=> AtHand(i, m)) /\ WaitsOf(i, m)' = WaitsOf(i, m)
  <2>1. job'[i] = job[i]
    BY <1>1, <1>3, Proceeds, Zenon
  <2> QED
    BY <2>1, Zenon DEF AtHand, WaitsOf
<1>4. CASE WaitsOf(j, m) = {}
  <2>1. NotAt(j, m)'
    BY <1>1, <1>4, Advance, Zenon
  <2> QED
    BY <1>1, <1>2, <1>3, <1>4, <2>1, PlaceKept, Zenon DEF NotAt
<1>5. CASE WaitsOf(j, m) # {}
  <2>1. /\ kind[m] # "none" /\ OnceAt(j, m) /\ \A i \in Job : i # j => NotAt(i, m)
        /\ NoRow(m) /\ NoPoll(m) /\ NoRun(m) /\ NoEnd(m)
    BY <1>1, <1>5, WithJob, Zenon DEF NotAt
  <2>2. OnceAt(j, m)'
    <3>1. PICK x : WaitsOf(j, m) = {x}
      BY <1>5, <2>1, Zenon DEF OnceAt
    <3>2. {y \in todo : y.msg = m} = {x}
      BY <3>1, Zenon
    <3> QED
      BY <1>1, <3>2, Advance, Zenon
  <2>3. \A i \in Job : i # j => NotAt(i, m)'
    BY <1>3, <2>1, Zenon DEF NotAt
  <2>4. NoRow(m)' /\ NoPoll(m)'
    BY <1>2, <2>1, Zenon DEF NoRow, NoPoll
  <2> QED
    BY <2>1, <2>2, <2>3, <2>4, Zenon DEF PlaceOK, Placed, OneCall
<1> QED
  BY <1>4, <1>5, Zenon

(* Rows that are taken leave the others as they were.                      *)
LEMMA TableShrinks ==
  ASSUME TableOK, signals' \subseteq signals, UNCHANGED <<serial, sentAt, phase, turn>>
  PROVE  TableOK'
  BY Zenon DEF TableOK, RowOK

(* Turns go on as they were, or without a lease.                           *)
LEMMA RecordsLeft ==
  ASSUME SignalsIInv, UNCHANGED <<issued, log, sentAt>>,
         leases'[Thread].token = leases[Thread].token,
         signals' \subseteq signals, stalled => stalled',
         \A m \in Message : fate'[m] = fate[m] \/ fate'[m] \in {"dropped", "lost"},
         \A m \in Message : fate[m] # "none" \/ kind[m] # "none" => kind'[m] = kind[m],
         \A m \in Message : /\ phase[m] # "absent" => phase'[m] # "absent"
                            /\ spell[m] > 0 => spell'[m] > 0,
         \A p \in Process :
           \/ turn'[p] = turn[p]
           \/ /\ turn'[p].lease = 0
              /\ turn'[p].pc \in {"claimed", "leased"} /\ spell[turn'[p].run] > 0
                   => turn'[p].spell > 1
  PROVE  RecordsOK'
<1>1. transcript' = transcript
  BY Zenon DEF transcript
<1>2. RecordsOK /\ issued[Thread] \in Nat
  BY Fields, Zenon DEF SignalsIInv
<1>3. issued[Thread] <= issued[Thread]
  BY <1>2
<1>4. ASSUME NEW p \in Process PROVE Ahead(p)'
  <2>1. Ahead(p)
    BY <1>2, Zenon DEF RecordsOK
  <2> QED
    BY <1>1, <2>1, Zenon DEF Ahead
<1>5. ASSUME NEW m \in Message, Begun(m) PROVE Begun(m)'
  BY <1>5, Zenon DEF Begun
<1>6. leases'[Thread].token <= issued'[Thread]
  BY <1>2, Zenon DEF RecordsOK
<1>7. ASSUME NEW m \in Message, fate'[m] \in {"heard", "unread"}
      PROVE  fate'[m] = fate[m] /\ kind'[m] = kind[m]
  <2>1. fate'[m] \notin {"dropped", "lost", "none"}
    BY <1>7
  <2> QED
    BY <2>1, Zenon
<1>8. ASSUME NEW m \in Message, fate[m] # "none" PROVE fate'[m] # "none"
  <2>1. "dropped" # "none" /\ "lost" # "none"
    OBVIOUS
  <2> QED
    BY <1>8, <2>1, Zenon
<1> QED
  BY <1>2, <1>3, <1>4, <1>5, <1>6, <1>7, <1>8, RecordsKept, Zenon

(* A job never writes the transcript.                                      *)
LEMMA RecordsJob ==
  ASSUME SignalsIInv, UNCHANGED <<sessionVars, sentAt, spell, turn, stalled>>,
         signals' \subseteq signals,
         \A m \in Message : fate'[m] = fate[m] \/ fate'[m] \in {"dropped", "lost"},
         \A m \in Message : fate[m] # "none" \/ kind[m] # "none" => kind'[m] = kind[m],
         \A m \in Message : phase[m] # "absent" => phase'[m] # "absent"
  PROVE  RecordsOK'
<1>1. leases' = leases /\ issued' = issued /\ log' = log
  BY Zenon DEF sessionVars
<1> QED
  BY <1>1, RecordsLeft, Zenon

(* One job takes another state.                                            *)
LEMMA JobSet ==
  ASSUME SignalsTypeOK, NEW j \in Job, NEW y \in JobState, job' = [job EXCEPT ![j] = y]
  PROVE  job' \in [Job -> JobState] /\ job'[j] = y /\ \A i \in Job : i # j => job'[i] = job[i]
  BY Zenon DEF SignalsTypeOK

(* A message comes in.                                                     *)
LEMMA Comes ==
  ASSUME SignalsIInv, NEW n \in Message, NEW k \in Kind, NEW y \in JobState,
         kind[n] = "none", kind' = [kind EXCEPT ![n] = k],
         job' = [job EXCEPT ![<<"turn", n>>] = y],
         y.pc \in {"look", "send"}, y.msg = n, y.todo = {},
         y.pc = "send" => y.to \in Message /\ phase[y.to] # "absent",
         UNCHANGED <<sessionVars, queueVars, tableVars, turn, fate, faults, stalled>>
  PROVE  SignalsIInv'
<1> DEFINE j == <<"turn", n>>
<1>1. /\ SignalsTypeOK /\ RunsOK /\ (\A i \in Job : JobOK(i)) /\ TableOK
      /\ (\A p \in Process : TurnOK(p)) /\ (\A p, q \in Process : Apart(p, q))
      /\ \A m \in Message : PlaceOK(m)
  BY Zenon DEF SignalsIInv
<1>2. /\ UNCHANGED <<leases, issued, log, phase, born, spell, signals, serial, sentAt>>
      /\ UNCHANGED <<turn, fate, faults, stalled>>
  BY Zenon DEF sessionVars, queueVars, tableVars
<1>3. j \in Job
  BY Jobs, Zenon
<1>4. job' \in [Job -> JobState] /\ job'[j] = y /\ \A i \in Job : i # j => job'[i] = job[i]
  BY <1>1, <1>3, JobSet, Zenon
<1>5. kind \in [Message -> Kind \cup {"none"}]
  BY <1>1, Zenon DEF SignalsTypeOK
<1>6. /\ kind' \in [Message -> Kind \cup {"none"}] /\ kind'[n] = k /\ k # "none"
      /\ \A m \in Message : m # n => kind'[m] = kind[m]
  BY <1>5 DEF Kind
<1>7. job[j].pc = "none" /\ job[j].todo = {}
  BY <1>1, <1>3, Zenon DEF JobOK
<1>8. SignalsTypeOK'
  BY <1>1, <1>2, <1>4, <1>6, Zenon DEF SignalsTypeOK, SessionTypeOK
<1>9. ASSUME NEW i \in Job PROVE JobOK(i)'
  <2>1. CASE i # j
    <3>1. job'[i] = job[i] /\ JobOK(i)
      BY <1>1, <1>4, <2>1, Zenon
    <3> QED
      BY <1>2, <1>6, <3>1, Zenon DEF JobOK, isTerminal
  <2>2. CASE i = j
    <3>1. /\ y.pc \notin {"none", "take"}
          /\ \A m \in Message : (j = <<"turn", m>> => m = n) /\ j # <<"end", m>>
      BY Zenon
    <3> HIDE DEF j
    <3> QED
      BY <1>2, <1>4, <1>6, <2>2, <3>1, Zenon DEF JobOK
  <2> QED
    BY <2>1, <2>2, Zenon
<1> HIDE DEF j
<1>10. ASSUME NEW m \in Message PROVE PlaceOK(m)'
  <2>1. RowsOf(m)' = RowsOf(m) /\ \A p \in Process : BatchOf(p, m)' = BatchOf(p, m)
    BY <1>2, Zenon DEF RowsOf, BatchOf
  <2>2. ASSUME NEW i \in Job, i # j
        PROVE  (AtHand(i, m)' <=> AtHand(i, m)) /\ WaitsOf(i, m)' = WaitsOf(i, m)
    BY <1>4, <2>2, Zenon DEF AtHand, WaitsOf
  <2>3. ~AtHand(j, m) /\ WaitsOf(j, m) = {} /\ WaitsOf(j, m)' = {}
    BY <1>4, <1>7 DEF AtHand, WaitsOf
  <2>4. AtHand(j, m)' <=> m = n
    BY <1>4 DEF AtHand
  <2>5. (NoRun(m)' <=> NoRun(m)) /\ (NoEnd(m)' <=> NoEnd(m))
    BY <1>2, Zenon DEF NoRun, NoEnd
  <2>6. CASE m # n
    BY <1>1, <1>6, <2>1, <2>2, <2>3, <2>4, <2>5, <2>6, PlaceKept, Zenon
  <2>7. CASE m = n
    <3>1. Nowhere(m)
      BY <1>1, <2>7, Elsewhere, Zenon
    <3>2. NoRow(m)' /\ NoPoll(m)' /\ NoRun(m)' /\ NoEnd(m)'
      BY <2>1, <2>5, <3>1, Zenon DEF Nowhere, NoRow, NoPoll
    <3>3. OneCall(m)'
      BY <1>3, <2>2, <2>3, <2>4, <2>7, <3>1, Zenon DEF OneCall, OnceAt, NotAt, Nowhere, NoCall
    <3> QED
      BY <1>6, <2>7, <3>2, <3>3, Zenon DEF PlaceOK, Placed
  <2> QED
    BY <2>6, <2>7, Zenon
<1>11. ASSUME NEW m \in Message, fate[m] # "none" \/ kind[m] # "none" PROVE kind'[m] = kind[m]
  <2>1. m # n
    BY <1>1, <1>11, Elsewhere, Zenon DEF Nowhere, NoEnd
  <2> QED
    BY <1>6, <2>1, Zenon
<1>12. RecordsOK'
  BY <1>2, <1>11, RecordsJob, Zenon
<1>13. RunsOK' /\ TableOK'
  BY <1>1, <1>2, RunsKept, TableKept, Zenon
<1>14. (\A p \in Process : TurnOK(p)') /\ \A p, q \in Process : Apart(p, q)'
  BY <1>1, <1>2, TurnsKept, Zenon
<1> QED
  BY <1>8, <1>9, <1>10, <1>12, <1>13, <1>14, Zenon DEF SignalsIInv

(* A message arrives on a surface, and its job starts.                     *)
LEMMA Arrives ==
  ASSUME SignalsIInv, NEW n \in Message, NEW k \in Kinds, NEW p \in Process, arrive(n, k, p)
  PROVE  SignalsIInv'
<1> DEFINE y == [NoJob EXCEPT !.pc = "look", !.msg = n, !.at = p]
<1>1. y \in JobState /\ y.pc = "look" /\ y.msg = n /\ y.todo = {}
  BY Zenon DEF JobState, NoJob
<1>2. k \in Kind
  BY Given, Zenon
<1>3. /\ kind[n] = "none" /\ kind' = [kind EXCEPT ![n] = k]
      /\ job' = [job EXCEPT ![<<"turn", n>>] = y]
      /\ UNCHANGED <<sessionVars, queueVars, tableVars, turn, fate, faults, stalled>>
  BY Zenon DEF arrive, Quiet, faultVars
<1> HIDE DEF y
<1> QED
  BY <1>1, <1>2, <1>3, Comes, Zenon

(* A web user steers a run.                                                *)
LEMMA Signals ==
  ASSUME SignalsIInv, NEW n \in Message, NEW r \in Message, NEW p \in Process, signalRun(n, r, p)
  PROVE  SignalsIInv'
<1>1. /\ kind[n] = "none" /\ kind' = [kind EXCEPT ![n] = "bare"] /\ phase[r] # "absent"
      /\ UNCHANGED <<sessionVars, queueVars, tableVars, turn, faults, stalled>>
  BY Zenon DEF signalRun, Quiet, faultVars
<1>2. CASE ~isTerminal(r)
  <2> DEFINE y == [NoJob EXCEPT !.pc = "send", !.msg = n, !.to = r, !.at = p]
  <2>1. y \in JobState /\ y.pc = "send" /\ y.msg = n /\ y.todo = {} /\ y.to = r
    BY Zenon DEF JobState, NoJob
  <2>2. job' = [job EXCEPT ![<<"turn", n>>] = y] /\ fate' = fate
    BY <1>2, Zenon DEF signalRun
  <2>3. "bare" \in Kind
    BY DEF Kind
  <2> HIDE DEF y
  <2> QED
    BY <1>1, <2>1, <2>2, <2>3, Comes, Zenon
<1>3. CASE isTerminal(r)
  <2>1. /\ SignalsTypeOK /\ RunsOK /\ (\A i \in Job : JobOK(i)) /\ TableOK
        /\ (\A q \in Process : TurnOK(q)) /\ (\A q, o \in Process : Apart(q, o))
        /\ \A m \in Message : PlaceOK(m)
    BY Zenon DEF SignalsIInv
  <2>2. /\ fate' = [fate EXCEPT ![n] = "dropped"] /\ job' = job
        /\ UNCHANGED <<leases, issued, log, phase, born, spell, signals, serial, sentAt>>
    BY <1>1, <1>3, Zenon DEF signalRun, sessionVars, queueVars, tableVars
  <2>3. /\ kind \in [Message -> Kind \cup {"none"}]
        /\ fate \in [Message -> Fate]
    BY <2>1, Zenon DEF SignalsTypeOK
  <2>4. /\ kind' \in [Message -> Kind \cup {"none"}] /\ kind'[n] = "bare"
        /\ \A m \in Message : m # n => kind'[m] = kind[m]
    BY <1>1, <2>3 DEF Kind
  <2>5. /\ fate' \in [Message -> Fate]
        /\ fate'[n] = "dropped" /\ \A m \in Message : m # n => fate'[m] = fate[m]
    BY <2>2, <2>3 DEF Fate
  <2>6. SignalsTypeOK'
    BY <1>1, <2>1, <2>2, <2>4, <2>5, Zenon DEF SignalsTypeOK, SessionTypeOK
  <2>7. ASSUME NEW i \in Job PROVE JobOK(i)'
    <3>1. \A m \in Message : kind[m] # "none" => kind'[m] # "none"
      BY <2>4
    <3> QED
      BY <2>1, <2>2, <3>1, Zenon DEF JobOK, isTerminal
  <2>8. ASSUME NEW m \in Message PROVE PlaceOK(m)'
    <3>1. RowsOf(m)' = RowsOf(m) /\ \A q \in Process : BatchOf(q, m)' = BatchOf(q, m)
      BY <1>1, <2>2, Zenon DEF RowsOf, BatchOf
    <3>2. \A i \in Job : (AtHand(i, m)' <=> AtHand(i, m)) /\ WaitsOf(i, m)' = WaitsOf(i, m)
      BY <2>2, Zenon DEF AtHand, WaitsOf
    <3>3. NoRun(m)' <=> NoRun(m)
      BY <2>2, Zenon DEF NoRun
    <3>4. CASE m # n
      <4>1. NoEnd(m)' <=> NoEnd(m)
        BY <2>5, <3>4, Zenon DEF NoEnd
      <4> QED
        BY <2>1, <2>4, <3>1, <3>2, <3>3, <3>4, <4>1, PlaceKept, Zenon
    <3>5. CASE m = n
      <4>1. Nowhere(m)
        BY <1>1, <2>1, <3>5, Elsewhere, Zenon
      <4>2. NoRow(m)' /\ NoPoll(m)' /\ NoRun(m)' /\ NoCall(m)'
        BY <3>1, <3>2, <3>3, <4>1, Zenon DEF Nowhere, NoRow, NoPoll, NoCall, NotAt
      <4>3. ~NoEnd(m)' /\ kind'[m] # "none"
        BY <2>4, <2>5, <3>5 DEF NoEnd
      <4> QED
        BY <4>2, <4>3, Zenon DEF PlaceOK, Placed
    <3> QED
      BY <3>4, <3>5, Zenon
  <2>9. ASSUME NEW m \in Message
        PROVE  /\ fate'[m] = fate[m] \/ fate'[m] \in {"dropped", "lost"}
               /\ fate[m] # "none" \/ kind[m] # "none" => kind'[m] = kind[m]
    <3>1. m = n => fate[m] = "none"
      BY <1>1, <2>1, Elsewhere, Zenon DEF Nowhere, NoEnd
    <3> QED
      BY <1>1, <2>4, <2>5, <3>1, Zenon
  <2>10. RecordsOK'
    BY <1>1, <2>2, <2>9, RecordsJob, Zenon
  <2>11. RunsOK' /\ TableOK'
    BY <1>1, <2>1, <2>2, RunsKept, TableKept, Zenon
  <2>12. (\A q \in Process : TurnOK(q)') /\ \A q, o \in Process : Apart(q, o)'
    BY <1>1, <2>1, <2>2, TurnsKept, Zenon
  <2> QED
    BY <2>6, <2>7, <2>8, <2>10, <2>11, <2>12, Zenon DEF SignalsIInv
<1> QED
  BY <1>2, <1>3, Zenon

(* A job reads which run of the thread is running.                         *)
LEMMA Looks ==
  ASSUME SignalsIInv, NEW j \in Job, look(j)
  PROVE  SignalsIInv'
<1>1. /\ SignalsTypeOK /\ RunsOK /\ (\A i \in Job : JobOK(i)) /\ TableOK
      /\ (\A p \in Process : TurnOK(p)) /\ (\A p, q \in Process : Apart(p, q))
      /\ \A m \in Message : PlaceOK(m)
  BY Zenon DEF SignalsIInv
<1>2. /\ UNCHANGED <<leases, issued, log, phase, born, spell, signals, serial, sentAt>>
      /\ UNCHANGED <<kind, fate, turn, faults, stalled>>
      /\ UNCHANGED <<sessionVars, queueVars>>
  BY Zenon DEF look, sessionVars, queueVars, messageVars, tableVars, Quiet, faultVars
<1>3. job[j].pc = "look" /\ job[j] \in JobState
  BY <1>1, Fields, Zenon DEF look
<1>4. \E y \in JobState : /\ job' = [job EXCEPT ![j] = y]
                          /\ y.pc \in {"enqueue", "send"} /\ y.msg = job[j].msg /\ y.todo = job[j].todo
                          /\ y.pc = "send" => y.to \in Message /\ phase[y.to] # "absent"
  <2>1. CASE job' = [job EXCEPT ![j].pc = "enqueue"]
    <3> DEFINE y == [job[j] EXCEPT !.pc = "enqueue"]
    <3>1. y \in JobState /\ y.pc = "enqueue" /\ y.msg = job[j].msg /\ y.todo = job[j].todo
      BY <1>3 DEF JobState
    <3>2. job' = [job EXCEPT ![j] = y]
      BY <2>1, Zenon
    <3> HIDE DEF y
    <3> QED
      BY <3>1, <3>2, Zenon
  <2>2. ASSUME NEW r \in Message, activeForThread(r),
               job' = [job EXCEPT ![j].pc = "send", ![j].to = r]
        PROVE  \E y \in JobState :
                 /\ job' = [job EXCEPT ![j] = y]
                 /\ y.pc \in {"enqueue", "send"} /\ y.msg = job[j].msg /\ y.todo = job[j].todo
                 /\ y.pc = "send" => y.to \in Message /\ phase[y.to] # "absent"
    <3> DEFINE y == [job[j] EXCEPT !.pc = "send", !.to = r]
    <3>1. y \in JobState /\ y.pc = "send" /\ y.msg = job[j].msg /\ y.todo = job[j].todo /\ y.to = r
      BY <1>3, Zenon DEF JobState
    <3>2. job' = [job EXCEPT ![j] = y]
      BY <1>1, <2>2, Zenon DEF SignalsTypeOK
    <3>3. phase[r] # "absent"
      BY <1>1, <2>2, Zenon DEF activeForThread, RunsOK
    <3> HIDE DEF y
    <3> QED
      BY <3>1, <3>2, <3>3, Zenon
  <2> QED
    BY <2>1, <2>2, Zenon DEF look
<1>5. PICK y \in JobState : /\ job' = [job EXCEPT ![j] = y]
                            /\ y.pc \in {"enqueue", "send"} /\ y.msg = job[j].msg /\ y.todo = job[j].todo
                            /\ y.pc = "send" => y.to \in Message /\ phase[y.to] # "absent"
  BY <1>4, Zenon
<1>6. job' \in [Job -> JobState] /\ job'[j] = y /\ \A i \in Job : i # j => job'[i] = job[i]
  BY <1>1, <1>5, JobSet, Zenon
<1>7. SignalsTypeOK'
  BY <1>1, <1>2, <1>6, Zenon DEF SignalsTypeOK, SessionTypeOK
<1>8. ASSUME NEW i \in Job PROVE JobOK(i)'
  <2>1. JobOK(i)
    BY <1>1
  <2>2. CASE i # j
    BY <1>2, <1>6, <2>1, <2>2, Zenon DEF JobOK, isTerminal
  <2>3. CASE i = j
    <3>1. job[j].pc \notin {"none", "take"} /\ y.pc \notin {"none", "take", "check"}
      BY <1>3, <1>5
    <3> QED
      BY <1>2, <1>5, <1>6, <2>1, <2>3, <3>1, Zenon DEF JobOK, isTerminal
  <2> QED
    BY <2>2, <2>3, Zenon
<1>9. ASSUME NEW m \in Message PROVE PlaceOK(m)'
  <2>1. RowsOf(m)' = RowsOf(m) /\ \A p \in Process : BatchOf(p, m)' = BatchOf(p, m)
    BY <1>2, Zenon DEF RowsOf, BatchOf
  <2>2. ASSUME NEW i \in Job
        PROVE  (AtHand(i, m)' <=> AtHand(i, m)) /\ WaitsOf(i, m)' = WaitsOf(i, m)
    <3>1. CASE i # j
      BY <1>6, <3>1, Zenon DEF AtHand, WaitsOf
    <3>2. CASE i = j
      <4>1. y.pc \in {"look", "enqueue", "send"} /\ job[j].pc \in {"look", "enqueue", "send"}
        BY <1>3, <1>5
      <4> QED
        BY <1>5, <1>6, <3>2, <4>1, Zenon DEF AtHand, WaitsOf
    <3> QED
      BY <3>1, <3>2, Zenon
  <2>3. (NoRun(m)' <=> NoRun(m)) /\ (NoEnd(m)' <=> NoEnd(m))
    BY <1>2, Zenon DEF NoRun, NoEnd
  <2> QED
    BY <1>1, <1>2, <2>1, <2>2, <2>3, PlaceKept, Zenon
<1>10. RecordsOK'
  BY <1>2, RecordsJob, Zenon
<1>11. RunsOK' /\ TableOK'
  BY <1>1, <1>2, RunsKept, TableKept, Zenon
<1>12. (\A p \in Process : TurnOK(p)') /\ \A p, q \in Process : Apart(p, q)'
  BY <1>1, <1>2, TurnsKept, Zenon
<1> QED
  BY <1>7, <1>8, <1>9, <1>10, <1>11, <1>12, Zenon DEF SignalsIInv

(* A job takes rows, or none, settles what they or it carried, and goes on. *)
LEMMA JobGoesOn ==
  ASSUME SignalsIInv, NEW j \in Job, NEW todo \in SUBSET Waiting, Proceed(j, todo),
         \/ job[j].pc # "none"
         \/ \A m \in Message : j # <<"turn", m>> /\ j # <<"end", m>>,
         UNCHANGED <<sessionVars, queueVars, serial, sentAt, kind, turn, stalled>>,
         faults' \in Nat, signals' \subseteq signals,
         fate' \in [Message -> Fate],
         \A m \in Message : fate'[m] = fate[m] \/ fate'[m] \in {"dropped", "lost"},
         \A m \in Message : PlaceOK(m)'
  PROVE  SignalsIInv'
<1>1. /\ SignalsTypeOK /\ RunsOK /\ (\A i \in Job : JobOK(i)) /\ TableOK
      /\ (\A p \in Process : TurnOK(p)) /\ (\A p, q \in Process : Apart(p, q))
  BY Zenon DEF SignalsIInv
<1>2. UNCHANGED <<leases, issued, log, phase, born, spell>>
  BY Zenon DEF sessionVars, queueVars
<1>3. SignalsTypeOK'
  <2>1. job' \in [Job -> JobState]
    BY <1>1, Proceeds, Zenon
  <2>2. signals' \subseteq Row
    BY <1>1, Zenon DEF SignalsTypeOK
  <2> QED
    BY <1>1, <1>2, <2>1, <2>2, Zenon DEF SignalsTypeOK, SessionTypeOK
<1>4. \A i \in Job : JobOK(i)'
  <2>1. \A r \in Message : isTerminal(r)' <=> isTerminal(r)
    BY <1>2, Zenon DEF isTerminal
  <2> QED
    BY <1>2, <2>1, JobProceeds, Zenon
<1>5. RecordsOK'
  BY <1>2, RecordsJob, Zenon
<1>6. RunsOK' /\ TableOK'
  BY <1>1, <1>2, RunsKept, TableShrinks, Zenon
<1>7. (\A p \in Process : TurnOK(p)') /\ \A p, q \in Process : Apart(p, q)'
  BY <1>1, <1>2, TurnsKept, Zenon
<1> QED
  BY <1>3, <1>4, <1>5, <1>6, <1>7, Zenon DEF SignalsIInv

(* The rows of an ended run are replayed or dropped.                       *)
LEMMA Replays ==
  ASSUME SignalsIInv, NEW j \in Job, NEW r, replayOrphanedRunSignals(j, r),
         job[j].pc \in {"none", "take", "check"},
         \/ job[j].pc # "none"
         \/ \A m \in Message : j # <<"turn", m>> /\ j # <<"end", m>>,
         UNCHANGED <<sessionVars, queueVars, serial, sentAt, kind, turn, faults, stalled>>
  PROVE  SignalsIInv'
<1> DEFINE d == job[j].depth + 1
           copy(x) == [msg |-> x.msg, id |-> x.id, depth |-> d]
           fresh == {copy(x) : x \in {x \in Pending(r) : Replayable(x.msg)}}
           todo == job[j].todo \cup fresh
<1>1. SignalsTypeOK /\ (\A m \in Message : PlaceOK(m)) /\ job[j] \in JobState
  BY Fields, Zenon DEF SignalsIInv
<1>2. /\ signals' = signals \ Pending(r) /\ Drop(Pending(r)) /\ Proceed(j, todo)
  BY Zenon DEF replayOrphanedRunSignals, consume
<1>3. Pending(r) \subseteq Row /\ Pending(r) \subseteq signals
  BY <1>1, Zenon DEF Pending, SignalsTypeOK
<1>4. fresh \subseteq Waiting
  <2>1. d \in Nat
    BY <1>1, JobFields
  <2> HIDE DEF d
  <2> QED
    BY <1>3, <2>1 DEF Row, Waiting
<1>5. todo \in SUBSET Waiting
  BY <1>1, <1>4, JobFields, Zenon
<1>6. ASSUME NEW x \in fresh PROVE \E y \in Pending(r) : Replayable(y.msg) /\ x = copy(y) /\ x.msg = y.msg
  OBVIOUS
<1>7. ASSUME NEW y \in Pending(r), Replayable(y.msg) PROVE copy(y) \in fresh /\ copy(y).msg = y.msg
  BY <1>7
<1>8. fate \in [Message -> Fate]
  BY <1>1, Zenon DEF SignalsTypeOK
<1>9. /\ fate' \in [Message -> Fate]
      /\ \A m \in Message : IF ~Replayable(m) /\ \E x \in Pending(r) : x.msg = m
                              THEN fate'[m] = "dropped" ELSE fate'[m] = fate[m]
  BY <1>2, <1>8 DEF Drop, Fate
<1> HIDE DEF d, fresh, copy
<1>10. ASSUME NEW m \in Message PROVE PlaceOK(m)'
  <2>1. ~AtHand(j, m)
    BY DEF AtHand
  <2>2. \A x : x \in RowsOf(m)' <=> x \in RowsOf(m) /\ x \notin Pending(r)
    BY <1>2, Zenon DEF RowsOf
  <2>3. (NoRun(m)' <=> NoRun(m)) /\ \A p \in Process : BatchOf(p, m)' = BatchOf(p, m)
    BY Zenon DEF NoRun, BatchOf, queueVars
  <2>4. CASE \A x \in Pending(r) : x.msg # m
    <3>1. \A x \in fresh : x.msg # m
      BY <1>6, <2>4, Zenon
    <3>2. {x \in todo : x.msg = m} = WaitsOf(j, m)
      BY <3>1, Zenon DEF WaitsOf
    <3>3. RowsOf(m)' = RowsOf(m)
      BY <2>2, <2>4, Zenon DEF RowsOf
    <3>4. NoEnd(m)' <=> NoEnd(m)
      BY <1>9, <2>4, Zenon DEF NoEnd
    <3> HIDE DEF todo
    <3> QED
      BY <1>2, <1>5, <2>1, <2>3, <3>2, <3>3, <3>4, PlaceProceeds, Zenon
  <2>5. ASSUME NEW x \in Pending(r), x.msg = m PROVE PlaceOK(m)'
    <3>1. x \in RowsOf(m)
      BY <1>3, <2>5, Zenon DEF RowsOf
    <3>2. /\ OneRow(m) /\ NoCall(m) /\ NoPoll(m) /\ NoRun(m) /\ NoEnd(m) /\ kind[m] # "none"
      BY <1>1, <3>1, Elsewhere, Zenon DEF NoRow, Nowhere
    <3>3. \A y \in RowsOf(m) : y = x
      BY <3>1, <3>2, Zenon DEF OneRow
    <3>4. NoRow(m)'
      BY <2>2, <2>5, <3>3, Zenon DEF NoRow
    <3>5. WaitsOf(j, m) = {} /\ \A y \in job[j].todo : y.msg # m
      BY <3>2, Zenon DEF NoCall, NotAt, WaitsOf
    <3>6. ASSUME NEW i \in Job, i # j PROVE NotAt(i, m)'
      <4>1. job'[i] = job[i]
        BY <1>1, <1>2, <1>5, <3>6, Proceeds, Zenon
      <4> QED
        BY <3>2, <4>1, Zenon DEF NoCall, NotAt, AtHand, WaitsOf
    <3>7. NoPoll(m)' /\ NoRun(m)'
      BY <2>3, <3>2, Zenon DEF NoPoll
    <3>8. CASE Replayable(m)
      <4>1. ASSUME NEW y \in todo, y.msg = m PROVE y = copy(x)
        <5>1. y \in fresh
          BY <3>5, <4>1, Zenon
        <5>2. PICK z \in Pending(r) : y = copy(z) /\ z.msg = m
          BY <1>6, <4>1, <5>1, Zenon
        <5>3. z \in RowsOf(m)
          BY <1>3, <5>2, Zenon DEF RowsOf
        <5> QED
          BY <3>3, <5>2, <5>3, Zenon
      <4>2. copy(x) \in todo /\ copy(x).msg = m
        BY <1>7, <2>5, <3>8, Zenon
      <4>3. {y \in todo : y.msg = m} = {copy(x)}
        BY <4>1, <4>2, Zenon
      <4> HIDE DEF todo
      <4>4. OnceAt(j, m)'
        BY <1>1, <1>2, <1>5, <4>3, Advance, Zenon
      <4>5. NoEnd(m)'
        BY <1>9, <3>2, <3>8, Zenon DEF NoEnd
      <4> QED
        BY <3>2, <3>4, <3>6, <3>7, <4>4, <4>5, Zenon DEF PlaceOK, Placed, OneCall
    <3>9. CASE ~Replayable(m)
      <4>1. {y \in todo : y.msg = m} = {}
        BY <1>6, <3>5, <3>9, Zenon
      <4> HIDE DEF todo
      <4>2. NotAt(j, m)'
        BY <1>1, <1>2, <1>5, <4>1, Advance, Zenon
      <4>3. fate'[m] = "dropped"
        BY <1>9, <2>5, <3>9, Zenon
      <4>4. ~NoEnd(m)'
        BY <4>3 DEF NoEnd
      <4> QED
        BY <3>2, <3>4, <3>6, <3>7, <4>2, <4>4, Zenon DEF PlaceOK, Placed, NoCall
    <3> QED
      BY <3>8, <3>9, Zenon
  <2> QED
    BY <2>4, <2>5, Zenon
<1>11. /\ faults' \in Nat /\ signals' \subseteq signals
       /\ \A m \in Message : fate'[m] = fate[m] \/ fate'[m] \in {"dropped", "lost"}
  BY <1>1, <1>2, <1>9, Zenon DEF SignalsTypeOK
<1> HIDE DEF todo
<1> QED
  BY <1>2, <1>5, <1>9, <1>10, <1>11, JobGoesOn, Zenon

(* The end of a run starts the replay of its signals.                      *)
LEMMA Listens ==
  ASSUME SignalsIInv, NEW r \in Message, listener(r) PROVE SignalsIInv'
<1>1. <<"end", r>> \in Job /\ job[<<"end", r>>].pc \in {"none", "take", "check"}
      /\ job[<<"end", r>>].pc # "none"
  BY Jobs, Zenon DEF listener
<1>2. /\ replayOrphanedRunSignals(<<"end", r>>, r)
      /\ UNCHANGED <<sessionVars, queueVars, serial, sentAt, kind, turn, faults, stalled>>
  BY Zenon DEF listener, Quiet, faultVars
<1> QED
  BY <1>1, <1>2, Replays, Zenon

(* The sweeper starts the replay of what an ended run left.                *)
LEMMA Sweeps ==
  ASSUME SignalsIInv, NEW p \in Process, NEW r \in Message, orphanedSignalSweeper(p, r)
  PROVE  SignalsIInv'
<1> DEFINE j == <<"sweep", p>>
<1>1. j \in Job /\ job[j].pc \in {"none", "take", "check"}
  BY Jobs DEF orphanedSignalSweeper
<1>2. \A m \in Message : j # <<"turn", m>> /\ j # <<"end", m>>
  OBVIOUS
<1>3. /\ replayOrphanedRunSignals(j, r)
      /\ UNCHANGED <<sessionVars, queueVars, serial, sentAt, kind, turn, faults, stalled>>
  BY Zenon DEF orphanedSignalSweeper, Quiet, faultVars
<1> HIDE DEF j
<1> QED
  BY <1>1, <1>2, <1>3, Replays, Zenon

(* A job reads again whether the run it sent to has ended.                 *)
LEMMA Checks ==
  ASSUME SignalsIInv, NEW j \in Job, check(j) PROVE SignalsIInv'
<1>1. /\ job[j].pc = "check"
      /\ UNCHANGED <<sessionVars, queueVars, serial, sentAt, kind, turn, faults, stalled>>
  BY Zenon DEF check, Quiet, faultVars
<1>2. job[j].pc \in {"none", "take", "check"} /\ job[j].pc # "none"
  BY <1>1
<1>3. CASE isTerminal(job[j].to)
  <2>1. replayOrphanedRunSignals(j, job[j].to)
    BY <1>3, Zenon DEF check
  <2> QED
    BY <1>1, <1>2, <2>1, Replays, Zenon
<1>4. CASE ~isTerminal(job[j].to)
  <2>1. Proceed(j, job[j].todo) /\ signals' = signals /\ fate' = fate
    BY <1>4, Zenon DEF check
  <2>2. SignalsTypeOK /\ job[j] \in JobState /\ job[j].todo \in SUBSET Waiting
    BY Fields, JobFields, Zenon DEF SignalsIInv
  <2>3. ASSUME NEW m \in Message PROVE PlaceOK(m)'
    <3>1. ~AtHand(j, m) /\ {x \in job[j].todo : x.msg = m} = WaitsOf(j, m)
      BY <1>1 DEF AtHand, WaitsOf
    <3>2. RowsOf(m)' = RowsOf(m) /\ (NoRun(m)' <=> NoRun(m)) /\ (NoEnd(m)' <=> NoEnd(m))
      BY <1>1, <2>1, Zenon DEF RowsOf, NoRun, NoEnd, queueVars
    <3> QED
      BY <1>1, <2>1, <2>2, <3>1, <3>2, PlaceProceeds, Zenon
  <2>4. /\ faults' \in Nat
        /\ fate' \in [Message -> Fate]
    BY <1>1, <2>1, <2>2, Zenon DEF SignalsTypeOK
  <2> QED
    BY <1>1, <1>2, <2>1, <2>2, <2>3, <2>4, JobGoesOn, Zenon
<1> QED
  BY <1>3, <1>4, Zenon

(* A message at hand comes to its end, or to a run of its own.             *)
LEMMA HandSettles ==
  ASSUME SignalsIInv, NEW j \in Job, NEW n \in Message, AtHand(j, n),
         Proceed(j, job[j].todo), UNCHANGED <<kind, turn, signals>>,
         \A m \in Message : m # n => (NoRun(m)' <=> NoRun(m)) /\ (NoEnd(m)' <=> NoEnd(m)),
         (NoRun(n)' /\ ~NoEnd(n)') \/ (~NoRun(n)' /\ NoEnd(n)')
  PROVE  \A m \in Message : PlaceOK(m)'
<1> TAKE m \in Message
<1>1. SignalsTypeOK /\ job[j] \in JobState /\ job[j].todo \in SUBSET Waiting /\ PlaceOK(m)
  BY Fields, JobFields, Zenon DEF SignalsIInv
<1>2. {x \in job[j].todo : x.msg = m} = WaitsOf(j, m)
  BY Zenon DEF WaitsOf
<1>3. RowsOf(m)' = RowsOf(m) /\ \A p \in Process : BatchOf(p, m)' = BatchOf(p, m)
  BY Zenon DEF RowsOf, BatchOf
<1>4. CASE m # n
  <2>1. ~AtHand(j, m)
    BY <1>4, Zenon DEF AtHand
  <2> QED
    BY <1>1, <1>2, <1>3, <1>4, <2>1, PlaceProceeds, Zenon
<1>5. CASE m = n
  <2>1. /\ kind[m] # "none" /\ OnceAt(j, m) /\ (\A i \in Job : i # j => NotAt(i, m))
        /\ NoRow(m) /\ NoPoll(m)
    BY <1>1, <1>5, WithJob, Zenon DEF NotAt
  <2>2. NotAt(j, m)'
    BY <1>1, <1>2, <1>5, <2>1, Advance, Zenon DEF OnceAt
  <2>3. ASSUME NEW i \in Job, i # j PROVE NotAt(i, m)'
    <3>1. job'[i] = job[i]
      BY <1>1, <2>3, Proceeds, Zenon
    <3> QED
      BY <2>1, <2>3, <3>1, Zenon DEF NotAt, AtHand, WaitsOf
  <2>4. NoCall(m)' /\ NoRow(m)' /\ NoPoll(m)'
    BY <1>3, <2>1, <2>2, <2>3, Zenon DEF NoCall, NoRow, NoPoll
  <2> QED
    BY <1>5, <2>1, <2>4, Zenon DEF PlaceOK, Placed
<1> QED
  BY <1>4, <1>5, Zenon

(* A replayed turn throws, and its message is lost.                        *)
LEMMA ReplayFails ==
  ASSUME SignalsIInv, NEW j \in Job, replayThrows(j) PROVE SignalsIInv'
<1>1. PICK n : n = job[j].msg
  OBVIOUS
<1>2. /\ job[j].pc = "look" /\ faults' = faults + 1 /\ fate' = [fate EXCEPT ![n] = "lost"]
      /\ Proceed(j, job[j].todo)
      /\ UNCHANGED <<sessionVars, queueVars, kind, signals, serial, sentAt, turn, stalled>>
  BY <1>1, Zenon DEF replayThrows, Fault, tableVars
<1>3. /\ SignalsTypeOK /\ job[j] \in JobState /\ job[j].todo \in SUBSET Waiting /\ JobOK(j)
      /\ \A m \in Message : PlaceOK(m)
  BY Fields, JobFields, Zenon DEF SignalsIInv
<1>4. n \in Message /\ AtHand(j, n) /\ job[j].pc # "none"
  BY <1>1, <1>2, <1>3 DEF JobOK, AtHand
<1>5. fate \in [Message -> Fate] /\ faults \in Nat
  BY <1>3, Zenon DEF SignalsTypeOK
<1>6. /\ fate' \in [Message -> Fate]
      /\ fate'[n] = "lost" /\ \A m \in Message : m # n => fate'[m] = fate[m]
  BY <1>2, <1>4, <1>5 DEF Fate
<1>7. NoRun(n)
  BY <1>3, <1>4, WithJob, Zenon DEF NotAt
<1>8. ASSUME NEW m \in Message PROVE NoRun(m)' <=> NoRun(m)
  BY <1>2, Zenon DEF NoRun, queueVars
<1>9. ~NoEnd(n)' /\ \A m \in Message : m # n => (NoEnd(m)' <=> NoEnd(m))
  BY <1>6 DEF NoEnd
<1>10. \A m \in Message : PlaceOK(m)'
  BY <1>2, <1>4, <1>7, <1>8, <1>9, HandSettles, Zenon
<1>11. faults' \in Nat
  BY <1>2, <1>5
<1>12. \A m \in Message : fate'[m] = fate[m] \/ fate'[m] \in {"dropped", "lost"}
  BY <1>6, Zenon
<1>13. signals' \subseteq signals
  BY <1>2, Zenon
<1> QED
  BY <1>2, <1>3, <1>4, <1>6, <1>10, <1>11, <1>12, <1>13, JobGoesOn, Zenon

(* A message without text is dropped while a run would hear it.            *)
LEMMA DropsEmpty ==
  ASSUME SignalsIInv, NEW j \in Job, dropEmpty(j) PROVE SignalsIInv'
<1>1. PICK n : n = job[j].msg
  OBVIOUS
<1>2. /\ job[j].pc = "look" /\ faults' = faults /\ fate' = [fate EXCEPT ![n] = "dropped"]
      /\ Proceed(j, job[j].todo)
      /\ UNCHANGED <<sessionVars, queueVars, kind, signals, serial, sentAt, turn, stalled>>
  BY <1>1, Zenon DEF dropEmpty, Quiet, faultVars, tableVars
<1>3. /\ SignalsTypeOK /\ job[j] \in JobState /\ job[j].todo \in SUBSET Waiting /\ JobOK(j)
      /\ \A m \in Message : PlaceOK(m)
  BY Fields, JobFields, Zenon DEF SignalsIInv
<1>4. n \in Message /\ AtHand(j, n) /\ job[j].pc # "none"
  BY <1>1, <1>2, <1>3 DEF JobOK, AtHand
<1>5. fate \in [Message -> Fate] /\ faults \in Nat
  BY <1>3, Zenon DEF SignalsTypeOK
<1>6. /\ fate' \in [Message -> Fate]
      /\ fate'[n] = "dropped" /\ \A m \in Message : m # n => fate'[m] = fate[m]
  BY <1>2, <1>4, <1>5 DEF Fate
<1>7. NoRun(n)
  BY <1>3, <1>4, WithJob, Zenon DEF NotAt
<1>8. ASSUME NEW m \in Message PROVE NoRun(m)' <=> NoRun(m)
  BY <1>2, Zenon DEF NoRun, queueVars
<1>9. ~NoEnd(n)' /\ \A m \in Message : m # n => (NoEnd(m)' <=> NoEnd(m))
  BY <1>6 DEF NoEnd
<1>10. \A m \in Message : PlaceOK(m)'
  BY <1>2, <1>4, <1>7, <1>8, <1>9, HandSettles, Zenon
<1>11. faults' \in Nat
  BY <1>2, <1>5
<1>12. \A m \in Message : fate'[m] = fate[m] \/ fate'[m] \in {"dropped", "lost"}
  BY <1>6, Zenon
<1>13. signals' \subseteq signals
  BY <1>2, Zenon
<1> QED
  BY <1>2, <1>3, <1>4, <1>6, <1>10, <1>11, <1>12, <1>13, JobGoesOn, Zenon

(* A job turns its message into a run.                                     *)
LEMMA Enqueues ==
  ASSUME SignalsIInv, NEW j \in Job, enqueue(j) PROVE SignalsIInv'
<1>1. PICK n : n = job[j].msg
  OBVIOUS
<1>2. /\ SignalsTypeOK /\ RunsOK /\ (\A i \in Job : JobOK(i)) /\ TableOK
      /\ (\A p \in Process : TurnOK(p)) /\ (\A p, q \in Process : Apart(p, q))
      /\ (\A m \in Message : PlaceOK(m))
      /\ job[j] \in JobState /\ job[j].todo \in SUBSET Waiting
  BY Fields, JobFields, Zenon DEF SignalsIInv
<1>3. /\ job[j].pc = "enqueue" /\ Proceed(j, job[j].todo) /\ born' = Append(born, n)
      /\ phase[n] = "absent" /\ phase' = [phase EXCEPT ![n] = "pending"]
      /\ UNCHANGED <<sessionVars, leases, issued, log, spell, kind, fate, signals, serial, sentAt>>
      /\ UNCHANGED <<turn, faults, stalled>>
  BY <1>1, Zenon DEF enqueue, Queue!Submit, sessionVars, messageVars, tableVars, Quiet, faultVars
<1>4. n \in Message /\ AtHand(j, n) /\ job[j].pc # "none"
  BY <1>1, <1>2, <1>3 DEF JobOK, AtHand
<1>5. /\ phase \in [Message -> Queue!Phase] /\ born \in Seq(Message)
  BY <1>2, Zenon DEF SignalsTypeOK
<1>6. /\ phase' \in [Message -> Queue!Phase] /\ phase'[n] = "pending"
      /\ \A m \in Message : m # n => phase'[m] = phase[m]
  BY <1>3, <1>4, <1>5 DEF Queue!Phase
<1>7. /\ born' \in Seq(Message) /\ DOMAIN born' = 1..Len(born) + 1 /\ DOMAIN born = 1..Len(born)
      /\ Len(born) \in Nat /\ born'[Len(born) + 1] = n
      /\ \A i \in DOMAIN born : born'[i] = born[i] /\ born[i] \in Message
  BY <1>3, <1>4, <1>5
<1>8. SignalsTypeOK'
  <2>1. job' \in [Job -> JobState]
    BY <1>2, <1>3, Proceeds, Zenon
  <2> QED
    BY <1>2, <1>3, <1>6, <1>7, <2>1, Zenon DEF SignalsTypeOK, SessionTypeOK
<1>9. /\ \A m \in Message : phase[m] # "absent" => phase'[m] # "absent"
      /\ \A m \in Message : isTerminal(m) => isTerminal(m)'
      /\ \A m \in Message : phase'[m] = "running" <=> phase[m] = "running"
  BY <1>3, <1>6 DEF isTerminal
<1>10. RunsOK'
  <2>1. ASSUME NEW m \in Message, phase'[m] \in {"absent", "pending"} PROVE spell'[m] < MaxSpells
    <3>1. phase[m] \in {"absent", "pending"}
      BY <1>3, <1>6, <2>1
    <3> QED
      BY <1>2, <1>3, <3>1, Zenon DEF RunsOK
  <2>2. ASSUME NEW m \in Message, phase'[m] = "absent" PROVE spell'[m] = 0
    <3>1. phase[m] = "absent"
      BY <1>3, <1>6, <2>2
    <3> QED
      BY <1>2, <1>3, <3>1, Zenon DEF RunsOK
  <2>3. ASSUME NEW i \in DOMAIN born' PROVE phase'[born'[i]] # "absent"
    <3>1. CASE i \in DOMAIN born
      BY <1>2, <1>7, <1>9, <3>1, Zenon DEF RunsOK
    <3>2. CASE i \notin DOMAIN born
      <4>1. i = Len(born) + 1
        BY <1>7, <2>3, <3>2
      <4> QED
        BY <1>6, <1>7, <4>1
    <3> QED
      BY <3>1, <3>2, Zenon
  <2>4. \A r, q \in Message : phase'[r] = "running" /\ phase'[q] = "running" => r = q
    BY <1>2, <1>9, Zenon DEF RunsOK
  <2> QED
    BY <2>1, <2>2, <2>3, <2>4, Zenon DEF RunsOK
<1>11. \A i \in Job : JobOK(i)'
  BY <1>2, <1>3, <1>4, <1>9, JobProceeds, Zenon
<1>12. ASSUME NEW p \in Process PROVE TurnOK(p)'
  <2>1. TurnOK(p)
    BY <1>2
  <2>2. turn[p].pc # "idle" => (Current(p)' <=> Current(p)) /\ phase'[turn[p].run] # "absent"
    BY <1>3, <1>9, <2>1, Zenon DEF Current, TurnOK
  <2>3. holdsSession(p)' <=> holdsSession(p)
    BY <1>3, Zenon DEF holdsSession, HoldsLease
  <2> QED
    BY <1>3, <2>1, <2>2, <2>3, Zenon DEF TurnOK
<1>13. \A p, q \in Process : Apart(p, q)'
  BY <1>2, <1>3, Zenon DEF Apart
<1>14. TableOK'
  <2>1. /\ \A x \in signals : x.to \in Message
        /\ \A p \in Process : \A x \in turn[p].batch : x.to \in Message
    BY <1>2, Fields, TurnFields, RowFields, Zenon DEF SignalsTypeOK
  <2>2. ASSUME NEW x, x.to \in Message, RowOK(x) PROVE RowOK(x)'
    BY <1>3, <1>9, <2>2, Zenon DEF RowOK
  <2> QED
    BY <1>2, <1>3, <2>1, <2>2, Zenon DEF TableOK
<1>15. \A m \in Message : PlaceOK(m)'
  <2>1. \A m \in Message : m # n => (NoRun(m)' <=> NoRun(m)) /\ (NoEnd(m)' <=> NoEnd(m))
    BY <1>3, <1>6, Zenon DEF NoRun, NoEnd
  <2>2. NoEnd(n)
    BY <1>2, <1>4, WithJob, Zenon DEF NotAt
  <2>3. ~NoRun(n)' /\ NoEnd(n)'
    BY <1>3, <1>6, <2>2 DEF NoRun, NoEnd
  <2> QED
    BY <1>3, <1>4, <2>1, <2>3, HandSettles, Zenon
<1>16. RecordsOK'
  BY <1>3, <1>9, RecordsJob, Zenon
<1> QED
  BY <1>8, <1>10, <1>11, <1>12, <1>13, <1>14, <1>15, <1>16, Zenon DEF SignalsIInv

(* A job inserts its message as a signal of a run.                         *)
LEMMA Sends ==
  ASSUME SignalsIInv, NEW j \in Job, send(j) PROVE SignalsIInv'
<1> DEFINE y == [job[j] EXCEPT !.pc = "check"]
<1>1. PICK n, r, row :
        n = job[j].msg /\ r = job[j].to /\ row = [to |-> r, msg |-> n, id |-> serial + 1]
  BY Zenon
<1>2. /\ SignalsTypeOK /\ RunsOK /\ (\A i \in Job : JobOK(i)) /\ TableOK /\ RecordsOK
      /\ (\A p \in Process : TurnOK(p)) /\ (\A p, q \in Process : Apart(p, q))
      /\ (\A m \in Message : PlaceOK(m))
      /\ job[j] \in JobState /\ serial \in Nat /\ \A m \in Message : sentAt[m] \in Nat
  BY Fields, Zenon DEF SignalsIInv
<1>3. /\ job[j].pc = "send" /\ serial' = serial + 1 /\ signals' = signals \cup {row}
      /\ sentAt' = [sentAt EXCEPT ![n] = serial'] /\ job' = [job EXCEPT ![j] = y]
      /\ UNCHANGED <<leases, issued, log, phase, born, spell, kind, fate, turn, faults, stalled>>
      /\ UNCHANGED queueVars
  BY <1>1, Zenon DEF send, sessionVars, queueVars, messageVars, Quiet, faultVars
<1>4. n \in Message /\ AtHand(j, n) /\ r \in Message /\ phase[r] # "absent"
  BY <1>1, <1>2, <1>3 DEF JobOK, AtHand
<1>5. /\ y \in JobState /\ y.pc = "check" /\ y.msg = n /\ y.todo = job[j].todo /\ y.to = r
  BY <1>1, <1>2 DEF JobState
<1>6. serial' \in Nat /\ serial < serial' /\ serial' # 0
  BY <1>2, <1>3
<1>7. row \in Row /\ row.to = r /\ row.msg = n /\ row.id = serial'
  BY <1>1, <1>3, <1>4, <1>6 DEF Row
<1> HIDE DEF y
<1>8. job' \in [Job -> JobState] /\ job'[j] = y /\ \A i \in Job : i # j => job'[i] = job[i]
  BY <1>2, <1>3, <1>5, JobSet, Zenon
<1>9. /\ sentAt' \in [Message -> Nat] /\ sentAt'[n] = serial'
      /\ \A m \in Message : m # n => sentAt'[m] = sentAt[m]
  BY <1>2, <1>3, <1>4, <1>6, Zenon DEF SignalsTypeOK
<1>10. SignalsTypeOK'
  <2>1. signals' \subseteq Row
    BY <1>2, <1>3, <1>7, Zenon DEF SignalsTypeOK
  <2> QED
    BY <1>2, <1>3, <1>6, <1>8, <1>9, <2>1, Zenon DEF SignalsTypeOK, SessionTypeOK
<1>11. NoRow(n) /\ NoPoll(n) /\ NoRun(n) /\ NoEnd(n) /\ kind[n] # "none"
       /\ OnceAt(j, n) /\ \A i \in Job : i # j => NotAt(i, n)
  BY <1>2, <1>4, WithJob, Zenon DEF NotAt
<1>12. n # r /\ ~InTranscript(n)
  BY <1>2, <1>4, <1>11, Zenon DEF NoRun, NoEnd, RecordsOK, Begun
<1>13. ASSUME NEW i \in Job PROVE JobOK(i)'
  <2>1. JobOK(i)
    BY <1>2
  <2>2. CASE i # j
    BY <1>3, <1>8, <2>1, <2>2, Zenon DEF JobOK, isTerminal
  <2>3. CASE i = j
    <3>1. "check" \notin {"none", "take"} /\ job[j].pc # "none"
      BY <1>3
    <3> QED
      BY <1>3, <1>4, <1>5, <1>8, <2>1, <2>3, <3>1, Zenon DEF JobOK, isTerminal
  <2> QED
    BY <2>2, <2>3, Zenon
<1>14. TableOK'
  <2>1. ASSUME NEW x \in Row, RowOK(x), x.msg # n PROVE RowOK(x)' /\ x.id < serial'
    <3>1. x.to \in Message /\ x.msg \in Message /\ x.id \in Nat
      BY RowFields, Zenon
    <3>2. x.to # n
      BY <1>11, <2>1, Zenon DEF RowOK, NoRun
    <3>3. sentAt'[x.to] = sentAt[x.to] /\ sentAt'[x.msg] = sentAt[x.msg]
      BY <1>9, <2>1, <3>1, <3>2, Zenon
    <3>4. x.id <= serial
      BY <2>1, Zenon DEF RowOK
    <3>5. x.id < serial' /\ x.id <= serial'
      BY <1>2, <1>6, <3>1, <3>4
    <3> QED
      BY <1>3, <2>1, <3>3, <3>5, Zenon DEF RowOK
  <2>2. \A x \in signals : x \in Row /\ RowOK(x) /\ x.msg # n
    BY <1>2, <1>11, Zenon DEF SignalsTypeOK, TableOK, NoRow, RowsOf
  <2>3. \A p \in Process : \A x \in turn[p].batch : x \in Row /\ RowOK(x) /\ x.msg # n
    BY <1>2, <1>11, Fields, TurnFields, Zenon DEF TableOK, NoPoll, BatchOf
  <2>4. \A m \in Message : m # n => sentAt[m] <= serial
    BY <1>2, Zenon DEF TableOK
  <2>5. \A m \in Message : sentAt'[m] <= serial' /\ (m # n => sentAt'[m] < serial')
    BY <1>2, <1>6, <1>9, <2>4
  <2>6. RowOK(row)'
    BY <1>3, <1>4, <1>6, <1>7, <1>9, <1>12, <2>5 DEF RowOK
  <2>7. \A m, o \in Message : sentAt'[m] = sentAt'[o] => sentAt'[m] = 0 \/ m = o
    <3>1. \A m, o \in Message : sentAt[m] = sentAt[o] => sentAt[m] = 0 \/ m = o
      BY <1>2, Zenon DEF TableOK
    <3>2. \A m \in Message : m # n => sentAt'[m] # serial'
      BY <1>9, <1>6, <2>5
    <3> QED
      BY <1>9, <3>1, <3>2, Zenon
  <2>8. ASSUME NEW p \in Process, NEW x \in turn[p].batch
        PROVE  RowOK(x)' /\ x.to = turn[p].run /\ \A z \in signals' : z.to = x.to => x.id < z.id
    <3>1. RowOK(x)' /\ x.id < serial'
      BY <2>1, <2>3, Zenon
    <3> QED
      BY <1>2, <1>3, <1>7, <3>1, Zenon DEF TableOK
  <2>9. \A x \in signals' : RowOK(x)'
    BY <1>3, <2>1, <2>2, <2>6, Zenon
  <2>10. \A m \in Message : sentAt'[m] <= serial'
    BY <2>5, Zenon
  <2> QED
    BY <1>3, <2>7, <2>8, <2>9, <2>10, Zenon DEF TableOK
<1>15. ASSUME NEW m \in Message PROVE PlaceOK(m)'
  <2>1. \A p \in Process : BatchOf(p, m)' = BatchOf(p, m)
    BY <1>3, Zenon DEF BatchOf
  <2>2. \A i \in Job : WaitsOf(i, m)' = WaitsOf(i, m)
    BY <1>5, <1>8, Zenon DEF WaitsOf
  <2>3. \A i \in Job : i # j => (AtHand(i, m)' <=> AtHand(i, m))
    BY <1>8, Zenon DEF AtHand
  <2>4. ~AtHand(j, m)'
    BY <1>5, <1>8 DEF AtHand
  <2>5. (NoRun(m)' <=> NoRun(m)) /\ (NoEnd(m)' <=> NoEnd(m))
    BY <1>3, Zenon DEF NoRun, NoEnd
  <2>6. CASE m # n
    <3>1. ~AtHand(j, m)
      BY <1>1, <2>6, Zenon DEF AtHand
    <3>2. RowsOf(m)' = RowsOf(m)
      BY <1>3, <1>7, <2>6, Zenon DEF RowsOf
    <3> QED
      BY <1>2, <1>3, <2>1, <2>2, <2>3, <2>4, <2>5, <3>1, <3>2, PlaceKept, Zenon
  <2>7. CASE m = n
    <3>1. RowsOf(m)' = {row}
      BY <1>3, <1>7, <1>11, <2>7, Zenon DEF RowsOf, NoRow
    <3>2. OneRow(m)' /\ NoPoll(m)'
      BY <1>11, <2>1, <2>7, <3>1, Zenon DEF OneRow, NoPoll
    <3>3. NoCall(m)'
      BY <1>4, <1>11, <2>2, <2>3, <2>4, <2>7, Zenon DEF NoCall, NotAt, OnceAt
    <3> QED
      BY <1>3, <1>11, <2>5, <2>7, <3>2, <3>3, Zenon DEF PlaceOK, Placed
  <2> QED
    BY <2>6, <2>7, Zenon
<1>16. RecordsOK'
  <2>1. transcript' = transcript
    BY <1>3, Zenon DEF transcript
  <2>2. \A i \in DOMAIN transcript : transcript[i].record \in Message =>
          /\ sentAt'[transcript[i].record] = sentAt[transcript[i].record]
          /\ sentAt[transcript[i].record] < serial'
    <3>1. ASSUME NEW i \in DOMAIN transcript, transcript[i].record \in Message
          PROVE  transcript[i].record # n
      BY <1>12, Zenon DEF InTranscript
    <3>2. \A m \in Message : m # n => sentAt'[m] = sentAt[m] /\ sentAt[m] < serial'
      <4>1. \A m \in Message : sentAt[m] <= serial
        BY <1>2, Zenon DEF TableOK
      <4> QED
        BY <1>2, <1>6, <1>9, <4>1
    <3> QED
      BY <3>1, <3>2, Zenon
  <2>3. ASSUME NEW p \in Process PROVE Ahead(p)'
    <3>1. Ahead(p)
      BY <1>2, Zenon DEF RecordsOK
    <3>2. turn' = turn /\ \A x \in signals' : x \in signals \/ (x = row /\ row.id = serial')
      BY <1>3, <1>7, Zenon
    <3> SUFFICES ASSUME NEW i \in DOMAIN transcript, turn[p].lease # 0,
                        transcript[i].token = turn[p].lease
                 PROVE  /\ turn[p].pc # "leased"
                        /\ transcript[i].record \in Message =>
                             /\ \A x \in turn[p].batch : sentAt'[transcript[i].record] < x.id
                             /\ \A x \in signals' : x.to = turn[p].run
                                                      => sentAt'[transcript[i].record] < x.id
      BY <2>1, <3>2, Zenon DEF Ahead
    <3> QED
      BY <2>2, <3>1, <3>2, Zenon DEF Ahead
  <2>4. \A m \in Message : (Begun(m)' <=> Begun(m)) /\ (InTranscript(m)' <=> InTranscript(m))
    BY <1>3, <2>1, Zenon DEF Begun, InTranscript
  <2>5. RecordedInOrder'
    <3> SUFFICES ASSUME NEW i \in DOMAIN transcript, NEW k \in DOMAIN transcript, i < k,
                        transcript[i].token = transcript[k].token,
                        {transcript[i].record, transcript[k].record} \subseteq Message
                 PROVE  sentAt'[transcript[i].record] < sentAt'[transcript[k].record]
      BY <2>1, Zenon DEF RecordedInOrder
    <3>1. sentAt[transcript[i].record] < sentAt[transcript[k].record]
      BY <1>2, Zenon DEF RecordsOK, RecordedInOrder
    <3> QED
      BY <2>2, <3>1, Zenon
  <2>6. SteeredIsRecorded'
    BY <1>2, <1>3, <2>4, Zenon DEF RecordsOK, SteeredIsRecorded
  <2>7. RepeatsOnlyWhatIsPast'
    BY <1>2, <1>3, <2>1, Zenon DEF RecordsOK, RepeatsOnlyWhatIsPast
  <2> QED
    BY <1>2, <1>3, <2>1, <2>3, <2>4, <2>5, <2>6, <2>7, Zenon DEF RecordsOK
<1>17. RunsOK'
  BY <1>2, <1>3, RunsKept, Zenon
<1>18. (\A p \in Process : TurnOK(p)') /\ \A p, q \in Process : Apart(p, q)'
  BY <1>2, <1>3, TurnsKept, Zenon
<1> QED
  BY <1>10, <1>13, <1>14, <1>15, <1>16, <1>17, <1>18, Zenon DEF SignalsIInv

-----------------------------------------------------------------------------
(* Turns.                                                                  *)
LEMMA TurnSet ==
  ASSUME SignalsTypeOK, NEW p \in Process, NEW t \in TurnState, turn' = [turn EXCEPT ![p] = t]
  PROVE  /\ turn' \in [Process -> TurnState] /\ turn'[p] = t
         /\ \A q \in Process : q # p => turn'[q] = turn[q]
  BY Zenon DEF SignalsTypeOK

(* A turn that goes on with its run and its lease, if it has one.          *)
Onward(p, t) ==
  /\ turn[p].pc # "idle" /\ turn' = [turn EXCEPT ![p] = t]
  /\ t.run = turn[p].run /\ t.spell = turn[p].spell /\ t.lease = turn[p].lease
  /\ t.batch \subseteq turn[p].batch
  /\ t.pc \notin {"idle", "claimed", "leased"} /\ (t.pc \in Leased => turn[p].pc \in Leased)
  /\ t.poll # "off" => t.pc \in {"streaming", "ended", "stopping"}
  /\ t.poll # "dispatching" => t.batch = {}
  /\ UNCHANGED <<issued, queueVars, job, tableVars, kind, stalled>>
  /\ \/ leases'[Thread].token = leases[Thread].token
     \/ leases[Thread].token = turn[p].lease /\ t.pc \notin Leased

(* A turn that goes on keeps what is known of the runs, jobs, rows and     *)
(* turns.                                                                  *)
LEMMA TurnGoesOn ==
  ASSUME SignalsIInv, NEW p \in Process, NEW t \in TurnState, Onward(p, t)
  PROVE  /\ turn' \in [Process -> TurnState]
         /\ RunsOK' /\ (\A j \in Job : JobOK(j)') /\ TableOK'
         /\ (\A q \in Process : TurnOK(q)') /\ \A q, o \in Process : Apart(q, o)'
<1>1. /\ SignalsTypeOK /\ RunsOK /\ (\A i \in Job : JobOK(i)) /\ TableOK
      /\ (\A q \in Process : TurnOK(q)) /\ (\A q, o \in Process : Apart(q, o))
  BY Zenon DEF SignalsIInv
<1>2. /\ UNCHANGED <<issued, phase, born, spell, job, signals, serial, sentAt, kind, stalled>>
      /\ UNCHANGED queueVars
  BY Zenon DEF Onward, queueVars, tableVars
<1>3. /\ turn' \in [Process -> TurnState] /\ turn'[p] = t
      /\ \A q \in Process : q # p => turn'[q] = turn[q]
  BY <1>1, TurnSet, Zenon DEF Onward
<1>4. \A q \in Process : /\ turn'[q].run = turn[q].run /\ turn'[q].spell = turn[q].spell
                         /\ turn'[q].lease = turn[q].lease /\ turn'[q].batch \subseteq turn[q].batch
                         /\ turn'[q].pc # "idle" => turn[q].pc # "idle"
  BY <1>3, Zenon DEF Onward
<1>5. RunsOK' /\ \A j \in Job : JobOK(j)'
  BY <1>1, <1>2, RunsKept, JobsKept, Zenon
<1>6. TableOK'
  BY <1>1, <1>2, <1>4, Zenon DEF TableOK, RowOK
<1>7. ASSUME NEW q \in Process, NEW o \in Process PROVE Apart(q, o)'
  <2>1. Apart(q, o)
    BY <1>1, Zenon
  <2>2. /\ turn'[q].run = turn[q].run /\ turn'[q].spell = turn[q].spell
        /\ turn'[q].lease = turn[q].lease /\ (turn'[q].pc # "idle" => turn[q].pc # "idle")
        /\ turn'[o].run = turn[o].run /\ turn'[o].spell = turn[o].spell
        /\ turn'[o].lease = turn[o].lease /\ (turn'[o].pc # "idle" => turn[o].pc # "idle")
    BY <1>4, Zenon
  <2> QED
    BY <2>1, <2>2 DEF Apart
<1>8. ASSUME NEW q \in Process PROVE TurnOK(q)'
  <2>1. TurnOK(q) /\ TurnOK(p) /\ Apart(p, q)
    BY <1>1
  <2>2. Current(q)' <=> Current(q)
    BY <1>2, <1>4, Zenon DEF Current
  <2>3. ASSUME ~stalled, turn'[q].pc \in Leased PROVE holdsSession(q)'
    <3>1. turn[q].pc \in Leased
      BY <1>3, <2>3, Zenon DEF Onward
    <3>2. turn[q].lease # 0 /\ leases[Thread].token = turn[q].lease
      BY <2>1, <2>3, <3>1, Zenon DEF TurnOK, holdsSession, HoldsLease
    <3>3. leases'[Thread].token = leases[Thread].token
      BY <1>3, <2>1, <2>3, <3>2, Zenon DEF Onward, Apart
    <3> QED
      BY <1>4, <3>2, <3>3, Zenon DEF holdsSession, HoldsLease
  <2>4. CASE q # p
    BY <1>2, <1>3, <2>1, <2>2, <2>3, <2>4, Zenon DEF TurnOK
  <2>5. CASE q = p
    <3>1. /\ turn[p].pc # "idle" /\ t.run = turn[p].run /\ t.spell = turn[p].spell
          /\ t.lease = turn[p].lease /\ (t.pc \in Leased => turn[p].pc \in Leased)
          /\ t.poll # "off" => t.pc \in {"streaming", "ended", "stopping"}
          /\ t.poll # "dispatching" => t.batch = {}
      BY Zenon DEF Onward
    <3> QED
      BY <1>2, <1>3, <2>1, <2>2, <2>3, <2>5, <3>1, Zenon DEF TurnOK
  <2> QED
    BY <2>4, <2>5, Zenon
<1> QED
  BY <1>3, <1>5, <1>6, <1>7, <1>8, Zenon

(* What a poll disposes of has come to its end.                            *)
LEMMA PollSettles ==
  ASSUME SignalsIInv, NEW p \in Process, NEW t \in TurnState, Onward(p, t),
         \A m \in Message : IF \E x \in turn[p].batch : x.msg = m /\ x \notin t.batch
                              THEN fate'[m] # "none" ELSE NoEnd(m)' <=> NoEnd(m)
  PROVE  \A m \in Message : PlaceOK(m)'
<1> TAKE m \in Message
<1>1. SignalsTypeOK /\ PlaceOK(m)
  BY Zenon DEF SignalsIInv
<1>2. UNCHANGED <<phase, job, signals, kind>>
  BY Zenon DEF Onward, queueVars, tableVars
<1>3. /\ turn'[p] = t /\ (\A q \in Process : q # p => turn'[q] = turn[q])
      /\ t.batch \subseteq turn[p].batch
  BY <1>1, TurnSet, Zenon DEF Onward
<1>4. RowsOf(m)' = RowsOf(m) /\ (NoRun(m)' <=> NoRun(m))
  BY <1>2, Zenon DEF RowsOf, NoRun
<1>5. \A j \in Job : (AtHand(j, m)' <=> AtHand(j, m)) /\ WaitsOf(j, m)' = WaitsOf(j, m)
  BY <1>2, Zenon DEF AtHand, WaitsOf
<1>6. \A q \in Process : q # p => BatchOf(q, m)' = BatchOf(q, m)
  BY <1>3, Zenon DEF BatchOf
<1>7. ASSUME NEW x \in turn[p].batch, x.msg = m, x \notin t.batch PROVE PlaceOK(m)'
  <2>1. x \in BatchOf(p, m)
    BY <1>7, Zenon DEF BatchOf
  <2>2. /\ kind[m] # "none" /\ (\E z : BatchOf(p, m) = {z})
        /\ (\A q \in Process : q # p => BatchOf(q, m) = {})
        /\ NoRow(m) /\ NoCall(m) /\ NoRun(m)
    BY <1>1, <2>1, InPoll, Zenon
  <2>3. BatchOf(p, m)' = {}
    <3>1. \A z \in BatchOf(p, m) : z = x
      BY <2>1, <2>2, Zenon
    <3>2. \A z \in BatchOf(p, m)' : z \in BatchOf(p, m) /\ z \in t.batch
      BY <1>3, Zenon DEF BatchOf
    <3>3. ASSUME NEW z \in BatchOf(p, m)' PROVE FALSE
      <4>1. z = x /\ z \in t.batch
        BY <3>1, <3>2, Zenon
      <4> QED
        BY <1>7, <4>1, Zenon
    <3> QED
      BY <3>3, Zenon
  <2>4. NoPoll(m)'
    BY <1>6, <2>2, <2>3, Zenon DEF NoPoll
  <2>5. NoRow(m)' /\ NoCall(m)' /\ NoRun(m)'
    BY <1>4, <1>5, <2>2, Zenon DEF NoRow, NoCall, NotAt
  <2>6. ~NoEnd(m)'
    BY <1>7, Zenon DEF NoEnd
  <2> QED
    BY <1>2, <2>2, <2>4, <2>5, <2>6, Zenon DEF PlaceOK, Placed
<1>8. CASE ~\E x \in turn[p].batch : x.msg = m /\ x \notin t.batch
  <2>1. BatchOf(p, m)' = BatchOf(p, m)
    BY <1>3, <1>8, Zenon DEF BatchOf
  <2>2. NoEnd(m)' <=> NoEnd(m)
    BY <1>8, Zenon
  <2> QED
    BY <1>1, <1>2, <1>4, <1>5, <1>6, <2>1, <2>2, PlaceKept, Zenon
<1> QED
  BY <1>7, <1>8, Zenon

(* What has begun has begun.                                               *)
LEMMA BegunGoesOn ==
  ASSUME SignalsTypeOK, NEW p \in Process, NEW t \in TurnState, Onward(p, t),
         NEW m \in Message, Begun(m)
  PROVE  Begun(m)'
<1>1. UNCHANGED <<phase, spell, stalled>>
  BY Zenon DEF Onward, queueVars
<1>2. turn'[p] = t /\ (\A q \in Process : q # p => turn'[q] = turn[q])
  BY TurnSet, Zenon DEF Onward
<1>3. t.pc \notin {"claimed", "leased"}
  BY Zenon DEF Onward
<1> QED
  BY <1>1, <1>2, <1>3, Zenon DEF Begun

(* A step of a turn that records nothing.                                  *)
LEMMA AheadKept ==
  ASSUME NEW q \in Process, Ahead(q), transcript' = transcript, sentAt' = sentAt,
         turn'[q].lease = turn[q].lease, turn'[q].run = turn[q].run,
         turn'[q].pc = "leased" => turn[q].pc = "leased",
         \A x \in turn'[q].batch : x \in turn[q].batch \/ (x \in signals /\ x.to = turn[q].run),
         signals' \subseteq signals
  PROVE  Ahead(q)'
<1> SUFFICES ASSUME NEW i \in DOMAIN transcript, turn[q].lease # 0,
                    transcript[i].token = turn[q].lease
             PROVE  /\ turn'[q].pc # "leased"
                    /\ transcript[i].record \in Message =>
                         /\ \A x \in turn'[q].batch : sentAt[transcript[i].record] < x.id
                         /\ \A x \in signals' : x.to = turn[q].run
                                                  => sentAt[transcript[i].record] < x.id
  BY Zenon DEF Ahead
<1> QED
  BY Zenon DEF Ahead

(* A step of a turn that writes nothing to the transcript keeps the        *)
(* invariant.                                                              *)
LEMMA TurnIsQuiet ==
  ASSUME SignalsIInv, NEW p \in Process, NEW t \in TurnState, Onward(p, t),
         log' = log, SessionTypeOK', faults' \in Nat,
         leases'[Thread].token \in {0, leases[Thread].token},
         fate' \in [Message -> Fate],
         \A m \in Message : fate[m] # "none" => fate'[m] # "none",
         \A m \in Message : fate'[m] \in {"heard", "unread"} /\ kind[m] = "plain"
                              => fate'[m] = fate[m] \/ InTranscript(m) \/ stalled,
         \A m \in Message : PlaceOK(m)'
  PROVE  SignalsIInv'
<1>1. SignalsTypeOK /\ RecordsOK /\ issued[Thread] \in Nat
  BY Fields, Zenon DEF SignalsIInv
<1>2. UNCHANGED <<issued, phase, born, spell, job, signals, serial, sentAt, kind, stalled>>
  BY Zenon DEF Onward, queueVars, tableVars
<1>3. /\ turn'[p] = t /\ (\A q \in Process : q # p => turn'[q] = turn[q])
      /\ t.lease = turn[p].lease /\ t.run = turn[p].run /\ t.batch \subseteq turn[p].batch
      /\ t.pc # "leased"
  BY <1>1, TurnSet, Zenon DEF Onward
<1>4. /\ turn' \in [Process -> TurnState]
      /\ RunsOK' /\ (\A j \in Job : JobOK(j)') /\ TableOK'
      /\ (\A q \in Process : TurnOK(q)') /\ \A q, o \in Process : Apart(q, o)'
  BY TurnGoesOn, Zenon
<1>5. SignalsTypeOK'
  BY <1>1, <1>2, <1>4, Zenon DEF SignalsTypeOK
<1>6. ASSUME NEW q \in Process PROVE Ahead(q)'
  <2>1. Ahead(q) /\ transcript' = transcript
    BY <1>1, Zenon DEF RecordsOK, transcript
  <2>2. /\ turn'[q].lease = turn[q].lease /\ turn'[q].run = turn[q].run
        /\ turn'[q].pc = "leased" => turn[q].pc = "leased"
        /\ \A x \in turn'[q].batch : x \in turn[q].batch
    BY <1>3, Zenon
  <2>3. sentAt' = sentAt /\ signals' \subseteq signals
    BY <1>2, Zenon
  <2> QED
    BY <2>1, <2>2, <2>3, AheadKept, Zenon
<1>7. \A m \in Message : Begun(m) => Begun(m)'
  BY <1>1, BegunGoesOn, Zenon
<1>8. leases'[Thread].token <= issued'[Thread] /\ issued[Thread] <= issued'[Thread]
      /\ issued'[Thread] \in Nat
  <2>1. leases[Thread].token <= issued[Thread]
    BY <1>1, Zenon DEF RecordsOK
  <2> QED
    BY <1>1, <1>2, <2>1
<1>9. RecordsOK'
  BY <1>2, <1>6, <1>7, <1>8, RecordsKept, Zenon
<1> QED
  BY <1>4, <1>5, <1>9, Zenon DEF SignalsIInv

(* A step that touches neither the session nor what was said.              *)
LEMMA TurnStill ==
  ASSUME SignalsIInv, NEW p \in Process, NEW t \in TurnState, Onward(p, t),
         t.batch = turn[p].batch, UNCHANGED <<log, fate>>, SessionTypeOK', faults' \in Nat,
         leases'[Thread].token \in {0, leases[Thread].token}
  PROVE  SignalsIInv'
<1>1. fate \in [Message -> Fate]
  BY Zenon DEF SignalsIInv, SignalsTypeOK
<1>2. \A m \in Message : PlaceOK(m)'
  <2>1. \A m \in Message : ~\E x \in turn[p].batch : x.msg = m /\ x \notin t.batch
    BY Zenon
  <2>2. \A m \in Message : NoEnd(m)' <=> NoEnd(m)
    BY Zenon DEF NoEnd
  <2> QED
    BY <2>1, <2>2, PollSettles, Zenon
<1> QED
  BY <1>1, <1>2, TurnIsQuiet, Zenon

(* A step that changes only what a turn is doing keeps the invariant.      *)
LEMMA TurnStays ==
  ASSUME SignalsIInv, NEW p \in Process, NEW t \in TurnState,
         turn' = [turn EXCEPT ![p] = t], turn[p].pc # "idle",
         t.run = turn[p].run, t.spell = turn[p].spell, t.lease = turn[p].lease,
         t.batch = turn[p].batch, t.pc \notin {"idle", "claimed", "leased"},
         t.pc \in Leased => turn[p].pc \in Leased,
         t.poll # "off" => t.pc \in {"streaming", "ended", "stopping"},
         t.poll # "dispatching" => t.batch = {},
         UNCHANGED <<sessionVars, queueVars, messageVars, tableVars, job, stalled>>, faults' \in Nat
  PROVE  SignalsIInv'
<1>1. UNCHANGED <<leases, issued, log, kind, fate>>
  BY Zenon DEF sessionVars, messageVars
<1>2. Onward(p, t)
  BY <1>1, Zenon DEF Onward
<1>3. SessionTypeOK' /\ leases'[Thread].token \in {0, leases[Thread].token}
  BY <1>1, Zenon DEF SignalsIInv, SignalsTypeOK, SessionTypeOK
<1> QED
  BY <1>1, <1>2, <1>3, TurnStill, Zenon

(* What the invariant says of one turn.                                    *)
LEMMA TurnGiven ==
  ASSUME SignalsIInv, NEW p \in Process
  PROVE  /\ turn[p] \in TurnState /\ turn \in [Process -> TurnState] /\ TurnOK(p)
         /\ faults \in Nat /\ SignalsTypeOK
  BY Fields, Zenon DEF SignalsIInv, SignalsTypeOK

(* The poll begins to read the table.                                      *)
LEMMA Drains ==
  ASSUME SignalsIInv, NEW p \in Process, drain(p) PROVE SignalsIInv'
<1> DEFINE t == [turn[p] EXCEPT !.poll = "taking"]
<1>1. turn[p] \in TurnState /\ turn \in [Process -> TurnState] /\ TurnOK(p) /\ faults \in Nat
  BY TurnGiven, Zenon
<1>2. /\ turn[p].poll = "quiet" /\ turn[p].pc \in {"streaming", "ended"}
      /\ turn' = [turn EXCEPT ![p].poll = "taking"]
      /\ UNCHANGED <<sessionVars, queueVars, messageVars, tableVars, job, faults, stalled>>
  BY Zenon DEF drain, Quiet, faultVars
<1>3. /\ t \in TurnState /\ t.run = turn[p].run /\ t.spell = turn[p].spell /\ t.lease = turn[p].lease
      /\ t.batch = turn[p].batch /\ t.pc = turn[p].pc /\ t.poll = "taking"
      /\ turn' = [turn EXCEPT ![p] = t]
  BY <1>1, <1>2 DEF TurnState
<1>4. turn[p].batch = {}
  BY <1>1, <1>2 DEF TurnOK
<1> HIDE DEF t
<1>5. /\ turn[p].pc # "idle" /\ t.pc \notin {"idle", "claimed", "leased"}
      /\ t.pc \in {"streaming", "ended", "stopping"}
  BY <1>2, <1>3
<1> QED
  BY <1>1, <1>2, <1>3, <1>4, <1>5, TurnStays, Zenon

(* The prompt is over, or the poll stops.                                  *)
LEMMA PromptOver ==
  ASSUME SignalsIInv, NEW p \in Process, NEW t \in TurnState, turn' = [turn EXCEPT ![p] = t],
         turn[p].pc \in {"streaming", "ended"}, t.pc \in {"ended", "stopping"},
         t.run = turn[p].run, t.spell = turn[p].spell, t.lease = turn[p].lease,
         t.batch = turn[p].batch, t.poll = turn[p].poll,
         UNCHANGED <<sessionVars, queueVars, messageVars, tableVars, job, stalled>>, faults' \in Nat
  PROVE  SignalsIInv'
<1>1. TurnOK(p)
  BY TurnGiven, Zenon
<1>2. /\ turn[p].pc # "idle" /\ t.pc \notin {"idle", "claimed", "leased"}
      /\ t.pc \in {"streaming", "ended", "stopping"} /\ turn[p].pc \in Leased
  BY DEF Leased
<1>3. t.poll # "dispatching" => t.batch = {}
  BY <1>1, Zenon DEF TurnOK
<1> QED
  BY <1>2, <1>3, TurnStays, Zenon

(* The prompt ends or fails, or its turn is told to stop polling.          *)
LEMMA PromptEnds ==
  ASSUME SignalsIInv, NEW p \in Process, promptEnds(p) \/ promptThrows(p) \/ stopSignalPoll(p)
  PROVE  SignalsIInv'
<1>1. turn[p] \in TurnState /\ turn \in [Process -> TurnState] /\ faults \in Nat
  BY TurnGiven, Zenon
<1>2. CASE promptEnds(p)
  <2> DEFINE t == [turn[p] EXCEPT !.pc = "ended"]
  <2>1. /\ turn[p].pc = "streaming" /\ turn' = [turn EXCEPT ![p].pc = "ended"]
        /\ UNCHANGED <<sessionVars, queueVars, messageVars, tableVars, job, faults, stalled>>
    BY <1>2, Zenon DEF promptEnds, Quiet, faultVars
  <2>2. /\ t \in TurnState /\ t.run = turn[p].run /\ t.spell = turn[p].spell
        /\ t.lease = turn[p].lease /\ t.batch = turn[p].batch /\ t.poll = turn[p].poll
        /\ t.pc = "ended" /\ turn' = [turn EXCEPT ![p] = t]
    BY <1>1, <2>1 DEF TurnState
  <2> HIDE DEF t
  <2> QED
    BY <1>1, <2>1, <2>2, PromptOver, Zenon
<1>3. CASE promptThrows(p)
  <2> DEFINE t == [turn[p] EXCEPT !.pc = "ended", !.ok = FALSE]
  <2>1. /\ turn[p].pc = "streaming" /\ turn' = [turn EXCEPT ![p].pc = "ended", ![p].ok = FALSE]
        /\ UNCHANGED <<sessionVars, queueVars, messageVars, tableVars, job, stalled>>
        /\ faults' = faults + 1
    BY <1>3, Zenon DEF promptThrows, Fault
  <2>2. /\ t \in TurnState /\ t.run = turn[p].run /\ t.spell = turn[p].spell
        /\ t.lease = turn[p].lease /\ t.batch = turn[p].batch /\ t.poll = turn[p].poll
        /\ t.pc = "ended" /\ turn' = [turn EXCEPT ![p] = t]
    BY <1>1, <2>1, Zenon DEF TurnState
  <2>3. faults' \in Nat
    BY <1>1, <2>1
  <2> HIDE DEF t
  <2> QED
    BY <2>1, <2>2, <2>3, PromptOver, Zenon
<1>4. CASE stopSignalPoll(p)
  <2> DEFINE t == [turn[p] EXCEPT !.pc = "stopping"]
  <2>1. /\ turn[p].pc = "ended" /\ turn' = [turn EXCEPT ![p].pc = "stopping"]
        /\ UNCHANGED <<sessionVars, queueVars, messageVars, tableVars, job, faults, stalled>>
    BY <1>4, Zenon DEF stopSignalPoll, Quiet, faultVars
  <2>2. /\ t \in TurnState /\ t.run = turn[p].run /\ t.spell = turn[p].spell
        /\ t.lease = turn[p].lease /\ t.batch = turn[p].batch /\ t.poll = turn[p].poll
        /\ t.pc = "stopping" /\ turn' = [turn EXCEPT ![p] = t]
    BY <1>1, <2>1 DEF TurnState
  <2> HIDE DEF t
  <2> QED
    BY <1>1, <2>1, <2>2, PromptOver, Zenon
<1> QED
  BY <1>2, <1>3, <1>4

(* The poll has stopped.                                                   *)
LEMMA PollStops ==
  ASSUME SignalsIInv, NEW p \in Process, pollStopped(p) PROVE SignalsIInv'
<1> DEFINE c == IF turn[p].ok THEN "closing" ELSE "unwind"
           t == [turn[p] EXCEPT !.pc = c, !.poll = "off"]
<1>1. turn[p] \in TurnState /\ turn \in [Process -> TurnState] /\ TurnOK(p) /\ faults \in Nat
  BY TurnGiven, Zenon
<1>2. /\ turn[p].pc = "stopping" /\ turn[p].poll = "quiet"
      /\ turn' = [turn EXCEPT ![p].pc = c, ![p].poll = "off"]
      /\ UNCHANGED <<sessionVars, queueVars, messageVars, tableVars, job, faults, stalled>>
  BY Zenon DEF pollStopped, Quiet, faultVars
<1>3. c \in {"closing", "unwind"}
  OBVIOUS
<1> HIDE DEF c
<1>4. /\ t \in TurnState /\ t.run = turn[p].run /\ t.spell = turn[p].spell /\ t.lease = turn[p].lease
      /\ t.batch = turn[p].batch /\ t.pc = c /\ t.poll = "off" /\ turn' = [turn EXCEPT ![p] = t]
  BY <1>1, <1>2, <1>3 DEF TurnState
<1>5. turn[p].batch = {}
  BY <1>1, <1>2 DEF TurnOK
<1> HIDE DEF t
<1>6. turn[p].pc # "idle" /\ t.pc \notin {"idle", "claimed", "leased"} /\ turn[p].pc \in Leased
  BY <1>2, <1>3, <1>4 DEF Leased
<1>7. faults' \in Nat /\ UNCHANGED <<sessionVars, queueVars, messageVars, tableVars, job, stalled>>
  BY <1>1, <1>2, Zenon
<1> QED
  BY <1>4, <1>5, <1>6, <1>7, TurnStays, Zenon

(* The turn releases its session lease.                                    *)
LEMMA Unwinds ==
  ASSUME SignalsIInv, NEW p \in Process, unwind(p) PROVE SignalsIInv'
<1> DEFINE t == [turn[p] EXCEPT !.pc = "report"]
<1>1. /\ turn[p] \in TurnState /\ turn \in [Process -> TurnState] /\ TurnOK(p) /\ faults \in Nat
      /\ SignalsTypeOK
  BY TurnGiven, Zenon
<1>2. /\ turn[p].pc = "unwind" /\ turn' = [turn EXCEPT ![p].pc = "report"]
      /\ releaseSessionLease(Thread, turn[p].lease)
      /\ UNCHANGED <<queueVars, kind, fate, tableVars, job, faults, stalled>>
  BY Zenon DEF unwind, Quiet, faultVars, messageVars
<1>3. turn[p].lease \in Nat
  BY <1>1, TurnFields, Zenon
<1>4. /\ SessionTypeOK' /\ log' = log /\ issued' = issued
      /\ leases[Thread].token # turn[p].lease => leases'[Thread].token = leases[Thread].token
      /\ leases'[Thread].token \in {0, leases[Thread].token}
  BY <1>1, <1>2, <1>3, Releases, Zenon
<1>5. /\ t \in TurnState /\ t.run = turn[p].run /\ t.spell = turn[p].spell /\ t.lease = turn[p].lease
      /\ t.batch = turn[p].batch /\ t.pc = "report" /\ t.poll = turn[p].poll
      /\ turn' = [turn EXCEPT ![p] = t]
  BY <1>1, <1>2 DEF TurnState
<1> HIDE DEF t
<1>6. turn[p].poll = "off" /\ turn[p].batch = {}
  BY <1>1, <1>2 DEF TurnOK
<1>7. turn[p].pc # "idle" /\ t.pc \notin {"idle", "claimed", "leased"} /\ t.pc \notin Leased
  BY <1>2, <1>5 DEF Leased
<1>8. Onward(p, t)
  BY <1>2, <1>4, <1>5, <1>6, <1>7, Zenon DEF Onward
<1> QED
  BY <1>1, <1>2, <1>4, <1>5, <1>8, TurnStill, Zenon

(* A step of a turn that records w: it was sent after what the turn has    *)
(* recorded, before what it has still to record, and is not the last       *)
(* record already.                                                         *)
Follows(p, t, w) ==
  /\ \A i \in DOMAIN transcript :
       transcript[i].token = turn[p].lease /\ transcript[i].record \in Message
         => sentAt[transcript[i].record] < sentAt[w]
  /\ \A x \in t.batch : sentAt[w] < x.id
  /\ \A x \in signals : x.to = turn[p].run => sentAt[w] < x.id
  /\ \A i \in DOMAIN transcript :
       transcript[i].record = w
         => \/ stalled \/ kind[w] = "blank"
            \/ \E k \in i + 1..Len(transcript) : transcript[k].record # w

(* A turn appends one record: a message that follows those in the          *)
(* transcript, or a reply.                                                 *)
LEMMA TurnRecords ==
  ASSUME SignalsIInv, NEW p \in Process, NEW t \in TurnState, Onward(p, t), NEW w \in Record,
         append(Thread, turn[p].lease, "entry", w), faults' \in Nat,
         fate' \in [Message -> Fate],
         \A m \in Message : fate[m] # "none" => fate'[m] # "none",
         \A m \in Message : fate'[m] \in {"heard", "unread"} /\ kind[m] = "plain"
                              => fate'[m] = fate[m] \/ m = w,
         \A m \in Message : PlaceOK(m)',
         w \in Message => Follows(p, t, w) /\ (fate'[w] # "none" \/ Begun(w)')
  PROVE  SignalsIInv'
<1> DEFINE l == Len(transcript)
           b == turn[p].lease
<1>1. /\ SignalsTypeOK /\ RecordsOK /\ issued[Thread] \in Nat /\ turn[p] \in TurnState
      /\ \A q, o \in Process : Apart(q, o)
  BY Fields, Zenon DEF SignalsIInv
<1>2. UNCHANGED <<issued, phase, born, spell, job, signals, serial, sentAt, kind, stalled>>
  BY Zenon DEF Onward, queueVars, tableVars
<1>3. /\ turn'[p] = t /\ (\A q \in Process : q # p => turn'[q] = turn[q])
      /\ t.lease = turn[p].lease /\ t.run = turn[p].run /\ t.batch \subseteq turn[p].batch
      /\ t.pc # "leased"
  BY <1>1, TurnSet, Zenon DEF Onward
<1>4. b \in Nat
  BY <1>1, TurnFields, Zenon
<1>5. /\ SessionTypeOK' /\ leases'[Thread].token = b /\ leases[Thread].token = b /\ b # 0
      /\ Len(transcript') = l + 1
      /\ \A i \in 1..l : transcript'[i] = transcript[i]
      /\ transcript'[l + 1].token = b /\ transcript'[l + 1].record = w
  BY <1>1, <1>4, Appends, Zenon
<1>6. /\ turn' \in [Process -> TurnState]
      /\ RunsOK' /\ (\A j \in Job : JobOK(j)') /\ TableOK'
      /\ (\A q \in Process : TurnOK(q)') /\ \A q, o \in Process : Apart(q, o)'
  BY TurnGoesOn, Zenon
<1>7. SignalsTypeOK'
  BY <1>1, <1>2, <1>5, <1>6, Zenon DEF SignalsTypeOK
<1>8. l \in Nat /\ DOMAIN transcript = 1..l /\ DOMAIN transcript' = 1..l + 1
  BY <1>1, <1>5, <1>7, Transcript
<1> HIDE DEF l, b
<1>9. ASSUME NEW i \in DOMAIN transcript'
      PROVE  \/ i \in DOMAIN transcript /\ transcript'[i] = transcript[i]
             \/ i = l + 1 /\ transcript'[i].token = b /\ transcript'[i].record = w
  <2>1. i \in 1..l \/ i = l + 1
    BY <1>8, <1>9
  <2> QED
    BY <1>5, <1>8, <2>1, Zenon
<1>10. \A i \in DOMAIN transcript : i \in DOMAIN transcript' /\ transcript'[i] = transcript[i]
  <2>1. \A i \in 1..l : i \in 1..l + 1
    BY <1>8
  <2> QED
    BY <1>5, <1>8, <2>1, Zenon
<1>11. l + 1 \in DOMAIN transcript'
  BY <1>8
<1>12. ASSUME NEW q \in Process PROVE Ahead(q)'
  <2>1. Ahead(q) /\ Apart(p, q)
    BY <1>1, Zenon DEF RecordsOK
  <2>2. /\ turn'[q].lease = turn[q].lease /\ turn'[q].run = turn[q].run
        /\ turn'[q].batch \subseteq turn[q].batch
        /\ turn'[q].pc = "leased" => turn[q].pc = "leased"
    BY <1>3, Zenon
  <2>3. ASSUME NEW i \in DOMAIN transcript',
               turn'[q].lease # 0, transcript'[i].token = turn'[q].lease
        PROVE  /\ turn'[q].pc # "leased"
               /\ transcript'[i].record \in Message =>
                    /\ \A x \in turn'[q].batch : sentAt'[transcript'[i].record] < x.id
                    /\ \A x \in signals' : x.to = turn'[q].run
                                             => sentAt'[transcript'[i].record] < x.id
    <3>1. CASE i \in DOMAIN transcript /\ transcript'[i] = transcript[i]
      BY <1>2, <2>1, <2>2, <2>3, <3>1, Zenon DEF Ahead
    <3>2. CASE i = l + 1 /\ transcript'[i].token = b /\ transcript'[i].record = w
      <4>1. q = p
        BY <2>1, <2>2, <2>3, <3>2, Zenon DEF Apart, b
      <4> QED
        BY <1>2, <1>3, <3>2, <4>1, Zenon DEF Follows
    <3> QED
      BY <1>9, <3>1, <3>2, Zenon
  <2> QED
    BY <2>3, Zenon DEF Ahead
<1>13. ASSUME NEW m \in Message, InTranscript(m)' PROVE fate'[m] # "none" \/ Begun(m)'
  <2>1. m = w \/ InTranscript(m)
    BY <1>9, <1>13, Zenon DEF InTranscript
  <2>2. Begun(m) => Begun(m)'
    BY <1>1, BegunGoesOn, Zenon
  <2> QED
    BY <1>1, <2>1, <2>2, Zenon DEF RecordsOK
<1>14. \A m : InTranscript(m) \/ m = w => InTranscript(m)'
  BY <1>5, <1>10, <1>11, Zenon DEF InTranscript
<1>15. SteeredIsRecorded'
  BY <1>1, <1>2, <1>14, Zenon DEF RecordsOK, SteeredIsRecorded
<1>16. RecordedInOrder'
  <2> SUFFICES ASSUME NEW i \in DOMAIN transcript', NEW k \in DOMAIN transcript', i < k,
                      transcript'[i].token = transcript'[k].token,
                      {transcript'[i].record, transcript'[k].record} \subseteq Message
               PROVE  sentAt'[transcript'[i].record] < sentAt'[transcript'[k].record]
    BY Zenon DEF RecordedInOrder
  <2>1. i \in DOMAIN transcript
    BY <1>8
  <2>2. transcript'[i] = transcript[i]
    BY <1>10, <2>1, Zenon
  <2>3. CASE k \in DOMAIN transcript /\ transcript'[k] = transcript[k]
    BY <1>1, <1>2, <2>1, <2>2, <2>3, Zenon DEF RecordsOK, RecordedInOrder
  <2>4. CASE transcript'[k].token = b /\ transcript'[k].record = w
    BY <1>2, <2>1, <2>2, <2>4, Zenon DEF Follows, b
  <2> QED
    BY <1>9, <2>3, <2>4, Zenon
<1>17. RepeatsOnlyWhatIsPast'
  <2> SUFFICES ASSUME NEW i \in DOMAIN transcript', NEW k \in DOMAIN transcript', i < k,
                      transcript'[i].record = transcript'[k].record,
                      transcript'[i].record \in Message
               PROVE  \/ stalled' \/ kind'[transcript'[i].record] = "blank"
                      \/ \E o \in i + 1..k - 1 : transcript'[o].record # transcript'[i].record
    BY Zenon DEF RepeatsOnlyWhatIsPast
  <2>1. i \in DOMAIN transcript
    BY <1>8
  <2>2. transcript'[i] = transcript[i]
    BY <1>10, <2>1, Zenon
  <2>3. CASE k \in DOMAIN transcript /\ transcript'[k] = transcript[k]
    <3>1. \/ stalled \/ kind[transcript[i].record] = "blank"
          \/ \E o \in i + 1..k - 1 : transcript[o].record # transcript[i].record
      BY <1>1, <2>1, <2>2, <2>3, Zenon DEF RecordsOK, RepeatsOnlyWhatIsPast
    <3>2. \A o \in i + 1..k - 1 : o \in DOMAIN transcript
      BY <1>8, <2>1, <2>3
    <3> QED
      BY <1>2, <1>10, <2>2, <3>1, <3>2, Zenon
  <2>4. CASE k = l + 1 /\ transcript'[k].record = w
    <3>1. transcript[i].record = w /\ w \in Message
      BY <2>2, <2>4, Zenon
    <3>2. stalled \/ kind[w] = "blank" \/ \E o \in i + 1..l : transcript[o].record # w
      BY <2>1, <3>1, Zenon DEF Follows, l
    <3>3. \A o \in i + 1..l : o \in i + 1..k - 1 /\ o \in DOMAIN transcript
      BY <1>8, <2>1, <2>4
    <3> QED
      BY <1>2, <1>10, <2>2, <3>1, <3>2, <3>3, Zenon
  <2> QED
    BY <1>9, <2>3, <2>4, Zenon
<1>18. /\ leases'[Thread].token <= issued'[Thread]
       /\ \A i \in DOMAIN transcript' : transcript'[i].token <= issued'[Thread]
  <2>1. b <= issued[Thread] /\ \A i \in DOMAIN transcript : transcript[i].token <= issued[Thread]
    BY <1>1, <1>5, Zenon DEF RecordsOK
  <2> QED
    BY <1>2, <1>5, <1>9, <2>1, Zenon
<1>19. RecordsOK'
  BY <1>12, <1>13, <1>15, <1>16, <1>17, <1>18, Zenon DEF RecordsOK
<1> QED
  BY <1>6, <1>7, <1>19, Zenon DEF SignalsIInv

(* The turn writes its reply.                                              *)
LEMMA Replies ==
  ASSUME SignalsIInv, NEW p \in Process, emitReply(p) PROVE SignalsIInv'
<1> DEFINE o == holdsSession(p)
           t == [turn[p] EXCEPT !.pc = "unwind", !.ok = o]
<1>1. /\ turn[p] \in TurnState /\ turn \in [Process -> TurnState] /\ TurnOK(p) /\ faults \in Nat
      /\ SignalsTypeOK /\ fate \in [Message -> Fate]
  BY TurnGiven, Zenon DEF SignalsTypeOK
<1>2. /\ turn[p].pc = "closing" /\ turn' = [turn EXCEPT ![p].pc = "unwind", ![p].ok = o]
      /\ IF o THEN append(Thread, turn[p].lease, "entry", Reply) ELSE UNCHANGED sessionVars
      /\ UNCHANGED <<queueVars, messageVars, kind, fate, tableVars, job, faults, stalled>>
  BY Zenon DEF emitReply, Quiet, faultVars, messageVars
<1>3. o \in BOOLEAN
  BY DEF holdsSession, HoldsLease
<1> HIDE DEF o
<1>4. /\ t \in TurnState /\ t.run = turn[p].run /\ t.spell = turn[p].spell /\ t.lease = turn[p].lease
      /\ t.batch = turn[p].batch /\ t.pc = "unwind" /\ t.poll = turn[p].poll
      /\ turn' = [turn EXCEPT ![p] = t]
  BY <1>1, <1>2, <1>3, Zenon DEF TurnState
<1> HIDE DEF t
<1>5. turn[p].poll = "off" /\ turn[p].batch = {}
  BY <1>1, <1>2 DEF TurnOK
<1>6. turn[p].pc # "idle" /\ t.pc \notin {"idle", "claimed", "leased"} /\ turn[p].pc \in Leased
  BY <1>2, <1>4 DEF Leased
<1>7. CASE ~o
  <2>1. faults' \in Nat /\ UNCHANGED <<sessionVars, queueVars, messageVars, tableVars, job, stalled>>
    BY <1>1, <1>2, <1>7, Zenon
  <2> QED
    BY <1>4, <1>5, <1>6, <2>1, TurnStays, Zenon
<1>8. CASE o
  <2>1. turn[p].lease \in Nat /\ Reply \in Record /\ Reply \notin Message
    BY <1>1, TurnFields, Given, Zenon
  <2>2. append(Thread, turn[p].lease, "entry", Reply)
    BY <1>2, <1>8, Zenon
  <2>3. issued' = issued /\ leases'[Thread].token = leases[Thread].token
    BY <1>1, <2>1, <2>2, Appends, Zenon
  <2>4. Onward(p, t)
    BY <1>2, <1>4, <1>5, <1>6, <2>3, Zenon DEF Onward
  <2>5. \A m \in Message : PlaceOK(m)'
    <3>1. \A m \in Message : ~\E x \in turn[p].batch : x.msg = m /\ x \notin t.batch
      BY <1>4, Zenon
    <3>2. \A m \in Message : NoEnd(m)' <=> NoEnd(m)
      BY <1>2, Zenon DEF NoEnd
    <3> QED
      BY <1>4, <2>4, <3>1, <3>2, PollSettles, Zenon
  <2> QED
    BY <1>1, <1>2, <1>4, <2>1, <2>2, <2>4, <2>5, TurnRecords, Zenon
<1> QED
  BY <1>7, <1>8, Zenon

=============================================================================
