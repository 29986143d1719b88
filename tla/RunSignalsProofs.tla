-------------------------- MODULE RunSignalsProofs --------------------------
(***************************************************************************)
(* Theorems about RunSignals, for any number of messages, processes and    *)
(* faults: no message is lost from sight, and what steered a turn is in    *)
(* the transcript, in order.                                               *)
(*                                                                         *)
(* The remaining steps of a turn, its poll, and what a crash, the reaper   *)
(* and the clock do to it complete the proof that SignalsIInv is           *)
(* inductive.                                                              *)
(***************************************************************************)
EXTENDS RunSignalsInvariant

(* The prompt starts, with the message of the run unless the transcript    *)
(* has it.                                                                 *)
LEMMA Prompts ==
  ASSUME SignalsIInv, NEW p \in Process, prompt(p) PROVE SignalsIInv'
<1>1. PICK r : r = turn[p].run
  OBVIOUS
<1>2. /\ turn[p] \in TurnState /\ turn \in [Process -> TurnState] /\ TurnOK(p) /\ faults \in Nat
      /\ SignalsTypeOK /\ fate \in [Message -> Fate]
      /\ TableOK /\ RecordsOK /\ (\A m \in Message : PlaceOK(m))
      /\ \A q, o \in Process : Apart(q, o)
  BY TurnGiven, Zenon DEF SignalsTypeOK, SignalsIInv
<1>3. /\ turn[p].pc = "leased"
      /\ IF holdsSession(p) /\ ~findTrailingPartialTurn(p)
           THEN append(Thread, turn[p].lease, "entry", r) ELSE UNCHANGED sessionVars
      /\ turn' = IF holdsSession(p)
                   THEN [turn EXCEPT ![p].pc = "streaming", ![p].poll = "quiet"]
                   ELSE [turn EXCEPT ![p].pc = "unwind", ![p].ok = FALSE]
      /\ UNCHANGED <<queueVars, messageVars, kind, fate, tableVars, job, faults, stalled>>
  BY <1>1, Zenon DEF prompt, Quiet, faultVars, messageVars
<1>4. /\ turn[p].poll = "off" /\ turn[p].batch = {} /\ r \in Message /\ phase[r] # "absent"
      /\ turn[p].spell \in 1..spell[r]
  BY <1>1, <1>2, <1>3 DEF TurnOK
<1>5. turn[p].pc # "idle" /\ turn[p].pc \in Leased
  BY <1>3 DEF Leased
<1>6. CASE ~holdsSession(p)
  <2> DEFINE t == [turn[p] EXCEPT !.pc = "unwind", !.ok = FALSE]
  <2>1. turn' = [turn EXCEPT ![p].pc = "unwind", ![p].ok = FALSE] /\ UNCHANGED sessionVars
    BY <1>3, <1>6, Zenon
  <2>2. /\ t \in TurnState /\ t.run = turn[p].run /\ t.spell = turn[p].spell
        /\ t.lease = turn[p].lease /\ t.batch = turn[p].batch /\ t.poll = turn[p].poll
        /\ t.pc = "unwind" /\ turn' = [turn EXCEPT ![p] = t]
    BY <1>2, <2>1, Zenon DEF TurnState
  <2> HIDE DEF t
  <2>3. t.pc \notin {"idle", "claimed", "leased"}
    BY <2>2
  <2>4. faults' \in Nat /\ UNCHANGED <<sessionVars, queueVars, messageVars, tableVars, job, stalled>>
    BY <1>2, <1>3, <2>1, Zenon
  <2>5. t.poll = "off" /\ t.batch = {}
    BY <1>4, <2>2, Zenon
  <2> QED
    BY <1>5, <2>2, <2>3, <2>4, <2>5, TurnStays, Zenon
<1>7. CASE holdsSession(p)
  <2> DEFINE t == [turn[p] EXCEPT !.pc = "streaming", !.poll = "quiet"]
  <2>1. turn' = [turn EXCEPT ![p].pc = "streaming", ![p].poll = "quiet"]
    BY <1>3, <1>7, Zenon
  <2>2. /\ t \in TurnState /\ t.run = turn[p].run /\ t.spell = turn[p].spell
        /\ t.lease = turn[p].lease /\ t.batch = turn[p].batch /\ t.poll = "quiet"
        /\ t.pc = "streaming" /\ turn' = [turn EXCEPT ![p] = t]
    BY <1>2, <2>1, Zenon DEF TurnState
  <2> HIDE DEF t
  <2>3. t.pc \notin {"idle", "claimed", "leased"} /\ t.pc \in {"streaming", "ended", "stopping"}
    BY <2>2
  <2>4. CASE findTrailingPartialTurn(p)
    <3>1. UNCHANGED sessionVars
      BY <1>3, <2>4, Zenon
    <3>2. faults' \in Nat /\ UNCHANGED <<sessionVars, queueVars, messageVars, tableVars, job, stalled>>
      BY <1>2, <1>3, <3>1, Zenon
    <3>3. t.batch = {}
      BY <1>4, <2>2, Zenon
    <3> QED
      BY <1>5, <2>2, <2>3, <3>2, <3>3, TurnStays, Zenon
  <2>5. CASE ~findTrailingPartialTurn(p)
    <3>1. append(Thread, turn[p].lease, "entry", r)
      BY <1>3, <1>7, <2>5, Zenon
    <3>2. turn[p].lease \in Nat /\ r \in Record /\ turn[p].lease # 0
      BY <1>2, <1>4, <1>7, TurnFields, Given, Zenon DEF holdsSession, HoldsLease
    <3>3. issued' = issued /\ leases'[Thread].token = leases[Thread].token
      BY <1>2, <3>1, <3>2, Appends, Zenon
    <3>4. Onward(p, t)
      BY <1>3, <1>4, <1>5, <2>2, <2>3, <3>3, Zenon DEF Onward
    <3>5. \A m \in Message : PlaceOK(m)'
      <4>1. \A m \in Message : ~\E x \in turn[p].batch : x.msg = m /\ x \notin t.batch
        BY <2>2, Zenon
      <4>2. \A m \in Message : NoEnd(m)' <=> NoEnd(m)
        BY <1>3, Zenon DEF NoEnd
      <4> QED
        BY <2>2, <3>4, <4>1, <4>2, PollSettles, Zenon
    <3>6. Begun(r)'
      <4>1. UNCHANGED <<phase, spell, stalled>>
        BY <1>3, Zenon DEF queueVars
      <4>2. spell[r] \in Nat /\ spell[r] > 0 /\ turn[p].spell \in Nat /\ turn[p].spell >= 1
        BY <1>2, <1>4, Fields
      <4>3. turn'[p] = t /\ \A q \in Process : q # p => turn'[q] = turn[q]
        BY <1>2, <2>2, TurnSet, Zenon
      <4>4. ASSUME ~stalled, NEW q \in Process, turn'[q].pc \in {"claimed", "leased"},
                   turn'[q].run = r
            PROVE  FALSE
        <5>1. q # p
          BY <2>3, <4>3, <4>4, Zenon
        <5>2. turn[q].pc \in {"claimed", "leased"} /\ turn[q].run = r
          BY <4>3, <4>4, <5>1, Zenon
        <5>3. turn[q].pc # "idle"
          BY <5>2
        <5>4. TurnOK(q)
          BY TurnGiven, Zenon
        <5>5. turn[q].spell = spell[r] /\ turn[p].spell = spell[r]
          BY <1>1, <1>2, <1>5, <4>4, <5>2, <5>3, <5>4, Zenon DEF TurnOK, Current
        <5> QED
          BY <1>1, <1>2, <1>5, <5>1, <5>2, <5>3, <5>5, Zenon DEF Apart
      <4> QED
        BY <1>4, <4>1, <4>2, <4>4, Zenon DEF Begun
    <3>7. Follows(p, t, r)
      <4>1. \A i \in DOMAIN transcript : transcript[i].token # turn[p].lease
        BY <1>2, <1>3, <3>2, Zenon DEF RecordsOK, Ahead
      <4>2. \A x \in signals : x.to = r => sentAt[r] < x.id
        BY <1>2, Zenon DEF TableOK, RowOK
      <4>3. ASSUME NEW i \in DOMAIN transcript, transcript[i].record = r, ~stalled,
                   kind[r] # "blank"
            PROVE  \E k \in i + 1..Len(transcript) : transcript[k].record # r
        <5>1. NoEnd(r)
          BY <1>2, <1>4, Elsewhere, Zenon DEF NoRun
        <5>2. Begun(r)
          BY <1>2, <1>4, <4>3, <5>1, Zenon DEF RecordsOK, InTranscript, NoEnd
        <5>3. turn[p].spell > 1
          <6>1. turn[p].pc \in {"claimed", "leased"}
            BY <1>3
          <6> QED
            BY <1>1, <4>3, <5>2, <6>1, Zenon DEF Begun
        <5>4. /\ Len(transcript) \in Nat /\ DOMAIN transcript = 1..Len(transcript)
          BY <1>2, Transcript
        <5>5. transcript # <<>>
          BY <4>3, <5>4
        <5>6. transcript[Len(transcript)].record # r
          BY <1>1, <2>5, <4>3, <5>3, <5>5, Zenon DEF findTrailingPartialTurn
        <5>7. i # Len(transcript)
          BY <4>3, <5>6
        <5>8. Len(transcript) \in i + 1..Len(transcript)
          BY <4>3, <5>4, <5>7
        <5> QED
          BY <5>6, <5>8, Zenon
      <4> QED
        BY <1>1, <1>4, <2>2, <4>1, <4>2, <4>3, Zenon DEF Follows
    <3> QED
      BY <1>2, <1>3, <2>2, <3>1, <3>2, <3>4, <3>5, <3>6, <3>7, TurnRecords, Zenon
  <2> QED
    BY <2>4, <2>5, Zenon
<1> QED
  BY <1>6, <1>7, Zenon

(* The poll hands the foremost row of its batch to the prompt.             *)
LEMMA Dispatches ==
  ASSUME SignalsIInv, NEW p \in Process, dispatch(p) PROVE SignalsIInv'
<1>1. /\ turn[p] \in TurnState /\ turn \in [Process -> TurnState] /\ TurnOK(p) /\ faults \in Nat
      /\ SignalsTypeOK /\ fate \in [Message -> Fate]
      /\ TableOK /\ RecordsOK /\ (\A m \in Message : PlaceOK(m) /\ sentAt[m] \in Nat)
  BY TurnGiven, Fields, Zenon DEF SignalsTypeOK, SignalsIInv
<1>2. PICK x \in turn[p].batch :
       /\ foremost(x, turn[p].batch)
       /\ fate' = [fate EXCEPT ![x.msg] =
                     IF ~Current(p) THEN "lost"
                     ELSE IF turn[p].pc = "streaming" THEN "heard" ELSE "unread"]
       /\ IF kind[x.msg] = "stop"
            THEN turn' = [turn EXCEPT ![p] = Aborted(Dispatched(@, x))] /\ UNCHANGED sessionVars
            ELSE /\ turn' = [turn EXCEPT ![p] = Dispatched(@, x)]
                 /\ IF kind[x.msg] = "bare" THEN UNCHANGED sessionVars ELSE emit(p, x.msg)
  BY Zenon DEF dispatch
<1>3. /\ turn[p].poll = "dispatching"
      /\ UNCHANGED <<queueVars, kind, tableVars, job, faults, stalled>>
  BY Zenon DEF dispatch, Quiet, faultVars
<1>4. turn[p].pc \in {"streaming", "ended", "stopping"}
  BY <1>1, <1>3 DEF TurnOK
<1>5. turn[p].pc # "idle" /\ turn[p].pc \in Leased /\ turn[p].pc # "leased"
  BY <1>4 DEF Leased
<1>6. turn[p].batch \subseteq Row /\ x \in Row /\ turn[p].lease \in Nat
  BY <1>1, TurnFields, Zenon
<1>7. x.msg \in Message /\ x.id \in Nat /\ x.to \in Message /\ x.msg \in Record
  BY <1>6, RowFields, Given, Zenon
<1>8. PICK t \in TurnState :
        /\ turn' = [turn EXCEPT ![p] = t] /\ t.pc \in {"streaming", "ended", "stopping"}
        /\ t.run = turn[p].run /\ t.spell = turn[p].spell /\ t.lease = turn[p].lease
        /\ t.batch = turn[p].batch \ {x}
        /\ t.poll # "dispatching" => t.batch = {}
  <2> DEFINE u == Dispatched(turn[p], x)
             c == IF u.pc = "streaming" THEN "ended" ELSE u.pc
             v == [u EXCEPT !.pc = c]
  <2>1. /\ u \in TurnState /\ u.pc = turn[p].pc
        /\ u.run = turn[p].run /\ u.spell = turn[p].spell /\ u.lease = turn[p].lease
        /\ u.batch = turn[p].batch \ {x}
        /\ u.poll # "dispatching" => turn[p].batch = {x}
    BY <1>1, Zenon DEF Dispatched, TurnState
  <2>2. u.poll # "dispatching" => u.batch = {}
    BY <2>1, Zenon
  <2>3. CASE kind[x.msg] # "stop"
    <3>1. turn' = [turn EXCEPT ![p] = u]
      BY <1>2, <2>3, Zenon
    <3> HIDE DEF u
    <3> QED
      BY <1>4, <2>1, <2>2, <3>1, Zenon
  <2>4. CASE kind[x.msg] = "stop"
    <3>1. turn' = [turn EXCEPT ![p] = v]
      <4>1. turn' = [turn EXCEPT ![p] = Aborted(Dispatched(@, x))]
        BY <1>2, <2>4, Zenon
      <4> QED
        BY <4>1, Zenon DEF Aborted
    <3> HIDE DEF u
    <3>2. c \in {"streaming", "ended", "stopping"}
      BY <1>4, <2>1
    <3> HIDE DEF c
    <3>3. /\ v \in TurnState /\ v.pc = c
          /\ v.run = u.run /\ v.spell = u.spell /\ v.lease = u.lease
          /\ v.batch = u.batch /\ v.poll = u.poll
      BY <2>1, <3>2 DEF TurnState
    <3> HIDE DEF v
    <3> QED
      BY <2>1, <2>2, <3>1, <3>2, <3>3, Zenon
  <2> QED
    BY <2>3, <2>4, Zenon
<1>9. t.pc \notin {"idle", "claimed", "leased"}
  BY <1>8
<1>10. /\ fate' \in [Message -> Fate]
       /\ fate'[x.msg] # "none" /\ \A m \in Message : m # x.msg => fate'[m] = fate[m]
  BY <1>1, <1>2, <1>7 DEF Fate
<1>11. \A m \in Message : fate[m] # "none" => fate'[m] # "none"
  BY <1>10, Zenon
<1>12. UNCHANGED sessionVars \/ append(Thread, turn[p].lease, "entry", x.msg)
  BY <1>2, Zenon DEF emit
<1>13. issued' = issued /\ leases'[Thread].token = leases[Thread].token
  BY <1>1, <1>6, <1>7, <1>12, Appends, Zenon DEF sessionVars
<1>14. Onward(p, t)
  BY <1>3, <1>5, <1>8, <1>9, <1>13, Zenon DEF Onward
<1>15. \A m \in Message : PlaceOK(m)'
  <2>1. ASSUME NEW m \in Message
        PROVE  IF \E z \in turn[p].batch : z.msg = m /\ z \notin t.batch
                 THEN fate'[m] # "none" ELSE NoEnd(m)' <=> NoEnd(m)
    <3>1. \A z \in turn[p].batch : z \notin t.batch <=> z = x
      BY <1>8, Zenon
    <3> QED
      BY <1>10, <3>1, Zenon DEF NoEnd
  <2> QED
    BY <1>14, <2>1, PollSettles, Zenon
<1>16. CASE UNCHANGED sessionVars
  <2>1. SessionTypeOK' /\ log' = log /\ leases' = leases
    BY <1>1, <1>16, Zenon DEF SignalsTypeOK, SessionTypeOK, sessionVars
  <2>2. ASSUME kind[x.msg] = "plain" PROVE InTranscript(x.msg) \/ stalled
    <3>1. kind[x.msg] # "stop" /\ kind[x.msg] # "bare"
      BY <2>2
    <3>2. emit(p, x.msg)
      BY <1>2, <3>1, Zenon
    <3>3. ~append(Thread, turn[p].lease, "entry", x.msg)
      <4>1. ASSUME append(Thread, turn[p].lease, "entry", x.msg) PROVE FALSE
        <5>1. Len(transcript') = Len(transcript) + 1 /\ transcript' = transcript
          BY <1>1, <1>6, <1>7, <2>1, <4>1, Appends, Zenon DEF transcript
        <5>2. Len(transcript) \in Nat
          BY <1>1, Transcript, Zenon
        <5> QED
          BY <5>1, <5>2
      <4> QED
        BY <4>1, Zenon
    <3>4. ~holdsSession(p) \/ InTranscript(x.msg)
      BY <3>2, <3>3, Zenon DEF emit, steeredSeen
    <3> QED
      BY <1>1, <1>5, <3>4, Zenon DEF TurnOK
  <2>3. \A m \in Message : fate'[m] \in {"heard", "unread"} /\ kind[m] = "plain"
                             => fate'[m] = fate[m] \/ InTranscript(m) \/ stalled
    BY <1>10, <2>2, Zenon
  <2>4. leases'[Thread].token \in {0, leases[Thread].token} /\ faults' \in Nat
    BY <1>1, <1>3, <2>1, Zenon
  <2> QED
    BY <1>10, <1>11, <1>14, <1>15, <2>1, <2>3, <2>4, TurnIsQuiet, Zenon
<1>17. CASE append(Thread, turn[p].lease, "entry", x.msg) /\ ~UNCHANGED sessionVars
  <2>1. ~InTranscript(x.msg) /\ turn[p].lease # 0
    <3>1. emit(p, x.msg)
      BY <1>2, <1>17, Zenon
    <3> QED
      BY <1>17, <3>1, Zenon DEF emit, steeredSeen, holdsSession, HoldsLease
  <2>2. /\ sentAt[x.msg] = x.id /\ sentAt[x.to] < x.id /\ x.to = turn[p].run
        /\ \A y \in signals : y.to = x.to => x.id < y.id
    BY <1>1, Zenon DEF TableOK, RowOK
  <2>3. x.id # 0
    BY <1>1, <1>7, <2>2
  <2>4. ASSUME NEW y \in turn[p].batch, y # x PROVE x.id < y.id
    <3>1. y.msg \in Message /\ y.id \in Nat
      BY <1>6, RowFields, Zenon
    <3>2. x.id <= y.id
      BY <1>2, Zenon DEF foremost
    <3>3. sentAt[y.msg] = y.id
      BY <1>1, Zenon DEF TableOK, RowOK
    <3>4. x.id = y.id => x.msg = y.msg
      BY <1>1, <1>7, <2>2, <2>3, <3>1, <3>3, Zenon DEF TableOK
    <3>5. x.msg # y.msg
      <4>1. ASSUME x.msg = y.msg PROVE FALSE
        <5>1. x \in BatchOf(p, x.msg) /\ y \in BatchOf(p, x.msg)
          BY <4>1, Zenon DEF BatchOf
        <5>2. PICK z : BatchOf(p, x.msg) = {z}
          BY <1>1, <1>7, <5>1, InPoll, Zenon
        <5>3. x = z /\ y = z
          BY <5>1, <5>2, Zenon
        <5> QED
          BY <2>4, <5>3, Zenon
      <4> QED
        BY <4>1, Zenon
    <3>6. x.id # y.id
      BY <3>4, <3>5, Zenon
    <3> QED
      BY <1>7, <3>1, <3>2, <3>6
  <2>5. \A i \in DOMAIN transcript :
          transcript[i].token = turn[p].lease /\ transcript[i].record \in Message
            => sentAt[transcript[i].record] < x.id
    BY <1>1, <2>1, Zenon DEF RecordsOK, Ahead
  <2>6. \A y \in t.batch : x.id < y.id
    BY <1>8, <2>4, Zenon
  <2>7. Follows(p, t, x.msg)
    BY <2>1, <2>2, <2>5, <2>6, Zenon DEF Follows, InTranscript
  <2>8. \A m \in Message : fate'[m] \in {"heard", "unread"} /\ kind[m] = "plain"
                             => fate'[m] = fate[m] \/ m = x.msg
    BY <1>10, Zenon
  <2> QED
    BY <1>1, <1>3, <1>7, <1>10, <1>11, <1>14, <1>15, <1>17, <2>7, <2>8, TurnRecords, Zenon
<1> QED
  BY <1>12, <1>16, <1>17, Zenon

(* The prompt hears the foremost row although its record failed.           *)
LEMMA DispatchesUnrecorded ==
  ASSUME SignalsIInv, NEW p \in Process, dispatchUnrecorded(p) PROVE SignalsIInv'
<1>1. /\ turn[p] \in TurnState /\ turn \in [Process -> TurnState] /\ TurnOK(p) /\ faults \in Nat
      /\ SignalsTypeOK /\ fate \in [Message -> Fate]
  BY TurnGiven, Zenon DEF SignalsTypeOK
<1>2. PICK x \in turn[p].batch : /\ fate' = [fate EXCEPT ![x.msg] = "unrecorded"]
                                 /\ turn' = [turn EXCEPT ![p] = Dispatched(@, x)]
  BY Zenon DEF dispatchUnrecorded
<1>3. /\ turn[p].poll = "dispatching" /\ faults' = faults + 1
      /\ UNCHANGED <<sessionVars, leases, issued, log, queueVars, kind, tableVars, job, stalled>>
  BY Zenon DEF dispatchUnrecorded, Fault, sessionVars
<1>4. turn[p].pc \in {"streaming", "ended", "stopping"}
  BY <1>1, <1>3 DEF TurnOK
<1>5. x.msg \in Message
  BY <1>1, TurnFields, RowFields, Zenon
<1> DEFINE t == Dispatched(turn[p], x)
<1>6. /\ t \in TurnState /\ t.run = turn[p].run /\ t.spell = turn[p].spell /\ t.lease = turn[p].lease
      /\ t.batch = turn[p].batch \ {x} /\ t.pc = turn[p].pc
      /\ t.poll # "dispatching" => turn[p].batch = {x}
  BY <1>1, Zenon DEF Dispatched, TurnState
<1>7. turn' = [turn EXCEPT ![p] = t]
  BY <1>2, Zenon
<1> HIDE DEF t
<1>8. t.poll # "dispatching" => t.batch = {}
  BY <1>6, Zenon
<1>9. turn[p].pc # "idle" /\ t.pc \notin {"idle", "claimed", "leased"}
  BY <1>4, <1>6
<1>10. Onward(p, t)
  BY <1>3, <1>4, <1>6, <1>7, <1>8, <1>9, Zenon DEF Onward
<1>11. /\ fate' \in [Message -> Fate] /\ fate'[x.msg] = "unrecorded"
       /\ \A m \in Message : m # x.msg => fate'[m] = fate[m]
  BY <1>1, <1>2, <1>5 DEF Fate
<1>12. \A m \in Message : /\ fate[m] # "none" => fate'[m] # "none"
                          /\ fate'[m] \in {"heard", "unread"} => fate'[m] = fate[m]
  BY <1>11
<1>13. \A m \in Message : PlaceOK(m)'
  <2>1. ASSUME NEW m \in Message
        PROVE  IF \E z \in turn[p].batch : z.msg = m /\ z \notin t.batch
                 THEN fate'[m] # "none" ELSE NoEnd(m)' <=> NoEnd(m)
    <3>1. \A z \in turn[p].batch : z \notin t.batch <=> z = x
      BY <1>6, Zenon
    <3>2. "unrecorded" # "none"
      OBVIOUS
    <3> QED
      BY <1>11, <3>1, <3>2, Zenon DEF NoEnd
  <2> QED
    BY <1>6, <1>10, <2>1, PollSettles, Zenon
<1>14. SessionTypeOK' /\ faults' \in Nat /\ leases'[Thread].token \in {0, leases[Thread].token}
  <2>1. faults' \in Nat
    BY <1>1, <1>3
  <2> QED
    BY <1>1, <1>3, <2>1, Zenon DEF SignalsTypeOK, SessionTypeOK
<1> QED
  BY <1>3, <1>6, <1>10, <1>11, <1>12, <1>13, <1>14, TurnIsQuiet, Zenon

(* A handler throws, and the rest of the batch is lost.                    *)
LEMMA DispatchFails ==
  ASSUME SignalsIInv, NEW p \in Process, dispatchThrows(p) PROVE SignalsIInv'
<1> DEFINE t == [turn[p] EXCEPT !.batch = {}, !.poll = "quiet"]
<1>1. /\ turn[p] \in TurnState /\ turn \in [Process -> TurnState] /\ TurnOK(p) /\ faults \in Nat
      /\ SignalsTypeOK /\ fate \in [Message -> Fate]
  BY TurnGiven, Zenon DEF SignalsTypeOK
<1>2. /\ turn[p].poll = "dispatching" /\ faults' = faults + 1
      /\ fate' = [m \in Message |-> IF \E x \in turn[p].batch : x.msg = m THEN "lost" ELSE fate[m]]
      /\ turn' = [turn EXCEPT ![p].batch = {}, ![p].poll = "quiet"]
      /\ UNCHANGED <<sessionVars, leases, issued, log, queueVars, kind, tableVars, job, stalled>>
  BY Zenon DEF dispatchThrows, Fault, sessionVars
<1>3. turn[p].pc \in {"streaming", "ended", "stopping"}
  BY <1>1, <1>2 DEF TurnOK
<1>4. /\ t \in TurnState /\ t.run = turn[p].run /\ t.spell = turn[p].spell /\ t.lease = turn[p].lease
      /\ t.batch = {} /\ t.pc = turn[p].pc /\ t.poll = "quiet" /\ turn' = [turn EXCEPT ![p] = t]
  BY <1>1, <1>2 DEF TurnState
<1> HIDE DEF t
<1>5. turn[p].pc # "idle" /\ t.pc \notin {"idle", "claimed", "leased"}
  BY <1>3, <1>4
<1>6. Onward(p, t)
  BY <1>2, <1>3, <1>4, <1>5, Zenon DEF Onward
<1>7. /\ fate' \in [Message -> Fate]
      /\ \A m \in Message : IF \E x \in turn[p].batch : x.msg = m THEN fate'[m] = "lost"
                                                                  ELSE fate'[m] = fate[m]
  BY <1>1, <1>2 DEF Fate
<1>8. \A m \in Message : /\ fate[m] # "none" => fate'[m] # "none"
                         /\ fate'[m] \in {"heard", "unread"} => fate'[m] = fate[m]
  BY <1>7
<1>9. \A m \in Message : PlaceOK(m)'
  <2>1. ASSUME NEW m \in Message
        PROVE  IF \E z \in turn[p].batch : z.msg = m /\ z \notin t.batch
                 THEN fate'[m] # "none" ELSE NoEnd(m)' <=> NoEnd(m)
    <3>1. "lost" # "none"
      OBVIOUS
    <3> QED
      BY <1>4, <1>7, <3>1, Zenon DEF NoEnd
  <2> QED
    BY <1>4, <1>6, <2>1, PollSettles, Zenon
<1>10. SessionTypeOK' /\ faults' \in Nat /\ leases'[Thread].token \in {0, leases[Thread].token}
  <2>1. faults' \in Nat
    BY <1>1, <1>2
  <2> QED
    BY <1>1, <1>2, <2>1, Zenon DEF SignalsTypeOK, SessionTypeOK
<1> QED
  BY <1>2, <1>4, <1>6, <1>7, <1>8, <1>9, <1>10, TurnIsQuiet, Zenon

(* The poll takes the rows that wait for its run.                          *)
LEMMA Takes ==
  ASSUME SignalsIInv, NEW p \in Process, takePending(p) PROVE SignalsIInv'
<1> DEFINE r == turn[p].run
           b == Pending(r)
           s == IF b = {} THEN "quiet" ELSE "dispatching"
           t == [turn[p] EXCEPT !.batch = b, !.poll = s]
<1>1. /\ SignalsTypeOK /\ RunsOK /\ (\A i \in Job : JobOK(i)) /\ TableOK /\ RecordsOK
      /\ (\A q \in Process : TurnOK(q)) /\ (\A q, o \in Process : Apart(q, o))
      /\ (\A m \in Message : PlaceOK(m))
      /\ turn[p] \in TurnState /\ turn \in [Process -> TurnState]
  BY TurnGiven, Zenon DEF SignalsIInv
<1>2. /\ turn[p].poll = "taking" /\ signals' = signals \ b
      /\ turn' = [turn EXCEPT ![p].batch = b, ![p].poll = s]
      /\ UNCHANGED <<leases, issued, log, phase, born, spell, kind, fate, serial, sentAt>>
      /\ UNCHANGED <<queueVars, job, faults, stalled>>
  BY Zenon DEF takePending, consume, Quiet, faultVars, sessionVars, messageVars, queueVars
<1>3. turn[p].pc \in {"streaming", "ended", "stopping"} /\ turn[p].batch = {}
  BY <1>1, <1>2 DEF TurnOK
<1>4. b \subseteq Row /\ b \subseteq signals /\ (\A x \in b : x.to = r)
      /\ \A x \in signals : x.to = r => x \in b
  BY <1>1, Zenon DEF Pending, SignalsTypeOK
<1>5. s \in {"quiet", "dispatching"} /\ (s # "dispatching" => b = {}) /\ s # "off"
  OBVIOUS
<1> HIDE DEF b, s
<1>6. /\ t \in TurnState /\ t.run = turn[p].run /\ t.spell = turn[p].spell /\ t.lease = turn[p].lease
      /\ t.batch = b /\ t.pc = turn[p].pc /\ t.poll = s /\ turn' = [turn EXCEPT ![p] = t]
  BY <1>1, <1>2, <1>4, <1>5 DEF TurnState
<1> HIDE DEF t
<1>7. /\ turn' \in [Process -> TurnState] /\ turn'[p] = t
      /\ \A q \in Process : q # p => turn'[q] = turn[q]
  BY <1>1, <1>6, TurnSet, Zenon
<1>8. \A q \in Process : /\ turn'[q].run = turn[q].run /\ turn'[q].spell = turn[q].spell
                         /\ turn'[q].lease = turn[q].lease /\ turn'[q].pc = turn[q].pc
  BY <1>6, <1>7, Zenon
<1>9. SignalsTypeOK'
  <2>1. signals' \subseteq Row
    BY <1>1, <1>2, Zenon DEF SignalsTypeOK
  <2> QED
    BY <1>1, <1>2, <1>7, <2>1, Zenon DEF SignalsTypeOK, SessionTypeOK
<1>10. ASSUME NEW q \in Process PROVE TurnOK(q)'
  <2>1. TurnOK(q)
    BY <1>1
  <2>2. (Current(q)' <=> Current(q)) /\ (holdsSession(q)' <=> holdsSession(q))
    BY <1>2, <1>8, Zenon DEF Current, holdsSession, HoldsLease
  <2>3. CASE q # p
    BY <1>2, <1>7, <2>1, <2>2, <2>3, Zenon DEF TurnOK
  <2>4. CASE q = p
    BY <1>2, <1>3, <1>5, <1>6, <1>7, <2>1, <2>2, <2>4, Zenon DEF TurnOK
  <2> QED
    BY <2>3, <2>4, Zenon
<1>11. ASSUME NEW q \in Process, NEW o \in Process PROVE Apart(q, o)'
  <2>1. Apart(q, o)
    BY <1>1, Zenon
  <2>2. /\ turn'[q].run = turn[q].run /\ turn'[q].spell = turn[q].spell
        /\ turn'[q].lease = turn[q].lease /\ turn'[q].pc = turn[q].pc
        /\ turn'[o].run = turn[o].run /\ turn'[o].spell = turn[o].spell
        /\ turn'[o].lease = turn[o].lease /\ turn'[o].pc = turn[o].pc
    BY <1>8, Zenon
  <2> QED
    BY <2>1, <2>2 DEF Apart
<1>12. TableOK'
  <2>1. \A x : RowOK(x)' <=> RowOK(x)
    BY <1>2, Zenon DEF RowOK
  <2>2. ASSUME NEW q \in Process, NEW x \in turn'[q].batch
        PROVE  RowOK(x)' /\ x.to = turn'[q].run /\ \A y \in signals' : y.to = x.to => x.id < y.id
    <3>1. CASE q # p
      BY <1>1, <1>2, <1>7, <2>1, <2>2, <3>1, Zenon DEF TableOK
    <3>2. CASE q = p
      <4>1. x \in b
        BY <1>6, <1>7, <2>2, <3>2, Zenon
      <4> QED
        BY <1>1, <1>2, <1>4, <1>8, <2>1, <3>2, <4>1, Zenon DEF TableOK
    <3> QED
      BY <3>1, <3>2, Zenon
  <2> QED
    BY <1>1, <1>2, <2>1, <2>2, Zenon DEF TableOK
<1>13. ASSUME NEW m \in Message PROVE PlaceOK(m)'
  <2>1. (NoRun(m)' <=> NoRun(m)) /\ (NoEnd(m)' <=> NoEnd(m))
    BY <1>2, Zenon DEF NoRun, NoEnd
  <2>2. \A j \in Job : (AtHand(j, m)' <=> AtHand(j, m)) /\ WaitsOf(j, m)' = WaitsOf(j, m)
    BY <1>2, Zenon DEF AtHand, WaitsOf
  <2>3. \A q \in Process : q # p => BatchOf(q, m)' = BatchOf(q, m)
    BY <1>7, Zenon DEF BatchOf
  <2>4. BatchOf(p, m) = {} /\ \A z : z \in BatchOf(p, m)' <=> z \in b /\ z.msg = m
    BY <1>3, <1>6, <1>7, Zenon DEF BatchOf
  <2>5. \A z : z \in RowsOf(m)' <=> z \in RowsOf(m) /\ z \notin b
    BY <1>2, Zenon DEF RowsOf
  <2>6. CASE \A x \in b : x.msg # m
    <3>1. BatchOf(p, m)' = BatchOf(p, m)
      BY <2>4, <2>6, Zenon
    <3>2. RowsOf(m)' = RowsOf(m)
      BY <2>5, <2>6, Zenon DEF RowsOf
    <3> QED
      BY <1>1, <1>2, <2>1, <2>2, <2>3, <3>1, <3>2, PlaceKept, Zenon
  <2>7. ASSUME NEW x \in b, x.msg = m PROVE PlaceOK(m)'
    <3>1. x \in RowsOf(m)
      BY <1>4, <2>7, Zenon DEF RowsOf
    <3>2. /\ OneRow(m) /\ NoCall(m) /\ NoPoll(m) /\ NoRun(m) /\ NoEnd(m) /\ kind[m] # "none"
      BY <1>1, <3>1, Elsewhere, Zenon DEF NoRow, Nowhere
    <3>3. \A z \in RowsOf(m) : z = x
      BY <3>1, <3>2, Zenon DEF OneRow
    <3>4. NoRow(m)'
      BY <2>5, <2>7, <3>3, Zenon DEF NoRow
    <3>5. BatchOf(p, m)' = {x}
      BY <1>4, <2>4, <2>7, <3>3, Zenon DEF RowsOf
    <3>6. OnePoll(m)' /\ NoCall(m)'
      BY <2>2, <2>3, <3>2, <3>5, Zenon DEF OnePoll, NoPoll, NoCall, NotAt
    <3> QED
      BY <1>2, <2>1, <3>2, <3>4, <3>6, Zenon DEF PlaceOK, Placed
  <2> QED
    BY <2>6, <2>7, Zenon
<1>14. RecordsOK'
  <2>1. ASSUME NEW q \in Process PROVE Ahead(q)'
    <3>1. Ahead(q) /\ transcript' = transcript
      BY <1>1, <1>2, Zenon DEF RecordsOK, transcript
    <3>2. \A x \in turn'[q].batch :
            x \in turn[q].batch \/ (x \in signals /\ x.to = turn[q].run)
      <4>1. CASE q # p
        BY <1>7, <4>1, Zenon
      <4>2. CASE q = p
        <5>1. turn'[q].batch = b /\ turn[q].run = r
          BY <1>6, <1>7, <4>2, Zenon
        <5> QED
          BY <1>4, <5>1, Zenon
      <4> QED
        BY <4>1, <4>2, Zenon
    <3>3. signals' \subseteq signals
      BY <1>2, Zenon
    <3>4. /\ turn'[q].lease = turn[q].lease /\ turn'[q].run = turn[q].run
          /\ turn'[q].pc = turn[q].pc /\ sentAt' = sentAt
      BY <1>2, <1>8, Zenon
    <3> QED
      BY <3>1, <3>2, <3>3, <3>4, AheadKept, Zenon
  <2>2. \A m \in Message : Begun(m) => Begun(m)'
    BY <1>2, <1>8, Zenon DEF Begun
  <2>3. issued[Thread] \in Nat
    BY <1>1, Fields, Zenon
  <2>4. issued[Thread] <= issued[Thread] /\ leases[Thread].token <= issued[Thread]
    BY <1>1, <2>3 DEF RecordsOK
  <2> QED
    BY <1>2, <2>1, <2>2, <2>3, <2>4, RecordsKept, Zenon
<1>15. RunsOK' /\ \A j \in Job : JobOK(j)'
  BY <1>1, <1>2, RunsKept, JobsKept, Zenon
<1> QED
  BY <1>9, <1>10, <1>11, <1>12, <1>13, <1>14, <1>15, Zenon DEF SignalsIInv

(* The turn acquires the lease of the thread.                              *)
LEMMA TurnAcquires ==
  ASSUME SignalsIInv, NEW p \in Process, acquire(p) PROVE SignalsIInv'
<1>1. /\ SignalsTypeOK /\ RunsOK /\ (\A i \in Job : JobOK(i)) /\ TableOK /\ RecordsOK
      /\ (\A q \in Process : TurnOK(q)) /\ (\A q, o \in Process : Apart(q, o))
      /\ (\A m \in Message : PlaceOK(m)) /\ faults \in Nat /\ issued[Thread] \in Nat
      /\ turn[p] \in TurnState /\ turn \in [Process -> TurnState]
  BY TurnGiven, Fields, Zenon DEF SignalsIInv
<1>2. /\ turn[p].pc = "claimed"
      /\ UNCHANGED <<phase, born, spell, kind, fate, signals, serial, sentAt, job, faults, stalled>>
      /\ UNCHANGED <<queueVars, messageVars, tableVars>>
  BY Zenon DEF acquire, Quiet, faultVars, messageVars, tableVars, queueVars
<1>3. turn[p].poll = "off" /\ turn[p].batch = {}
  BY <1>1, <1>2 DEF TurnOK
<1>4. CASE ~Acquirable(Thread)
  <2> DEFINE t == [turn[p] EXCEPT !.pc = "report"]
  <2>1. turn' = [turn EXCEPT ![p].pc = "report"] /\ UNCHANGED sessionVars
    BY <1>4, Zenon DEF acquire
  <2>2. /\ t \in TurnState /\ t.run = turn[p].run /\ t.spell = turn[p].spell
        /\ t.lease = turn[p].lease /\ t.batch = turn[p].batch /\ t.poll = turn[p].poll
        /\ t.pc = "report" /\ turn' = [turn EXCEPT ![p] = t]
    BY <1>1, <2>1 DEF TurnState
  <2> HIDE DEF t
  <2>3. /\ turn[p].pc # "idle" /\ t.pc \notin {"idle", "claimed", "leased"} /\ t.pc \notin Leased
    BY <1>2, <2>2 DEF Leased
  <2>4. faults' \in Nat /\ UNCHANGED <<sessionVars, queueVars, messageVars, tableVars, job, stalled>>
    BY <1>1, <1>2, <2>1, Zenon
  <2>5. t.poll = "off" /\ t.batch = {}
    BY <1>3, <2>2, Zenon
  <2> QED
    BY <2>2, <2>3, <2>4, <2>5, TurnStays, Zenon
<1>5. CASE Acquirable(Thread)
  <2> DEFINE l == issued'[Thread]
             t == [turn[p] EXCEPT !.pc = "leased", !.lease = l]
  <2>1. acquireLease(Thread) /\ turn' = [turn EXCEPT ![p].pc = "leased", ![p].lease = l]
    BY <1>5, Zenon DEF acquire
  <2>2. /\ SessionTypeOK' /\ log' = log /\ l = issued[Thread] + 1 /\ leases'[Thread].token = l
    BY <1>1, <2>1, Acquires, Zenon
  <2>3. l \in Nat /\ l # 0 /\ issued[Thread] < l /\ issued[Thread] <= l /\ l <= l
    BY <1>1, <2>2
  <2> HIDE DEF l
  <2>4. /\ t \in TurnState /\ t.run = turn[p].run /\ t.spell = turn[p].spell
        /\ t.lease = l /\ t.batch = turn[p].batch /\ t.poll = turn[p].poll
        /\ t.pc = "leased" /\ turn' = [turn EXCEPT ![p] = t]
    BY <1>1, <2>1, <2>3, Zenon DEF TurnState
  <2> HIDE DEF t
  <2>5. /\ turn' \in [Process -> TurnState] /\ turn'[p] = t
        /\ \A q \in Process : q # p => turn'[q] = turn[q]
    BY <1>1, <2>4, TurnSet, Zenon
  <2>6. \A q \in Process : /\ turn'[q].run = turn[q].run /\ turn'[q].spell = turn[q].spell
                           /\ turn'[q].batch = turn[q].batch /\ turn'[q].poll = turn[q].poll
                           /\ turn'[q].pc # "idle" <=> turn[q].pc # "idle"
    <3>1. t.pc # "idle" /\ turn[p].pc # "idle"
      BY <1>2, <2>4
    <3> QED
      BY <2>4, <2>5, <3>1, Zenon
  <2>7. \A q \in Process : turn[q].lease \in Nat /\ turn[q].lease < l /\ turn[q].lease <= l
    <3>1. \A q \in Process : turn[q].lease \in Nat /\ turn[q].lease <= issued[Thread]
      BY <1>1, Fields, TurnFields, Zenon DEF TurnOK
    <3> QED
      BY <1>1, <2>3, <3>1
  <2>8. SignalsTypeOK'
    BY <1>1, <1>2, <2>2, <2>5, Zenon DEF SignalsTypeOK
  <2>9. ASSUME NEW q \in Process PROVE TurnOK(q)'
    <3>1. TurnOK(q) /\ TurnOK(p) /\ Apart(p, q)
      BY <1>1
    <3>2. Current(q)' <=> Current(q)
      BY <1>2, <2>6, Zenon DEF Current
    <3>3. CASE q # p
      <4>1. ASSUME ~stalled, turn[q].pc # "idle" PROVE FALSE
        <5>1. turn[p].pc # "idle"
          BY <1>2
        <5>2. Current(p) /\ Current(q) /\ turn[p].run \in Message /\ turn[q].run \in Message
          BY <3>1, <4>1, <5>1, Zenon DEF TurnOK
        <5>3. turn[p].run = turn[q].run /\ turn[p].spell = turn[q].spell
          BY <1>1, <5>2, Zenon DEF Current, RunsOK
        <5> QED
          BY <3>1, <3>3, <4>1, <5>1, <5>3, Zenon DEF Apart
      <4>2. turn[q].pc = "idle" => turn[q].pc \notin Leased
        BY DEF Leased
      <4>3. turn'[q] = turn[q] /\ turn'[q].lease <= issued'[Thread]
        BY <2>5, <2>7, <3>3, Zenon DEF l
      <4> QED
        BY <1>2, <3>1, <3>2, <4>1, <4>2, <4>3, Zenon DEF TurnOK
    <3>4. CASE q = p
      <4>1. holdsSession(p)'
        BY <2>2, <2>3, <2>4, <2>5, Zenon DEF holdsSession, HoldsLease
      <4>2. turn'[p].lease <= issued'[Thread] /\ turn'[p].lease # 0
        BY <2>3, <2>4, <2>5, Zenon DEF l
      <4>3. turn'[p].poll = "off" /\ turn'[p].batch = {}
        BY <1>3, <2>6, Zenon
      <4>4. turn[p].pc # "idle"
        BY <1>2
      <4> QED
        BY <1>2, <2>6, <3>1, <3>2, <3>4, <4>1, <4>2, <4>3, <4>4, Zenon DEF TurnOK
    <3> QED
      BY <3>3, <3>4, Zenon
  <2>10. ASSUME NEW q \in Process, NEW o \in Process PROVE Apart(q, o)'
    <3>1. Apart(q, o)
      BY <1>1
    <3>2. \A i \in Process : i # p => turn'[i].lease = turn[i].lease /\ turn'[i].lease # l
      <4>1. \A i \in Process : turn[i].lease # l
        BY <2>3, <2>7
      <4> QED
        BY <2>5, <4>1, Zenon
    <3>3. turn'[q].lease = turn'[o].lease => turn'[q].lease = 0 \/ q = o
      BY <2>4, <2>5, <3>1, <3>2, Zenon DEF Apart
    <3> QED
      BY <2>6, <3>1, <3>3, Zenon DEF Apart
  <2>11. TableOK'
    BY <1>1, <1>2, <2>6, Zenon DEF TableOK, RowOK
  <2>12. ASSUME NEW m \in Message PROVE PlaceOK(m)'
    <3>1. RowsOf(m)' = RowsOf(m) /\ (NoRun(m)' <=> NoRun(m)) /\ (NoEnd(m)' <=> NoEnd(m))
      BY <1>2, Zenon DEF RowsOf, NoRun, NoEnd
    <3>2. \A j \in Job : (AtHand(j, m)' <=> AtHand(j, m)) /\ WaitsOf(j, m)' = WaitsOf(j, m)
      BY <1>2, Zenon DEF AtHand, WaitsOf
    <3>3. \A q \in Process : BatchOf(q, m)' = BatchOf(q, m)
      BY <2>6, Zenon DEF BatchOf
    <3> QED
      BY <1>1, <1>2, <3>1, <3>2, <3>3, PlaceKept, Zenon
  <2>13. RecordsOK'
    <3>1. ASSUME NEW q \in Process PROVE Ahead(q)'
      <4>1. Ahead(q) /\ transcript' = transcript
        BY <1>1, <2>2, Zenon DEF RecordsOK, transcript
      <4>2. CASE q # p
        BY <1>2, <2>5, <4>1, <4>2, Zenon DEF Ahead
      <4>3. CASE q = p
        <5>1. \A i \in DOMAIN transcript : transcript[i].token \in Nat
                                           /\ transcript[i].token <= issued[Thread]
          BY <1>1, Transcript, Zenon DEF RecordsOK
        <5>2. \A i \in DOMAIN transcript : transcript[i].token # l
          BY <1>1, <2>3, <5>1
        <5> QED
          BY <2>4, <2>5, <4>1, <4>3, <5>2, Zenon DEF Ahead
      <4> QED
        BY <4>2, <4>3, Zenon
    <3>2. ASSUME NEW m \in Message, Begun(m) PROVE Begun(m)'
      <4>1. \A q \in Process : turn'[q].pc \in {"claimed", "leased"}
                                 => turn[q].pc \in {"claimed", "leased"}
        BY <1>2, <2>5, Zenon
      <4> QED
        BY <1>2, <2>6, <3>2, <4>1, Zenon DEF Begun
    <3>3. leases'[Thread].token <= issued'[Thread] /\ issued[Thread] <= issued'[Thread]
          /\ issued'[Thread] \in Nat
      BY <2>2, <2>3, Zenon DEF l
    <3> QED
      BY <1>2, <2>2, <3>1, <3>2, <3>3, RecordsKept, Zenon
  <2>14. RunsOK' /\ \A j \in Job : JobOK(j)'
    BY <1>1, <1>2, RunsKept, JobsKept, Zenon
  <2> QED
    BY <2>8, <2>9, <2>10, <2>11, <2>12, <2>13, <2>14, Zenon DEF SignalsIInv
<1> QED
  BY <1>4, <1>5, Zenon

(* A process claims a run.                                                 *)
LEMMA Claims ==
  ASSUME SignalsIInv, NEW p \in Process, NEW r \in Message, claim(p, r) PROVE SignalsIInv'
<1> DEFINE n == spell[r] + 1
           t == [NoTurn EXCEPT !.pc = "claimed", !.run = r, !.spell = n]
<1>1. /\ SignalsTypeOK /\ RunsOK /\ (\A i \in Job : JobOK(i)) /\ TableOK /\ RecordsOK
      /\ (\A q \in Process : TurnOK(q)) /\ (\A q, o \in Process : Apart(q, o))
      /\ (\A m \in Message : PlaceOK(m)) /\ issued[Thread] \in Nat
      /\ (\A m \in Message : spell[m] \in Nat /\ spell[m] <= MaxSpells)
      /\ (\A q \in Process : turn[q] \in TurnState)
      /\ phase \in [Message -> Queue!Phase] /\ spell \in [Message -> 0..MaxSpells]
  BY Fields, Zenon DEF SignalsIInv, SignalsTypeOK
<1>2. /\ turn[p].pc = "idle" /\ phase[r] = "pending" /\ phase' = [phase EXCEPT ![r] = "running"]
      /\ (\A q \in Message : phase[q] = "running"
            => [m \in Message |-> Thread][q] # [m \in Message |-> Thread][r])
      /\ spell' = [spell EXCEPT ![r] = n] /\ turn' = [turn EXCEPT ![p] = t]
      /\ UNCHANGED <<leases, issued, log, born, kind, fate, signals, serial, sentAt, job>>
      /\ UNCHANGED <<faults, stalled>>
  BY Zenon DEF claim, Queue!Start, Quiet, faultVars, messageVars, tableVars, sessionVars
<1>3. \A q \in Message : phase[q] # "running"
  BY <1>2, Zenon
<1>4. spell[r] < MaxSpells /\ n \in Nat /\ n \in 0..MaxSpells /\ n >= 1 /\ spell[r] < n
      /\ MaxSpells \in Nat
  <2>1. spell[r] < MaxSpells
    BY <1>1, <1>2 DEF RunsOK
  <2> QED
    BY <1>1, <2>1, Given
<1> HIDE DEF n
<1>5. /\ t \in TurnState /\ t.pc = "claimed" /\ t.run = r /\ t.spell = n /\ t.lease = 0
      /\ t.poll = "off" /\ t.batch = {}
  BY <1>4, Zenon DEF TurnState, NoTurn
<1> HIDE DEF t
<1>6. /\ turn' \in [Process -> TurnState] /\ turn'[p] = t
      /\ \A q \in Process : q # p => turn'[q] = turn[q]
  BY <1>1, <1>2, <1>5, TurnSet, Zenon
<1>7. /\ phase' \in [Message -> Queue!Phase] /\ phase'[r] = "running"
      /\ \A m \in Message : m # r => phase'[m] = phase[m]
  BY <1>1, <1>2 DEF Queue!Phase
<1>8. /\ spell' \in [Message -> 0..MaxSpells] /\ spell'[r] = n
      /\ \A m \in Message : m # r => spell'[m] = spell[m]
  BY <1>1, <1>2, <1>4, Zenon
<1>9. SignalsTypeOK'
  BY <1>1, <1>2, <1>6, <1>7, <1>8, Zenon DEF SignalsTypeOK, SessionTypeOK
<1>10. /\ \A m \in Message : (phase'[m] # "absent" <=> phase[m] # "absent")
       /\ \A m \in Message : (isTerminal(m)' <=> isTerminal(m))
       /\ \A m \in Message : spell[m] <= spell'[m] /\ (spell[m] > 0 => spell'[m] > 0)
  BY <1>1, <1>2, <1>4, <1>7, <1>8 DEF isTerminal
<1>11. RunsOK'
  <2>1. ASSUME NEW m \in Message, phase'[m] \in {"absent", "pending"}
        PROVE  m # r /\ phase[m] \in {"absent", "pending"}
    BY <1>7, <2>1
  <2>2. ASSUME NEW m \in Message, phase'[m] = "absent" PROVE m # r /\ phase[m] = "absent"
    BY <1>7, <2>2
  <2>3. \A m \in Message : phase'[m] = "running" => m = r
    BY <1>3, <1>7, Zenon
  <2>4. born \in Seq(Message)
    BY <1>1, Zenon DEF SignalsTypeOK
  <2>5. \A i \in DOMAIN born : born[i] \in Message
    BY <2>4
  <2> QED
    BY <1>1, <1>2, <1>8, <1>10, <2>1, <2>2, <2>3, <2>5, Zenon DEF RunsOK
<1>12. ASSUME NEW j \in Job PROVE JobOK(j)'
  <2>1. JobOK(j)
    BY <1>1
  <2> QED
    BY <1>2, <1>10, <2>1, Zenon DEF JobOK
<1>13. ASSUME NEW q \in Process PROVE TurnOK(q)'
  <2>1. TurnOK(q)
    BY <1>1
  <2>2. CASE q # p
    <3>1. turn'[q] = turn[q]
      BY <1>6, <2>2
    <3>2. turn[q].pc # "idle" => stalled
      BY <1>3, <2>1, Zenon DEF TurnOK, Current
    <3>3. turn[q].pc = "idle" => turn[q].pc \notin Leased
      BY DEF Leased
    <3>4. ASSUME turn[q].pc # "idle"
          PROVE  turn[q].run \in Message /\ phase'[turn[q].run] # "absent"
                 /\ turn[q].spell \in 1..spell'[turn[q].run]
      <4>1. turn[q].run \in Message /\ phase[turn[q].run] # "absent"
            /\ turn[q].spell \in 1..spell[turn[q].run]
        BY <2>1, <3>4, Zenon DEF TurnOK
      <4>2. spell[turn[q].run] \in Nat /\ spell[turn[q].run] <= spell'[turn[q].run]
            /\ spell'[turn[q].run] \in 0..MaxSpells
        BY <1>1, <1>8, <1>10, <4>1, Zenon
      <4>3. turn[q].spell \in 1..spell'[turn[q].run]
        BY <4>1, <4>2, <1>4
      <4> QED
        BY <1>10, <4>1, <4>3, Zenon
    <3> QED
      BY <1>2, <2>1, <3>1, <3>2, <3>3, <3>4, Zenon DEF TurnOK
  <2>3. CASE q = p
    <3>1. Current(p)'
      BY <1>5, <1>6, <1>7, <1>8, Zenon DEF Current
    <3>2. t.spell \in 1..spell'[t.run] /\ phase'[t.run] # "absent" /\ t.run \in Message
      BY <1>4, <1>5, <1>7, <1>8
    <3>3. t.lease <= issued'[Thread] /\ t.pc \notin Leased
      BY <1>1, <1>2, <1>5 DEF Leased
    <3> QED
      BY <1>5, <1>6, <2>3, <3>1, <3>2, <3>3, Zenon DEF TurnOK
  <2> QED
    BY <2>2, <2>3, Zenon
<1>14. ASSUME NEW q \in Process, NEW o \in Process PROVE Apart(q, o)'
  <2>1. Apart(q, o)
    BY <1>1
  <2>2. ASSUME NEW i \in Process, i # p, turn'[i].pc # "idle", turn'[i].run = r
        PROVE  turn'[i].spell # n
    <3>1. turn'[i] = turn[i] /\ TurnOK(i)
      BY <1>1, <1>6, <2>2
    <3>2. turn[i].spell \in 1..spell[r]
      BY <2>2, <3>1, Zenon DEF TurnOK
    <3> QED
      BY <1>1, <1>4, <3>1, <3>2
  <2> QED
    BY <1>5, <1>6, <2>1, <2>2, Zenon DEF Apart
<1>15. turn[p].batch = {}
  <2>1. TurnOK(p)
    BY <1>1
  <2> QED
    BY <1>2, <2>1, Zenon DEF TurnOK
<1>16. TableOK'
  <2>1. /\ \A x \in signals : x.to \in Message
        /\ \A q \in Process : \A x \in turn[q].batch : x.to \in Message
    BY <1>1, TurnFields, RowFields, Zenon DEF SignalsTypeOK
  <2>2. ASSUME NEW x, x.to \in Message, RowOK(x) PROVE RowOK(x)'
    BY <1>2, <1>10, <2>2, Zenon DEF RowOK
  <2> QED
    BY <1>1, <1>2, <1>5, <1>6, <2>1, <2>2, Zenon DEF TableOK
<1>17. ASSUME NEW m \in Message PROVE PlaceOK(m)'
  <2>1. RowsOf(m)' = RowsOf(m) /\ (NoRun(m)' <=> NoRun(m)) /\ (NoEnd(m)' <=> NoEnd(m))
    BY <1>2, <1>10, Zenon DEF RowsOf, NoRun, NoEnd
  <2>2. \A j \in Job : (AtHand(j, m)' <=> AtHand(j, m)) /\ WaitsOf(j, m)' = WaitsOf(j, m)
    BY <1>2, Zenon DEF AtHand, WaitsOf
  <2>3. \A q \in Process : BatchOf(q, m)' = BatchOf(q, m)
    BY <1>5, <1>6, <1>15, Zenon DEF BatchOf
  <2> QED
    BY <1>1, <1>2, <2>1, <2>2, <2>3, PlaceKept, Zenon
<1>18. RecordsOK'
  <2>1. spell[t.run] > 0 => t.spell > 1
    BY <1>1, <1>4, <1>5 DEF n
  <2> QED
    BY <1>2, <1>5, <1>6, <1>10, <2>1, RecordsLeft, Zenon
<1> QED
  BY <1>9, <1>11, <1>12, <1>13, <1>14, <1>16, <1>17, <1>18, Zenon DEF SignalsIInv

-----------------------------------------------------------------------------
(* A run that was running ends, and its listener starts, or waits again.   *)
LEMMA RunMoves ==
  ASSUME SignalsIInv, NEW p \in Process, NEW r \in Message, kind' = kind,
         UNCHANGED <<born, spell>>,
         retire(r, p) \/ settle(r, p, "done") \/ settle(r, p, "failed")
  PROVE  /\ phase' \in [Message -> Queue!Phase] /\ job' \in [Job -> JobState]
         /\ phase[r] = "running" /\ \A m \in Message : m # r => phase'[m] = phase[m]
         /\ \A m \in Message : phase'[m] # "absent" <=> phase[m] # "absent"
         /\ RunsOK' /\ \A j \in Job : JobOK(j)'
         /\ \A j \in Job, m \in Message :
              (AtHand(j, m)' <=> AtHand(j, m)) /\ WaitsOf(j, m)' = WaitsOf(j, m)
<1> DEFINE e == <<"end", r>>
           y == [NoJob EXCEPT !.pc = "take", !.at = p]
<1>1. /\ SignalsTypeOK /\ RunsOK /\ (\A j \in Job : JobOK(j)) /\ phase \in [Message -> Queue!Phase]
      /\ born \in Seq(Message) /\ \A j \in Job : job[j] \in JobState
  BY Fields, Zenon DEF SignalsIInv, SignalsTypeOK
<1>2. PICK o \in {"pending", "done", "failed"} :
        /\ phase[r] = "running" /\ phase' = [phase EXCEPT ![r] = o]
        /\ \/ o = "pending" /\ spell[r] < MaxSpells /\ job' = job
           \/ o # "pending" /\ job' = [job EXCEPT ![e] = y]
  <2>1. CASE spell[r] < MaxSpells /\ Queue!Yield(r) /\ job' = job
    BY <2>1, Zenon DEF Queue!Yield
  <2>2. ASSUME settle(r, p, "done") \/ settle(r, p, "failed")
        PROVE  \E o \in {"done", "failed"} : /\ phase[r] = "running"
                                             /\ phase' = [phase EXCEPT ![r] = o]
                                             /\ job' = [job EXCEPT ![e] = y]
    BY <2>2, Zenon DEF settle, Queue!Settle
  <2>3. \A o \in {"done", "failed"} : o \in {"pending", "done", "failed"} /\ o # "pending"
    OBVIOUS
  <2> HIDE DEF e, y
  <2>4. CASE settle(r, p, "done") \/ settle(r, p, "failed")
    BY <2>2, <2>3, <2>4, Zenon
  <2> QED
    BY <2>1, <2>4, Zenon DEF retire
<1>3. e \in Job /\ y \in JobState /\ y.pc = "take" /\ y.todo = {}
  BY Jobs, Zenon DEF JobState, NoJob
<1>4. /\ phase' \in [Message -> Queue!Phase] /\ phase'[r] = o
      /\ \A m \in Message : m # r => phase'[m] = phase[m]
  BY <1>1, <1>2 DEF Queue!Phase
<1>5. \A m \in Message : /\ phase'[m] # "absent" <=> phase[m] # "absent"
                         /\ isTerminal(m) => isTerminal(m)'
                         /\ phase'[m] = "running" => phase[m] = "running"
  BY <1>2, <1>4 DEF isTerminal
<1>6. o # "pending" => isTerminal(r)'
  BY <1>2, <1>4 DEF isTerminal
<1>7. job[e].pc = "none" /\ job[e].todo = {}
  <2>1. ~isTerminal(r)
    BY <1>2 DEF isTerminal
  <2>2. JobOK(e)
    BY <1>1, <1>3
  <2> QED
    BY <2>1, <2>2, Zenon DEF JobOK
<1>8. \A m \in Message : e # <<"turn", m>> /\ (e = <<"end", m>> => m = r)
  BY Zenon
<1> HIDE DEF e, y
<1>9. /\ job' \in [Job -> JobState]
      /\ \A j \in Job : \/ job'[j] = job[j]
                        \/ j = e /\ job'[j] = y /\ isTerminal(r)'
  <2>1. CASE job' = job
    BY <1>1, <2>1, Zenon DEF SignalsTypeOK
  <2>2. CASE o # "pending" /\ job' = [job EXCEPT ![e] = y]
    BY <1>1, <1>3, <1>6, <2>2, JobSet, Zenon
  <2> QED
    BY <1>2, <2>1, <2>2, Zenon
<1>10. RunsOK'
  <2>1. ASSUME NEW m \in Message, phase'[m] \in {"absent", "pending"} PROVE spell'[m] < MaxSpells
    <3>1. CASE m = r
      <4>1. o = "pending"
        BY <1>2, <1>4, <2>1, <3>1
      <4> QED
        BY <1>2, <3>1, <4>1, Zenon
    <3>2. CASE m # r
      BY <1>1, <1>4, <2>1, <3>2, Zenon DEF RunsOK
    <3> QED
      BY <3>1, <3>2, Zenon
  <2>2. \A m \in Message : phase'[m] = "absent" => spell'[m] = 0
    BY <1>1, <1>5, Zenon DEF RunsOK
  <2>3. \A m, n \in Message : phase'[m] = "running" /\ phase'[n] = "running" => m = n
    BY <1>1, <1>5, Zenon DEF RunsOK
  <2>4. \A i \in DOMAIN born : born[i] \in Message
    BY <1>1
  <2>5. \A i \in DOMAIN born : phase'[born[i]] # "absent"
    BY <1>1, <1>5, <2>4, Zenon DEF RunsOK
  <2> QED
    BY <2>1, <2>2, <2>3, <2>5, Zenon DEF RunsOK
<1>11. ASSUME NEW j \in Job PROVE JobOK(j)'
  <2>1. JobOK(j)
    BY <1>1
  <2>2. CASE job'[j] = job[j]
    BY <1>5, <2>1, <2>2, Zenon DEF JobOK
  <2>3. CASE j = e /\ job'[j] = y /\ isTerminal(r)'
    <3>1. y.pc \notin {"send", "check"} /\ y.pc \in {"none", "take"}
      BY <1>3
    <3> QED
      BY <1>3, <1>8, <2>3, <3>1, Zenon DEF JobOK
  <2> QED
    BY <1>9, <2>2, <2>3, Zenon
<1>12. ASSUME NEW j \in Job, NEW m \in Message
       PROVE  (AtHand(j, m)' <=> AtHand(j, m)) /\ WaitsOf(j, m)' = WaitsOf(j, m)
  <2>1. CASE job'[j] = job[j]
    BY <2>1, Zenon DEF AtHand, WaitsOf
  <2>2. CASE j = e /\ job'[j] = y
    <3>1. y.pc \notin {"look", "enqueue", "send"} /\ job[e].pc \notin {"look", "enqueue", "send"}
      BY <1>3, <1>7
    <3> QED
      BY <1>3, <1>7, <2>2, <3>1, Zenon DEF AtHand, WaitsOf
  <2> QED
    BY <1>9, <2>1, <2>2, Zenon
<1> QED
  BY <1>2, <1>4, <1>5, <1>9, <1>10, <1>11, <1>12, Zenon

(* Turns end, or go on as they were.                                       *)
LEMMA TurnsEnd ==
  ASSUME SignalsIInv, turn' \in [Process -> TurnState],
         \A q \in Process : turn'[q] = turn[q] \/ turn'[q] = NoTurn,
         UNCHANGED <<issued, spell, signals, serial, sentAt>>,
         leases'[Thread].token = leases[Thread].token, stalled => stalled',
         \A m \in Message : phase[m] # "absent" => phase'[m] # "absent",
         ~stalled' => \A q \in Process : turn'[q].pc # "idle"
                                           => phase'[turn[q].run] = phase[turn[q].run]
  PROVE  /\ (\A q \in Process : TurnOK(q)') /\ (\A q, o \in Process : Apart(q, o)')
         /\ TableOK'
<1>1. /\ SignalsTypeOK /\ TableOK /\ (\A q \in Process : TurnOK(q) /\ turn[q] \in TurnState)
      /\ (\A q, o \in Process : Apart(q, o)) /\ issued[Thread] \in Nat
  BY Fields, Zenon DEF SignalsIInv
<1>2. NoTurn.pc = "idle" /\ NoTurn.lease = 0 /\ NoTurn.poll = "off" /\ NoTurn.batch = {}
  BY DEF NoTurn
<1>3. ASSUME NEW q \in Process PROVE TurnOK(q)'
  <2>1. TurnOK(q)
    BY <1>1
  <2>2. CASE turn'[q] = NoTurn
    <3>1. 0 <= issued'[Thread] /\ "idle" \notin Leased
      BY <1>1 DEF Leased
    <3> QED
      BY <1>2, <2>2, <3>1, Zenon DEF TurnOK
  <2>3. CASE turn'[q] = turn[q]
    <3>1. ~stalled' /\ turn'[q].pc # "idle" => (Current(q)' <=> Current(q))
      BY <2>3, Zenon DEF Current
    <3>2. holdsSession(q)' <=> holdsSession(q)
      BY <2>3, Zenon DEF holdsSession, HoldsLease
    <3> QED
      BY <2>1, <2>3, <3>1, <3>2, Zenon DEF TurnOK
  <2> QED
    BY <2>2, <2>3, Zenon
<1>4. ASSUME NEW q \in Process, NEW o \in Process PROVE Apart(q, o)'
  <2>1. Apart(q, o)
    BY <1>1
  <2> QED
    BY <1>2, <2>1, Zenon DEF Apart
<1>5. TableOK'
  <2>1. /\ \A x \in signals : x.to \in Message
        /\ \A q \in Process : \A x \in turn[q].batch : x.to \in Message
    BY <1>1, TurnFields, RowFields, Zenon DEF SignalsTypeOK
  <2>2. ASSUME NEW x, x.to \in Message, RowOK(x) PROVE RowOK(x)'
    BY <2>2, Zenon DEF RowOK
  <2> QED
    BY <1>1, <1>2, <2>1, <2>2, Zenon DEF TableOK
<1> QED
  BY <1>3, <1>4, <1>5, Zenon

(* A turn reports how its run went.                                        *)
LEMMA Reports ==
  ASSUME SignalsIInv, NEW p \in Process, report(p) PROVE SignalsIInv'
<1>1. /\ SignalsTypeOK /\ RunsOK /\ (\A j \in Job : JobOK(j))
      /\ (\A q \in Process : TurnOK(q)) /\ (\A q, o \in Process : Apart(q, o))
      /\ (\A m \in Message : PlaceOK(m))
      /\ phase \in [Message -> Queue!Phase] /\ job \in [Job -> JobState]
  BY Zenon DEF SignalsIInv, SignalsTypeOK
<1>2. /\ turn[p].pc = "report" /\ turn' = [turn EXCEPT ![p] = NoTurn]
      /\ UNCHANGED <<leases, issued, log, born, spell, kind, fate, signals, serial, sentAt>>
      /\ UNCHANGED <<faults, stalled>>
  BY Zenon DEF report, Quiet, faultVars, messageVars, tableVars, sessionVars
<1>3. NoTurn \in TurnState /\ NoTurn.batch = {} /\ NoTurn.lease = 0 /\ NoTurn.pc = "idle"
  BY DEF NoTurn, TurnState
<1>4. /\ turn' \in [Process -> TurnState] /\ turn'[p] = NoTurn
      /\ \A q \in Process : q # p => turn'[q] = turn[q]
  BY <1>1, <1>2, <1>3, TurnSet, Zenon
<1>5. turn[p].pc # "idle" /\ turn[p].batch = {} /\ turn[p].run \in Message
  <2>1. TurnOK(p)
    BY <1>1
  <2> QED
    BY <1>2, <2>1 DEF TurnOK
<1>6. /\ phase' \in [Message -> Queue!Phase] /\ job' \in [Job -> JobState]
      /\ \A m \in Message : phase'[m] # "absent" <=> phase[m] # "absent"
      /\ RunsOK' /\ \A j \in Job : JobOK(j)'
      /\ \A j \in Job, m \in Message :
           (AtHand(j, m)' <=> AtHand(j, m)) /\ WaitsOf(j, m)' = WaitsOf(j, m)
      /\ ~stalled => \A q \in Process : turn'[q].pc # "idle"
                                          => phase'[turn[q].run] = phase[turn[q].run]
  <2>1. CASE ~Current(p)
    <3>1. phase' = phase /\ job' = job
      BY <2>1, Zenon DEF report
    <3>2. RunsOK' /\ \A j \in Job : JobOK(j)'
      BY <1>1, <1>2, <3>1, RunsKept, JobsKept, Zenon DEF queueVars
    <3> QED
      BY <1>1, <3>1, <3>2, Zenon DEF AtHand, WaitsOf
  <2>2. CASE Current(p)
    <3>1. PICK r \in Message : r = turn[p].run
      BY <1>5
    <3>2. retire(r, p) \/ settle(r, p, "done") \/ settle(r, p, "failed")
      BY <2>2, <3>1, Zenon DEF report
    <3>3. /\ phase' \in [Message -> Queue!Phase] /\ job' \in [Job -> JobState]
          /\ phase[r] = "running" /\ \A m \in Message : m # r => phase'[m] = phase[m]
          /\ \A m \in Message : phase'[m] # "absent" <=> phase[m] # "absent"
          /\ RunsOK' /\ \A j \in Job : JobOK(j)'
          /\ \A j \in Job, m \in Message :
               (AtHand(j, m)' <=> AtHand(j, m)) /\ WaitsOf(j, m)' = WaitsOf(j, m)
      BY <1>2, <3>2, RunMoves, Zenon
    <3>4. ASSUME ~stalled, NEW q \in Process, turn'[q].pc # "idle"
          PROVE  turn[q].run \in Message /\ turn[q].run # r
      <4>1. q # p /\ turn[q].pc # "idle" /\ TurnOK(q) /\ Apart(p, q)
        BY <1>1, <1>3, <1>4, <3>4, Zenon
      <4>2. turn[q].run \in Message /\ Current(q)
        BY <3>4, <4>1, Zenon DEF TurnOK
      <4>3. turn[q].run # r
        BY <1>5, <2>2, <3>1, <4>1, <4>2, Zenon DEF Current, Apart
      <4> QED
        BY <4>2, <4>3
    <3> QED
      BY <3>3, <3>4, Zenon
  <2> QED
    BY <2>1, <2>2, Zenon
<1>7. SignalsTypeOK'
  BY <1>1, <1>2, <1>4, <1>6, Zenon DEF SignalsTypeOK, SessionTypeOK
<1>8. /\ (\A q \in Process : TurnOK(q)') /\ (\A q, o \in Process : Apart(q, o)') /\ TableOK'
  BY <1>2, <1>4, <1>6, TurnsEnd, Zenon
<1>9. ASSUME NEW m \in Message PROVE PlaceOK(m)'
  <2>1. RowsOf(m)' = RowsOf(m) /\ (NoRun(m)' <=> NoRun(m)) /\ (NoEnd(m)' <=> NoEnd(m))
    BY <1>2, <1>6, Zenon DEF RowsOf, NoRun, NoEnd
  <2>2. \A q \in Process : BatchOf(q, m)' = BatchOf(q, m)
    BY <1>3, <1>4, <1>5, Zenon DEF BatchOf
  <2> QED
    BY <1>1, <1>2, <1>6, <2>1, <2>2, PlaceKept, Zenon
<1>10. RecordsOK'
  <2>1. "idle" \notin {"claimed", "leased"}
    OBVIOUS
  <2> QED
    BY <1>2, <1>3, <1>4, <1>6, <2>1, RecordsLeft, Zenon
<1> QED
  BY <1>6, <1>7, <1>8, <1>9, <1>10, Zenon DEF SignalsIInv

(* The reaper retires a run, whose worker may only have stalled.           *)
LEMMA Reaps ==
  ASSUME SignalsIInv, NEW p \in Process, NEW r \in Message, reap(r, p) PROVE SignalsIInv'
<1>1. /\ SignalsTypeOK /\ RunsOK /\ (\A q \in Process : TurnOK(q)) /\ faults \in Nat
      /\ (\A m \in Message : PlaceOK(m)) /\ stalled \in BOOLEAN /\ turn \in [Process -> TurnState]
  BY Zenon DEF SignalsIInv, SignalsTypeOK
<1>2. /\ phase[r] = "running" /\ retire(r, p)
      /\ IF Held(r) THEN faults' = faults + 1 /\ stalled' = TRUE
                    ELSE faults' = faults /\ stalled' = stalled
      /\ UNCHANGED <<leases, issued, log, born, spell, kind, fate, signals, serial, sentAt, turn>>
  BY Zenon DEF reap, Fault, Quiet, faultVars, messageVars, tableVars, sessionVars
<1>3. /\ phase' \in [Message -> Queue!Phase] /\ job' \in [Job -> JobState]
      /\ \A m \in Message : m # r => phase'[m] = phase[m]
      /\ \A m \in Message : phase'[m] # "absent" <=> phase[m] # "absent"
      /\ RunsOK' /\ \A j \in Job : JobOK(j)'
      /\ \A j \in Job, m \in Message :
           (AtHand(j, m)' <=> AtHand(j, m)) /\ WaitsOf(j, m)' = WaitsOf(j, m)
  BY <1>2, RunMoves, Zenon
<1>4. faults' \in Nat /\ stalled' \in BOOLEAN /\ (stalled => stalled') /\ (Held(r) => stalled')
  <2>1. CASE Held(r)
    BY <1>1, <1>2, <2>1
  <2>2. CASE ~Held(r)
    BY <1>1, <1>2, <2>2, Zenon
  <2> QED
    BY <2>1, <2>2, Zenon
<1>5. SignalsTypeOK'
  BY <1>1, <1>2, <1>3, <1>4, Zenon DEF SignalsTypeOK, SessionTypeOK
<1>6. ASSUME ~stalled', NEW q \in Process, turn'[q].pc # "idle"
      PROVE  phase'[turn[q].run] = phase[turn[q].run]
  <2>1. TurnOK(q) /\ turn[q].pc # "idle" /\ ~stalled /\ ~Held(r)
    BY <1>1, <1>2, <1>4, <1>6, Zenon
  <2>2. turn[q].run \in Message /\ Current(q)
    BY <2>1, Zenon DEF TurnOK
  <2>3. turn[q].run # r
    BY <2>1, <2>2, Zenon DEF Current, Held
  <2> QED
    BY <1>3, <2>2, <2>3, Zenon
<1>7. /\ (\A q \in Process : TurnOK(q)') /\ (\A q, o \in Process : Apart(q, o)') /\ TableOK'
  BY <1>1, <1>2, <1>3, <1>4, <1>6, TurnsEnd, Zenon
<1>8. ASSUME NEW m \in Message PROVE PlaceOK(m)'
  <2>1. RowsOf(m)' = RowsOf(m) /\ (NoRun(m)' <=> NoRun(m)) /\ (NoEnd(m)' <=> NoEnd(m))
    BY <1>2, <1>3, Zenon DEF RowsOf, NoRun, NoEnd
  <2>2. \A q \in Process : BatchOf(q, m)' = BatchOf(q, m)
    BY <1>2, Zenon DEF BatchOf
  <2> QED
    BY <1>1, <1>2, <1>3, <2>1, <2>2, PlaceKept, Zenon
<1>9. RecordsOK'
  BY <1>2, <1>3, <1>4, RecordsLeft, Zenon
<1> QED
  BY <1>3, <1>5, <1>7, <1>8, <1>9, Zenon DEF SignalsIInv

(* A process dies with its turn, its jobs and its batch.                   *)
LEMMA Crashes ==
  ASSUME SignalsIInv, NEW p \in Process, crash(p) PROVE SignalsIInv'
<1>1. /\ SignalsTypeOK /\ RunsOK /\ (\A j \in Job : JobOK(j)) /\ faults \in Nat
      /\ (\A m \in Message : PlaceOK(m))
      /\ job \in [Job -> JobState]
      /\ fate \in [Message -> Fate]
  BY Zenon DEF SignalsIInv, SignalsTypeOK
<1>2. PICK dead \in SUBSET Job :
        /\ fate' = [m \in Message |->
                      IF (\E j \in dead : AtHand(j, m) \/ WaitsOf(j, m) # {}) \/ BatchOf(p, m) # {}
                        THEN "lost" ELSE fate[m]]
        /\ job' = [j \in Job |-> IF j \in dead THEN NoJob ELSE job[j]]
  <2>1. {j \in Job : Home(j) = p} \in SUBSET Job
    BY Zenon
  <2> QED
    BY <2>1, Zenon DEF crash
<1>3. /\ faults' = faults + 1 /\ turn' = [turn EXCEPT ![p] = NoTurn]
      /\ UNCHANGED <<leases, issued, log, phase, born, spell, kind, signals, serial, sentAt, stalled>>
      /\ UNCHANGED queueVars
  BY Zenon DEF crash, Fault, tableVars, sessionVars, queueVars
<1>4. NoTurn \in TurnState /\ NoTurn.batch = {} /\ NoTurn.lease = 0 /\ NoTurn.pc = "idle"
  BY Zenon DEF NoTurn, TurnState
<1>5. /\ turn' \in [Process -> TurnState] /\ turn'[p] = NoTurn
      /\ \A q \in Process : q # p => turn'[q] = turn[q]
  BY <1>1, <1>3, <1>4, TurnSet, Zenon
<1>6. NoJob \in JobState /\ NoJob.pc = "none" /\ NoJob.todo = {}
  BY DEF NoJob, JobState
<1>7. job' \in [Job -> JobState] /\ \A j \in Job : job'[j] = IF j \in dead THEN NoJob ELSE job[j]
  BY <1>1, <1>2, <1>6, Zenon
<1>8. /\ fate' \in [Message -> Fate]
      /\ \A m \in Message :
           IF (\E j \in dead : ~NotAt(j, m)) \/ BatchOf(p, m) # {}
             THEN fate'[m] = "lost" ELSE fate'[m] = fate[m]
  <2>1. \A j, m : ~NotAt(j, m) <=> AtHand(j, m) \/ WaitsOf(j, m) # {}
    BY Zenon DEF NotAt
  <2>2. "lost" \in Fate
    BY DEF Fate
  <2>3. ASSUME NEW m \in Message
        PROVE  /\ fate'[m] \in Fate
               /\ IF (\E j \in dead : ~NotAt(j, m)) \/ BatchOf(p, m) # {}
                    THEN fate'[m] = "lost" ELSE fate'[m] = fate[m]
    BY <1>1, <1>2, <2>1, <2>2, Zenon
  <2>4. fate' = [m \in Message |-> fate'[m]]
    BY <1>2, Zenon
  <2> QED
    BY <2>3, <2>4, Zenon
<1>9. faults' \in Nat
  BY <1>1, <1>3
<1>10. SignalsTypeOK'
  BY <1>1, <1>3, <1>5, <1>7, <1>8, <1>9, Zenon DEF SignalsTypeOK, SessionTypeOK
<1>11. ASSUME NEW j \in Job PROVE JobOK(j)'
  <2>1. JobOK(j)
    BY <1>1
  <2>2. CASE j \notin dead
    BY <1>3, <1>7, <2>1, <2>2, Zenon DEF JobOK, isTerminal
  <2>3. CASE j \in dead
    <3>1. job'[j].pc = "none" /\ job'[j].todo = {}
      BY <1>6, <1>7, <2>3, Zenon
    <3> QED
      BY <3>1 DEF JobOK
  <2> QED
    BY <2>2, <2>3, Zenon
<1>12. ASSUME NEW m \in Message PROVE PlaceOK(m)'
  <2>1. RowsOf(m)' = RowsOf(m) /\ (NoRun(m)' <=> NoRun(m)) /\ PlaceOK(m)
    BY <1>1, <1>3, Zenon DEF RowsOf, NoRun
  <2>2. BatchOf(p, m)' = {} /\ \A q \in Process : q # p => BatchOf(q, m)' = BatchOf(q, m)
    BY <1>4, <1>5, Zenon DEF BatchOf
  <2>3. ASSUME NEW j \in dead PROVE ~AtHand(j, m)' /\ WaitsOf(j, m)' = {}
    <3>1. job'[j].pc = "none" /\ job'[j].todo = {}
      BY <1>6, <1>7, Zenon
    <3> QED
      BY <3>1 DEF AtHand, WaitsOf
  <2>4. \A j \in Job : j \notin dead => (AtHand(j, m)' <=> AtHand(j, m)) /\ WaitsOf(j, m)' = WaitsOf(j, m)
    BY <1>7, Zenon DEF AtHand, WaitsOf
  <2>5. ASSUME (\E j \in dead : ~NotAt(j, m)) \/ BatchOf(p, m) # {} PROVE PlaceOK(m)'
    <3>1. fate'[m] = "lost"
      BY <1>8, <2>5, Zenon
    <3>2. ~NoEnd(m)'
      BY <3>1 DEF NoEnd
    <3>3. /\ kind[m] # "none" /\ NoRow(m) /\ NoRun(m)
          /\ \A j \in Job : j \notin dead => NotAt(j, m)
          /\ \A q \in Process : q # p => BatchOf(q, m) = {}
      <4>1. CASE BatchOf(p, m) # {}
        BY <2>1, <4>1, InPoll, Zenon DEF NoCall
      <4>2. ASSUME NEW j \in dead, ~NotAt(j, m)
            PROVE  /\ kind[m] # "none" /\ NoRow(m) /\ NoRun(m) /\ NoPoll(m)
                   /\ \A i \in Job : i # j => NotAt(i, m)
        BY <2>1, <4>2, WithJob, Zenon
      <4> QED
        BY <2>5, <4>1, <4>2, Zenon DEF NoPoll
    <3>4. NoRow(m)' /\ NoCall(m)' /\ NoPoll(m)' /\ NoRun(m)'
      BY <2>1, <2>2, <2>3, <2>4, <3>3, Zenon DEF NoRow, NoCall, NotAt, NoPoll
    <3> QED
      BY <1>3, <3>2, <3>3, <3>4, Zenon DEF PlaceOK, Placed
  <2>6. CASE ~((\E j \in dead : ~NotAt(j, m)) \/ BatchOf(p, m) # {})
    <3>1. NoEnd(m)' <=> NoEnd(m)
      BY <1>8, <2>6, Zenon DEF NoEnd
    <3>2. \A j \in Job : (AtHand(j, m)' <=> AtHand(j, m)) /\ WaitsOf(j, m)' = WaitsOf(j, m)
      BY <2>3, <2>4, <2>6, Zenon DEF NotAt
    <3>3. \A q \in Process : BatchOf(q, m)' = BatchOf(q, m)
      BY <2>2, <2>6, Zenon
    <3> QED
      BY <1>3, <2>1, <3>1, <3>2, <3>3, PlaceKept, Zenon
  <2> QED
    BY <2>5, <2>6, Zenon
<1>13. /\ (\A q \in Process : TurnOK(q)') /\ (\A q, o \in Process : Apart(q, o)') /\ TableOK'
  BY <1>3, <1>5, TurnsEnd, Zenon
<1>14. RecordsOK'
  <2>1. "idle" \notin {"claimed", "leased"}
    OBVIOUS
  <2>2. \A m \in Message : fate'[m] = fate[m] \/ fate'[m] \in {"dropped", "lost"}
    BY <1>8, Zenon
  <2> QED
    BY <1>3, <1>4, <1>5, <2>1, <2>2, RecordsLeft, Zenon
<1>15. RunsOK'
  BY <1>1, <1>3, RunsKept, Zenon
<1> QED
  BY <1>10, <1>11, <1>12, <1>13, <1>14, <1>15, Zenon DEF SignalsIInv

(* The session lease runs out, which touches no turn.                      *)
LEMMA Expires ==
  ASSUME SignalsIInv, expire PROVE SignalsIInv'
<1>1. /\ SignalsTypeOK /\ RunsOK /\ (\A j \in Job : JobOK(j)) /\ TableOK
      /\ (\A q \in Process : TurnOK(q)) /\ (\A q, o \in Process : Apart(q, o))
      /\ (\A m \in Message : PlaceOK(m))
  BY Zenon DEF SignalsIInv
<1>2. /\ SessionTick
      /\ UNCHANGED <<phase, born, spell, kind, fate, signals, serial, sentAt, job, turn>>
      /\ UNCHANGED <<queueVars, faults, stalled>>
  BY Zenon DEF expire, queueVars, messageVars, tableVars, Quiet, faultVars
<1>3. /\ SessionTypeOK' /\ log' = log /\ issued' = issued
      /\ leases'[Thread].token = leases[Thread].token
  BY <1>1, <1>2, Ticks, Zenon
<1>4. SignalsTypeOK'
  BY <1>1, <1>2, <1>3, Zenon DEF SignalsTypeOK
<1>5. RunsOK' /\ (\A j \in Job : JobOK(j)') /\ TableOK' /\ \A m \in Message : PlaceOK(m)'
  BY <1>1, <1>2, RunsKept, JobsKept, TableKept, PlacesKept, Zenon
<1>6. (\A p \in Process : TurnOK(p)') /\ \A p, q \in Process : Apart(p, q)'
  BY <1>1, <1>2, <1>3, TurnsKept, Zenon
<1>7. RecordsOK'
  BY <1>2, <1>3, RecordsLeft, Zenon
<1> QED
  BY <1>4, <1>5, <1>6, <1>7, Zenon DEF SignalsIInv

-----------------------------------------------------------------------------
(* At the start there is no message, run or row.                           *)
LEMMA SignalsStarts == SignalsInit => SignalsIInv
<1> SUFFICES ASSUME SignalsInit PROVE SignalsIInv
  OBVIOUS
<1>1. PICK k \in Kind : kind = [m \in Message |-> IF m = First THEN k ELSE "none"]
  BY Given, Zenon DEF SignalsInit
<1>2. /\ leases = [s \in SessionId |-> NoLease] /\ issued = [s \in SessionId |-> 0]
      /\ log = [s \in SessionId |-> <<>>]
      /\ phase = [m \in Message |-> IF m = First THEN "pending" ELSE "absent"]
      /\ born = <<First>> /\ spell = [m \in Message |-> 0]
      /\ signals = {} /\ serial = 0 /\ sentAt = [m \in Message |-> 0]
      /\ job = [j \in Job |-> NoJob] /\ turn = [p \in Process |-> NoTurn]
      /\ fate = [m \in Message |-> "none"] /\ faults = 0 /\ stalled = FALSE
  BY Zenon DEF SignalsInit, SessionInit
<1>3. /\ NoJob \in JobState /\ NoJob.pc = "none" /\ NoJob.todo = {}
      /\ NoTurn \in TurnState /\ NoTurn.pc = "idle" /\ NoTurn.poll = "off" /\ NoTurn.batch = {}
      /\ NoTurn.lease = 0
  BY Zenon DEF NoJob, JobState, NoTurn, TurnState
<1>4. /\ \A j \in Job : job[j].pc = "none" /\ job[j].todo = {}
      /\ \A p \in Process : /\ turn[p].pc = "idle" /\ turn[p].poll = "off" /\ turn[p].batch = {}
                            /\ turn[p].lease = 0
  BY <1>2, <1>3, Zenon
<1>5. /\ leases[Thread].token = 0 /\ issued[Thread] = 0 /\ transcript = <<>>
  BY <1>2, Given DEF NoLease, transcript
<1>6. SignalsTypeOK
  <2>1. SessionTypeOK
    BY <1>2 DEF SessionTypeOK, NoLease, Lease
  <2>2. phase \in [Message -> Queue!Phase] /\ born \in Seq(Message) /\ spell \in [Message -> 0..MaxSpells]
    BY <1>2, Given DEF Queue!Phase
  <2>3. /\ kind \in [Message -> Kind \cup {"none"}]
        /\ fate \in [Message -> Fate]
        /\ signals \subseteq Row /\ serial \in Nat /\ sentAt \in [Message -> Nat]
        /\ faults \in Nat /\ stalled \in BOOLEAN
    BY <1>1, <1>2, Zenon DEF Fate
  <2>4. job \in [Job -> JobState] /\ turn \in [Process -> TurnState]
    BY <1>2, <1>3, Zenon
  <2> QED
    BY <2>1, <2>2, <2>3, <2>4, Zenon DEF SignalsTypeOK
<1>7. RunsOK
  BY <1>2, Given DEF RunsOK
<1>8. \A j \in Job : JobOK(j)
  BY <1>4 DEF JobOK
<1>9. ASSUME NEW p \in Process PROVE TurnOK(p)
  BY <1>4, <1>5 DEF TurnOK, Leased
<1>10. \A p, q \in Process : Apart(p, q)
  BY <1>4 DEF Apart
<1>11. TableOK
  BY <1>2, <1>4 DEF TableOK
<1>12. ASSUME NEW m \in Message PROVE PlaceOK(m)
  <2>1. NoRow(m) /\ NoPoll(m) /\ NoEnd(m)
    BY <1>2, <1>4 DEF NoRow, RowsOf, NoPoll, BatchOf, NoEnd
  <2>2. NoCall(m)
    BY <1>4 DEF NoCall, NotAt, AtHand, WaitsOf
  <2>3. kind[m] = "none" <=> NoRun(m)
    BY <1>1, <1>2 DEF NoRun, Kind
  <2> QED
    BY <2>1, <2>2, <2>3, Zenon DEF PlaceOK, Nowhere, Placed
<1>13. RecordsOK
  <2>1. DOMAIN transcript = {}
    BY <1>5
  <2>2. \A m \in Message : fate[m] \notin {"heard", "unread"} /\ ~InTranscript(m)
    BY <1>2, <2>1 DEF InTranscript
  <2>3. leases[Thread].token <= issued[Thread]
    BY <1>5
  <2> QED
    BY <2>1, <2>2, <2>3, Zenon DEF RecordsOK, Ahead, SteeredIsRecorded, RecordedInOrder,
                                   RepeatsOnlyWhatIsPast
<1> QED
  BY <1>6, <1>7, <1>8, <1>9, <1>10, <1>11, <1>12, <1>13, Zenon DEF SignalsIInv

(* A step that changes nothing keeps the invariant.                        *)
LEMMA SignalsStutters ==
  ASSUME SignalsIInv, UNCHANGED signalVars PROVE SignalsIInv'
<1>1. /\ SignalsTypeOK /\ RunsOK /\ (\A j \in Job : JobOK(j)) /\ TableOK
      /\ (\A q \in Process : TurnOK(q)) /\ (\A q, o \in Process : Apart(q, o))
      /\ (\A m \in Message : PlaceOK(m))
  BY Zenon DEF SignalsIInv
<1>2. /\ UNCHANGED <<sessionVars, queueVars, leases, issued, log, phase, born, spell, kind, fate>>
      /\ UNCHANGED <<signals, serial, sentAt, job, turn, faults, stalled>>
  BY Zenon DEF signalVars, sessionVars, queueVars, messageVars, tableVars, faultVars
<1>3. SignalsTypeOK'
  BY <1>1, <1>2, Zenon DEF SignalsTypeOK, SessionTypeOK
<1>4. RunsOK' /\ (\A j \in Job : JobOK(j)') /\ TableOK' /\ \A m \in Message : PlaceOK(m)'
  BY <1>1, <1>2, RunsKept, JobsKept, TableKept, PlacesKept, Zenon
<1>5. (\A p \in Process : TurnOK(p)') /\ \A p, q \in Process : Apart(p, q)'
  BY <1>1, <1>2, TurnsKept, Zenon
<1>6. RecordsOK'
  BY <1>2, RecordsJob, Zenon
<1> QED
  BY <1>3, <1>4, <1>5, <1>6, Zenon DEF SignalsIInv

(* Every step keeps the invariant.                                         *)
LEMMA SignalsMoves == SignalsIInv /\ [SignalsNext]_signalVars => SignalsIInv'
<1> SUFFICES ASSUME SignalsIInv, [SignalsNext]_signalVars PROVE SignalsIInv'
  OBVIOUS
<1>1. ASSUME NEW m \in Message, NEW p \in Process,
             (\E k \in Kinds : arrive(m, k, p)) \/ \E r \in Message : signalRun(m, r, p)
      PROVE  SignalsIInv'
  BY <1>1, Arrives, Signals, Zenon
<1>2. ASSUME NEW j \in Job, jobStep(j) \/ replayThrows(j) PROVE SignalsIInv'
  BY <1>2, Looks, DropsEmpty, Enqueues, Sends, Checks, ReplayFails, Zenon DEF jobStep
<1>3. ASSUME NEW r \in Message, listener(r) \/ \E p \in Process : reap(r, p) PROVE SignalsIInv'
  BY <1>3, Listens, Reaps, Zenon
<1>4. ASSUME NEW p \in Process,
             \/ sweepStep(p) \/ pollStep(p) \/ promptThrows(p)
             \/ dispatchUnrecorded(p) \/ dispatchThrows(p) \/ crash(p)
      PROVE  SignalsIInv'
  BY <1>4, Sweeps, Drains, Takes, Dispatches, PromptEnds, DispatchesUnrecorded, DispatchFails,
     Crashes, Zenon DEF sweepStep, pollStep
<1>5. ASSUME NEW p \in Process, turnStep(p) PROVE SignalsIInv'
  BY <1>5, Claims, TurnAcquires, Prompts, PromptEnds, PollStops, Replies, Unwinds, Reports, Zenon
     DEF turnStep
<1>6. CASE expire
  BY <1>6, Expires, Zenon
<1>7. CASE UNCHANGED signalVars
  BY <1>7, SignalsStutters, Zenon
<1> QED
  BY <1>1, <1>2, <1>3, <1>4, <1>5, <1>6, <1>7, Zenon DEF SignalsNext

(* The inductive invariant, for any number of messages and processes.      *)
THEOREM SignalsInvariance == SignalsSpec => []SignalsIInv
  BY SignalsStarts, SignalsMoves, PTL DEF SignalsSpec

(* The table, the calls and the turns stay well formed.                    *)
THEOREM SignalsTypeCorrect == SignalsSpec => []SignalsTypeOK
<1>1. SignalsIInv => SignalsTypeOK
  BY Zenon DEF SignalsIInv
<1> QED
  BY <1>1, SignalsInvariance, PTL

(* What is written under a lease is in order (RecordedInOrder): onSteer    *)
(* records what takePending returned sorted, and only after the request.   *)
THEOREM SteersInOrder == SignalsSpec => []RecordedInOrder
<1>1. SignalsIInv => RecordedInOrder
  BY Zenon DEF SignalsIInv, RecordsOK
<1> QED
  BY <1>1, SignalsInvariance, PTL

(* What the model was told is in the transcript (SteeredIsRecorded): a     *)
(* turn that nobody took for dead still has its session lease when onSteer *)
(* records.                                                                *)
THEOREM SteersRecorded == SignalsSpec => []SteeredIsRecorded
<1>1. SignalsIInv => SteeredIsRecorded
  BY Zenon DEF SignalsIInv, RecordsOK
<1> QED
  BY <1>1, SignalsInvariance, PTL

(* A retry repeats its request only after what followed it                 *)
(* (RepeatsOnlyWhatIsPast): findTrailingPartialTurn misses no request that *)
(* is still the last thing said.                                           *)
THEOREM RetriesResume == SignalsSpec => []RepeatsOnlyWhatIsPast
<1>1. SignalsIInv => RepeatsOnlyWhatIsPast
  BY Zenon DEF SignalsIInv, RecordsOK
<1> QED
  BY <1>1, SignalsInvariance, PTL

(* What InOnePlace counts is what the invariant tells apart.               *)
LEMMA PlaceSeen ==
  ASSUME NEW m \in Message, PlaceOK(m)
  PROVE  IF kind[m] = "none" THEN Places(m) = {} ELSE \E x \in Places(m) : Places(m) = {x}
<1> DEFINE rows == {<<"row", None, x>> : x \in RowsOf(m)}
           calls == {<<"call", j, None>> : j \in {j \in Job : AtHand(j, m)}}
           waits(j) == {<<"todo", j, x>> : x \in WaitsOf(j, m)}
           todos == UNION {waits(j) : j \in Job}
           batch(p) == {<<"poll", p, x>> : x \in BatchOf(p, m)}
           polls == UNION {batch(p) : p \in Process}
           run == IF phase[m] = "absent" THEN {} ELSE {<<"run", None, None>>}
           end == IF fate[m] = "none" THEN {} ELSE {<<"end", None, None>>}
<1>1. Places(m) = rows \cup calls \cup todos \cup polls \cup run \cup end
  BY Zenon DEF Places
<1>2. /\ NoRow(m) => rows = {}
      /\ OneRow(m) => \E x : rows = {x}
  <2>1. NoRow(m) => rows = {}
    BY Zenon DEF NoRow
  <2>2. ASSUME NEW x, RowsOf(m) = {x} PROVE rows = {<<"row", None, x>>}
    BY <2>2, Zenon
  <2> QED
    BY <2>1, <2>2, Zenon DEF OneRow
<1>3. ASSUME NEW j \in Job
      PROVE  /\ WaitsOf(j, m) = {} => waits(j) = {}
             /\ \A x : WaitsOf(j, m) = {x} => waits(j) = {<<"todo", j, x>>}
  BY Zenon
<1>4. ASSUME NEW p \in Process
      PROVE  /\ BatchOf(p, m) = {} => batch(p) = {}
             /\ \A x : BatchOf(p, m) = {x} => batch(p) = {<<"poll", p, x>>}
  BY Zenon
<1>5. /\ NoRun(m) => run = {}
      /\ ~NoRun(m) => \E x : run = {x}
  BY Zenon DEF NoRun
<1>6. /\ NoEnd(m) => end = {}
      /\ ~NoEnd(m) => \E x : end = {x}
  BY Zenon DEF NoEnd
<1> HIDE DEF waits, batch
<1>7. NoCall(m) => calls = {} /\ todos = {}
  <2>1. ASSUME NoCall(m) PROVE calls = {}
    BY <2>1, Zenon DEF NoCall, NotAt
  <2>2. ASSUME NoCall(m), NEW x \in todos PROVE FALSE
    <3>1. PICK j \in Job : x \in waits(j)
      BY <2>2, Zenon
    <3>2. WaitsOf(j, m) = {}
      BY <2>2, Zenon DEF NoCall, NotAt
    <3> QED
      BY <1>3, <3>1, <3>2, Zenon
  <2> QED
    BY <2>1, <2>2, Zenon
<1>8. ASSUME OneCall(m) PROVE \E x : calls \cup todos = {x}
  <2>1. PICK j \in Job : OnceAt(j, m) /\ \A i \in Job : i # j => NotAt(i, m)
    BY <1>8, Zenon DEF OneCall
  <2>2. \A i \in Job : i # j => ~AtHand(i, m) /\ waits(i) = {}
    BY <1>3, <2>1, Zenon DEF NotAt
  <2>3. todos = waits(j)
    BY <2>2, Zenon
  <2>4. CASE AtHand(j, m) /\ WaitsOf(j, m) = {}
    <3>1. calls = {<<"call", j, None>>}
      BY <2>2, <2>4, Zenon
    <3>2. waits(j) = {}
      BY <1>3, <2>4, Zenon
    <3> HIDE DEF calls, todos
    <3> QED
      BY <2>3, <3>1, <3>2, Zenon
  <2>5. ASSUME ~AtHand(j, m), NEW x, WaitsOf(j, m) = {x} PROVE calls \cup todos = {<<"todo", j, x>>}
    <3>1. calls = {}
      BY <2>2, <2>5, Zenon
    <3>2. waits(j) = {<<"todo", j, x>>}
      BY <1>3, <2>5, Zenon
    <3> HIDE DEF calls, todos
    <3> QED
      BY <2>3, <3>1, <3>2, Zenon
  <2> QED
    BY <2>1, <2>4, <2>5, Zenon DEF OnceAt
<1>9. NoPoll(m) => polls = {}
  <2>1. ASSUME NoPoll(m), NEW x \in polls PROVE FALSE
    <3>1. PICK p \in Process : x \in batch(p)
      BY <2>1, Zenon
    <3> QED
      BY <1>4, <2>1, <3>1, Zenon DEF NoPoll
  <2> QED
    BY <2>1, Zenon
<1>10. ASSUME OnePoll(m) PROVE \E x : polls = {x}
  <2>1. PICK p \in Process : /\ \E x : BatchOf(p, m) = {x}
                             /\ \A q \in Process : q # p => BatchOf(q, m) = {}
    BY <1>10, Zenon DEF OnePoll
  <2>2. \A q \in Process : q # p => batch(q) = {}
    BY <1>4, <2>1, Zenon
  <2>3. polls = batch(p)
    BY <2>2, Zenon
  <2> HIDE DEF polls
  <2> QED
    BY <1>4, <2>1, <2>3, Zenon
<1> HIDE DEF rows, calls, todos, polls, run, end
<1>11. ASSUME Nowhere(m) PROVE Places(m) = {}
  BY <1>1, <1>2, <1>5, <1>6, <1>7, <1>9, <1>11, Zenon DEF Nowhere
<1>12. ASSUME Placed(m) PROVE \E x : Places(m) = {x}
  <2>1. CASE OneRow(m) /\ NoCall(m) /\ NoPoll(m) /\ NoRun(m) /\ NoEnd(m)
    BY <1>1, <1>2, <1>5, <1>6, <1>7, <1>9, <2>1, Zenon
  <2>2. CASE NoRow(m) /\ OneCall(m) /\ NoPoll(m) /\ NoRun(m) /\ NoEnd(m)
    <3>1. PICK x : calls \cup todos = {x}
      BY <1>8, <2>2, Zenon
    <3>2. rows = {} /\ polls = {} /\ run = {} /\ end = {}
      BY <1>2, <1>5, <1>6, <1>9, <2>2, Zenon
    <3>3. Places(m) = calls \cup todos
      BY <1>1, <3>2, Zenon
    <3> QED
      BY <3>1, <3>3, Zenon
  <2>3. CASE NoRow(m) /\ NoCall(m) /\ OnePoll(m) /\ NoRun(m) /\ NoEnd(m)
    BY <1>1, <1>2, <1>5, <1>6, <1>7, <1>10, <2>3, Zenon
  <2>4. CASE NoRow(m) /\ NoCall(m) /\ NoPoll(m) /\ ~NoRun(m) /\ NoEnd(m)
    BY <1>1, <1>2, <1>5, <1>6, <1>7, <1>9, <2>4, Zenon
  <2>5. CASE NoRow(m) /\ NoCall(m) /\ NoPoll(m) /\ NoRun(m) /\ ~NoEnd(m)
    BY <1>1, <1>2, <1>5, <1>6, <1>7, <1>9, <2>5, Zenon
  <2> QED
    BY <1>12, <2>1, <2>2, <2>3, <2>4, <2>5, Zenon DEF Placed
<1> QED
  BY <1>11, <1>12, Zenon DEF PlaceOK

(* A message that has arrived is in exactly one place (InOnePlace): with   *)
(* any number of callers, polls, listeners and sweepers taking signals     *)
(* side by side, and processes dying in between, none is forgotten and     *)
(* none is handled twice.                                                  *)
THEOREM NeverLostFromSight == SignalsSpec => []InOnePlace
<1>1. SignalsIInv => InOnePlace
  BY PlaceSeen, Zenon DEF SignalsIInv, InOnePlace
<1> QED
  BY <1>1, SignalsInvariance, PTL

-----------------------------------------------------------------------------
(* A turn uses the lease it was given.                                     *)
LEMMA LeaseOfTurn ==
  ASSUME SignalsIInv, NEW p \in Process, turn[p].lease # 0
  PROVE  turn[p].lease \in 1..issued[Thread]
<1>1. turn[p] \in TurnState /\ turn[p].lease <= issued[Thread] /\ issued[Thread] \in Nat
  BY Fields, Zenon DEF SignalsIInv, TurnOK
<1>2. turn[p].lease \in Nat
  BY <1>1, TurnFields, Zenon
<1> QED
  BY <1>1, <1>2

(* What a turn appends is an append of the session store.                  *)
LEMMA TurnAppends ==
  ASSUME SignalsIInv, NEW p \in Process, NEW w \in Record, append(Thread, turn[p].lease, "entry", w)
  PROVE  SessionNext
<1>1. turn[p].lease # 0
  BY Zenon DEF append, HoldsLease
<1>2. turn[p].lease \in 1..issued[Thread] /\ Thread \in SessionId
  BY <1>1, LeaseOfTurn, Given, Zenon
<1>3. "entry" \in {"entry", "tape"}
  OBVIOUS
<1> QED
  BY <1>2, <1>3, Zenon DEF SessionNext

(* Every step uses the session store as the store allows, or not at all.   *)
LEMMA SessionMoves ==
  SignalsIInv /\ [SignalsNext]_signalVars => [SessionNext]_sessionVars
<1> SUFFICES ASSUME SignalsIInv, [SignalsNext]_signalVars, ~UNCHANGED sessionVars
             PROVE  SessionNext
  BY Zenon
<1>1. Thread \in SessionId /\ Reply \in Record /\ Message \subseteq Record
  BY Given, Zenon
<1>2. \A p \in Process : turn[p] \in TurnState /\ TurnOK(p)
  BY TurnGiven, Zenon
<1>3. ASSUME NEW p \in Process, acquire(p) PROVE SessionNext
  BY <1>1, <1>3, Zenon DEF acquire, SessionNext
<1>4. ASSUME NEW p \in Process, prompt(p) PROVE SessionNext
  <2>1. turn[p].pc = "leased" /\ append(Thread, turn[p].lease, "entry", turn[p].run)
    BY <1>4, Zenon DEF prompt
  <2>2. turn[p].run \in Message
    <3>1. turn[p].pc # "idle"
      BY <2>1
    <3> QED
      BY <1>2, <3>1, Zenon DEF TurnOK
  <2> QED
    BY <1>1, <2>1, <2>2, TurnAppends, Zenon
<1>5. ASSUME NEW p \in Process, dispatch(p) PROVE SessionNext
  <2>1. PICK x \in turn[p].batch : append(Thread, turn[p].lease, "entry", x.msg)
    BY <1>5, Zenon DEF dispatch, emit
  <2>2. x.msg \in Message
    BY <1>2, TurnFields, RowFields, Zenon
  <2> QED
    BY <1>1, <2>1, <2>2, TurnAppends, Zenon
<1>6. ASSUME NEW p \in Process, emitReply(p) PROVE SessionNext
  BY <1>1, <1>6, TurnAppends, Zenon DEF emitReply
<1>7. ASSUME NEW p \in Process, unwind(p) PROVE SessionNext
  <2>1. releaseSessionLease(Thread, turn[p].lease) /\ turn[p].lease # 0
    BY <1>7, Zenon DEF unwind, releaseSessionLease
  <2> QED
    BY <1>1, <2>1, LeaseOfTurn, Zenon DEF SessionNext
<1>8. CASE expire
  BY <1>8, Zenon DEF expire, SessionNext
<1>9. ASSUME NEW m \in Message, NEW p \in Process,
             (\E k \in Kinds : arrive(m, k, p)) \/ \E r \in Message : signalRun(m, r, p)
      PROVE  FALSE
  BY <1>9, Zenon DEF arrive, signalRun
<1>10. ASSUME NEW j \in Job, jobStep(j) \/ replayThrows(j) PROVE FALSE
  BY <1>10, Zenon DEF jobStep, look, dropEmpty, enqueue, send, check, replayThrows
<1>11. ASSUME NEW r \in Message, listener(r) \/ \E p \in Process : reap(r, p) PROVE FALSE
  BY <1>11, Zenon DEF listener, reap
<1>12. ASSUME NEW p \in Process,
              \/ sweepStep(p) \/ drain(p) \/ takePending(p)
              \/ promptThrows(p) \/ dispatchUnrecorded(p) \/ dispatchThrows(p) \/ crash(p)
       PROVE  FALSE
  BY <1>12, Zenon DEF sweepStep, orphanedSignalSweeper, drain, takePending, promptThrows,
                      dispatchUnrecorded, dispatchThrows, crash
<1>13. ASSUME NEW p \in Process,
              \/ \E r \in Message : claim(p, r)
              \/ promptEnds(p) \/ stopSignalPoll(p) \/ pollStopped(p) \/ report(p)
       PROVE  FALSE
  BY <1>13, Zenon DEF claim, promptEnds, stopSignalPoll, pollStopped, report
<1>14. ~UNCHANGED signalVars
  BY Zenon DEF signalVars
<1>15. ASSUME NEW p \in Process, pollStep(p) \/ turnStep(p) PROVE SessionNext
  BY <1>3, <1>4, <1>5, <1>6, <1>7, <1>12, <1>13, <1>15, Zenon DEF pollStep, turnStep
<1> QED
  BY <1>8, <1>9, <1>10, <1>11, <1>12, <1>14, <1>15, Zenon DEF SignalsNext

(* The turns use the session store as it allows: every write and every     *)
(* release names a lease that was handed out.  What StoreProofs shows of   *)
(* any such use, WritersInTurn above all, holds of this one.               *)
THEOREM TurnsUseSessions == SignalsSpec => SessionSpec
<1>1. SignalsInit => SessionInit
  BY Zenon DEF SignalsInit
<1> QED
  BY <1>1, SignalsInvariance, SessionMoves, PTL DEF SignalsSpec, SessionSpec
=============================================================================
