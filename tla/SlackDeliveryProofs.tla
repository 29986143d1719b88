------------------------ MODULE SlackDeliveryProofs ------------------------
(***************************************************************************)
(* The theorems about the surface, SlackDelivery: its processes post what  *)
(* the outbox holds, and what a turn answers, to Slack.                    *)
(*                                                                         *)
(* The steps of a handler and the restart of a process complete the proof  *)
(* that SlackIInv is inductive.  What the surface does to the outbox is    *)
(* what DeliveryStore allows, so that the proofs about the outbox apply.   *)
(***************************************************************************)
EXTENDS SlackDeliveryInvariant

(* The handlers.  One that acts for run r touches the pins of its process  *)
(* and no other run.                                                       *)
LoopsSame == \A q \in Process, m \in Loop : at(q, m)' = at(q, m)

PinsMove(r) ==
  /\ proc' \in [Process -> ProcessState] /\ LoopsSame
  /\ \A q \in Process : proc'[q].tracker = proc[q].tracker
  /\ \A q \in Process, s \in Run : s # r => (s \in proc'[q].pins <=> s \in proc[q].pins)

(* Replacing the pins of one process.                                      *)
LEMMA PinsSet ==
  ASSUME TypeOK, NEW p \in Process, NEW r \in Run, NEW ps \in SUBSET Run,
         \A s \in Run : s # r => (s \in ps <=> s \in proc[p].pins),
         NEW row, row = [proc[p] EXCEPT !.pins = ps], proc' = [proc EXCEPT ![p] = row]
  PROVE  PinsMove(r) /\ proc'[p].pins = ps
<1>1. proc[p] \in ProcessState
  BY DEF TypeOK, ProcessState
<1>2. /\ row \in ProcessState /\ row.pins = ps /\ row.tracker = proc[p].tracker
      /\ row.loop = proc[p].loop
  BY <1>1, Zenon DEF ProcessState
<1>3. /\ proc' \in [Process -> ProcessState]
      /\ \A q \in Process : proc'[q] = IF q = p THEN row ELSE proc[q]
  BY <1>2, ProcessMoves, Zenon
<1>4. LoopsSame
  BY <1>2, <1>3, Zenon DEF LoopsSame, at
<1>5. \A q \in Process : proc'[q].tracker = proc[q].tracker
  BY <1>2, <1>3, Zenon
<1>6. \A q \in Process, s \in Run : s # r => (s \in proc'[q].pins <=> s \in proc[q].pins)
  BY <1>2, <1>3, Zenon
<1> QED
  BY <1>2, <1>3, <1>4, <1>5, <1>6, Zenon DEF PinsMove

(* unpinRun() takes back one pin.                                          *)
LEMMA Unpinned ==
  ASSUME TypeOK, NEW r \in Run, handler[r].home \in Process, Unpin(r)
  PROVE  PinsMove(r)
<1>1. PICK p \in Process : p = handler[r].home
  BY Zenon
<1>2. PICK ps \in SUBSET Run : ps = proc[p].pins \ {r}
  <2>1. proc[p].pins \subseteq Run
    BY Fields, Zenon
  <2> QED
    BY <2>1, Zenon
<1>3. proc' = [proc EXCEPT ![p] = [proc[p] EXCEPT !.pins = ps]]
  BY <1>1, <1>2, Zenon DEF Unpin
<1>4. PICK row : row = [proc[p] EXCEPT !.pins = ps]
  BY Zenon
<1>5. proc' = [proc EXCEPT ![p] = row]
  BY <1>3, <1>4, Zenon
<1>6. \A s \in Run : s # r => (s \in ps <=> s \in proc[p].pins)
  BY <1>2, Zenon
<1> QED
  BY <1>4, <1>5, <1>6, PinsSet, Zenon

(* A step that leaves the processes alone moves no pin.                    *)
LEMMA PinsUnmoved ==
  ASSUME TypeOK, NEW r \in Run, proc' = proc
  PROVE  PinsMove(r)
  BY Zenon DEF TypeOK, PinsMove, LoopsSame, ProcessState, at

(* What a handler's step must still show.                                  *)
LEMMA HandlerInv ==
  ASSUME SlackIInv, OutboxOK', D!TypeOK', NEW r \in Run, PinsMove(r), age' = age, run' = run,
         HistoryOK', handler' \in [Run -> HandlerState],
         \A q \in Run : q # r => handler'[q] = handler[q] /\ slack'[q] = slack[q],
         \A k \in Key : RowKept(k), was.exposed \subseteq was'.exposed,
         was'.outlived = was.outlived, was'.unconfirmed = was.unconfirmed,
         was'.forgotten = was.forgotten, HandlerOK(r)',
         Alone => r \in was'.exposed \/ AnswerOK(r)'
  PROVE  SlackIInv'
<1>1. TypeOK'
  BY Zenon DEF SlackIInv, TypeOK, HistoryOK, WasOK, PinsMove, ProcessState
<1>2. LoopsKept
  BY Zenon DEF LoopsKept, PinsMove, LoopsSame
<1>3. ASSUME NEW q \in Run PROVE HandlerOK(q)'
  <2>1. q # r => HandlerOK(q)'
    BY Zenon DEF SlackIInv, HandlerOK
  <2> QED
    BY <2>1, Zenon
<1>4. ASSUME Alone, NEW q \in Run, q # r PROVE q \in was'.exposed \/ AnswerOK(q)'
  <2>1. HandlerOK(q) /\ (q \in was.exposed \/ AnswerOK(q)) /\ q \in Key
    BY <1>4, Kinds, Zenon DEF SlackIInv
  <2>2. deliveries[q].deliveredBy # "none" => deliveries'[q].deliveredBy # "none"
    BY <2>1, Zenon DEF RowKept
  <2>3. Pinned(q) => q \in proc'[handler[q].home].pins
    BY <1>4, <2>1, Zenon DEF Pinned, HandlerOK, PinsMove
  <2> QED
    BY <1>2, <1>4, <2>1, <2>2, <2>3, AnswerKept, Zenon
<1>5. was.outlived \subseteq was'.outlived
  BY Zenon
<1>6. Alone => \A q \in Run : q \in was'.exposed \/ AnswerOK(q)'
  BY <1>4, Zenon
<1> QED
  BY <1>1, <1>2, <1>3, <1>5, <1>6, KeptInv, Zenon

(* History: who is exposed stays so.                                       *)
LEMMA Exposed ==
  ASSUME TypeOK, NEW rs \in SUBSET Key, Expose(rs)
  PROVE  /\ WasOK' /\ was'.exposed = was.exposed \cup rs /\ was'.outlived = was.outlived
         /\ was'.unconfirmed = was.unconfirmed /\ was'.forgotten = was.forgotten
<1>1. WasOK
  BY Zenon DEF TypeOK, WasOK
<1> QED
  BY <1>1 DEF WasOK, Expose

(* pollRun: the run is pinned before the pollers may begin with its copy,  *)
(* or that goes on record.                                                 *)
LEMMA PollRunInv ==
  ASSUME SlackIInv, NEW r \in Run, pollRun(r), OutboxOK', D!TypeOK'
  PROVE  SlackIInv'
<1>1. TypeOK /\ HandlerOK(r)
  BY Zenon DEF SlackIInv
<1>2. PICK rs \in SUBSET Key : rs = {r} \cap {k \in Run : age[k] = Grace}
  BY Kinds, Zenon
<1>3. /\ handler[r].pc = "submitted" /\ Expose(rs) /\ slack' = slack /\ faults' = faults
      /\ UNCHANGED storeVars /\ age' = age /\ run' = run
  BY <1>2, Zenon DEF pollRun
<1>4. PICK p \in Process : p = handler[r].home
  BY <1>1, <1>3, Zenon DEF HandlerOK
<1>5. PICK h : h = [handler[r] EXCEPT !.pc = "waiting"]
  BY Zenon
<1>6. /\ h \in HandlerState /\ h.pc = "waiting" /\ h.home = p /\ h.acking = handler[r].acking
  <2>1. handler[r] \in HandlerState
    BY <1>1, Fields, Zenon
  <2> QED
    BY <1>4, <1>5, <2>1, Zenon DEF HandlerState
<1>7. /\ handler' \in [Run -> HandlerState]
      /\ \A q \in Run : handler'[q] = IF q = r THEN h ELSE handler[q]
  <2>1. handler' = [handler EXCEPT ![r] = h]
    BY <1>5, Zenon DEF pollRun
  <2> QED
    BY <1>1, <1>6, <2>1, HandlerMoves, Zenon
<1>8. PinsMove(r) /\ r \in proc'[p].pins
  <2>1. PICK ps \in SUBSET Run : ps = proc[p].pins \cup {r}
    <3>1. proc[p].pins \subseteq Run
      BY <1>1, Fields, Zenon
    <3> QED
      BY <3>1, Zenon
  <2>2. PICK row : row = [proc[p] EXCEPT !.pins = ps]
    BY Zenon
  <2>3. proc' = [proc EXCEPT ![p] = row]
    BY <1>4, <2>1, <2>2, Zenon DEF pollRun
  <2>4. \A s \in Run : s # r => (s \in ps <=> s \in proc[p].pins)
    BY <2>1, Zenon
  <2>5. PinsMove(r) /\ proc'[p].pins = ps
    BY <1>1, <2>2, <2>3, <2>4, PinsSet, Zenon
  <2> QED
    BY <2>1, <2>5, Zenon
<1>9. /\ WasOK' /\ was'.exposed = was.exposed \cup rs /\ was'.outlived = was.outlived
      /\ was'.unconfirmed = was.unconfirmed /\ was'.forgotten = was.forgotten
  BY <1>1, <1>3, Exposed, Zenon
<1>10. HistoryOK'
  BY <1>1, <1>3, <1>9, Zenon DEF HistoryOK, TypeOK
<1>11. \A k \in Key : RowKept(k)
  BY <1>3, RowsSame, Zenon
<1>12. HandlerOK(r)'
  BY <1>1, <1>3, <1>6, <1>7, Zenon DEF HandlerOK
<1>13. ASSUME Alone PROVE r \in was'.exposed \/ AnswerOK(r)'
  <2>1. CASE age[r] = Grace
    BY <1>2, <1>9, <2>1, Zenon
  <2>2. CASE age[r] # Grace
    <3>1. age[r] < Grace
      <4>1. age[r] \in 0..Grace
        BY <1>1, Fields, Kinds, Zenon
      <4> QED
        BY <2>2, <4>1, Kinds
    <3>2. r \in was.exposed \/ (slack[r].copies = 0 /\ NotBegun(r))
      BY <1>13, <3>1, Zenon DEF SlackIInv, AnswerOK
    <3>3. NotBegun(r) => NotBegun(r)'
      BY <1>8, Zenon DEF PinsMove, LoopsSame, NotBegun
    <3>4. NotBegun(r) => Pinned(r)'
      BY <1>6, <1>7, <1>8, <3>3, Zenon DEF Pinned
    <3> QED
      BY <1>3, <1>9, <3>2, <3>3, <3>4, Zenon DEF AnswerOK
  <2> QED
    BY <2>1, <2>2
<1>14. was.exposed \subseteq was'.exposed
  BY <1>9, Zenon
<1>15. \A q \in Run : q # r => handler'[q] = handler[q] /\ slack'[q] = slack[q]
  BY <1>3, <1>7, Zenon
<1> QED
  BY <1>3, <1>7, <1>8, <1>9, <1>10, <1>11, <1>12, <1>13, <1>14, <1>15, HandlerInv, Zenon

(* The answer of the run that a handler acts for.                          *)
LEMMA AnswerStep ==
  ASSUME NEW r \in Run, PinsMove(r), age' = age, AnswerOK(r), slack'[r].copies = slack[r].copies,
         handler'[r].pc \in {"waiting", "reply", "refuse"} \/ slack'[r].live > 0 =>
           slack[r].copies = 0 /\ (Pinned(r)' \/ Delivered(r)' \/ Marked(r)')
  PROVE  AnswerOK(r)'
<1>1. NotBegun(r) => NotBegun(r)'
  BY Zenon DEF PinsMove, LoopsSame, NotBegun
<1> QED
  BY <1>1, Zenon DEF AnswerOK

(* While a run is waited for, its copy is pinned or was acknowledged.      *)
LEMMA Covered ==
  ASSUME NEW r \in Run, AnswerOK(r), handler[r].pc \in {"waiting", "reply", "refuse"}
  PROVE  slack[r].copies = 0 /\ (Pinned(r) \/ Delivered(r))
  BY Zenon DEF AnswerOK, Marked

(* Nothing but pins changed: who was not in the hands of a loop is not.    *)
LEMMA PinsLoops ==
  ASSUME NEW r \in Run, PinsMove(r)
  PROVE  /\ NotBegun(r) => NotBegun(r)'
         /\ \A q \in Process, m \in Loop : Busy(q, m, r)' <=> Busy(q, m, r)
         /\ Delivered(r) /\ deliveries'[r].deliveredBy # "none" => Delivered(r)'
<1>1. \A q \in Process, m \in Loop : Busy(q, m, r)' <=> Busy(q, m, r)
  BY Zenon DEF PinsMove, LoopsSame, Busy
<1> QED
  BY <1>1, Zenon DEF PinsMove, LoopsSame, NotBegun, Delivered

(* waitRun: the result arrives, or the wait is given up.                   *)
LEMMA WaitRunInv ==
  ASSUME SlackIInv, NEW r \in Run, waitRun(r), OutboxOK', D!TypeOK'
  PROVE  SlackIInv'
<1>1. TypeOK /\ HandlerOK(r) /\ handler[r] \in HandlerState
  BY Fields, Zenon DEF SlackIInv
<1>2. /\ handler[r].pc = "waiting" /\ slack' = slack /\ was' = was
      /\ UNCHANGED storeVars /\ age' = age /\ run' = run
  BY Zenon DEF waitRun
<1>3. /\ handler[r].home \in Process /\ slack[r].live = 0 /\ ~(slack'[r].live > 0)
      /\ handler[r].acking = 0
  <2>1. handler[r].home \in Process /\ slack[r].live = 0 /\ ~(handler[r].acking > 0)
    BY <1>1, <1>2, Zenon DEF HandlerOK
  <2>2. handler[r].acking \in 0..AckAttempts
    BY <1>1, Zenon DEF HandlerState
  <2>3. slack'[r].live = 0
    BY <1>2, <2>1, Zenon
  <2> QED
    BY <2>1, <2>2, <2>3, Kinds
<1>4. HistoryOK'
  <2>1. Fault("live") \/ faults' = faults
    BY Zenon DEF waitRun
  <2> QED
    BY <1>1, <1>2, <2>1, HistorySame, Zenon
<1>5. \A k \in Key : RowKept(k)
  BY <1>2, RowsSame, Zenon
<1>6. was.exposed \subseteq was'.exposed /\ was'.exposed = was.exposed
  BY <1>2, Zenon
<1>7. ASSUME NEW h \in HandlerState, handler' = [handler EXCEPT ![r] = h],
             h.home = handler[r].home, h.pc \in {"reply", "refuse", "done"},
             h.acking > 0 => h.pc = "reply", h.pc = "reply" => h.acking > 0,
             IF h.pc = "done" THEN Unpin(r) ELSE proc' = proc
      PROVE  SlackIInv'
  <2>1. /\ handler' \in [Run -> HandlerState]
        /\ \A q \in Run : handler'[q] = IF q = r THEN h ELSE handler[q]
    BY <1>1, <1>7, HandlerMoves, Zenon
  <2>2. PinsMove(r)
    BY <1>1, <1>3, <1>7, Unpinned, PinsUnmoved, Zenon
  <2>3. HandlerOK(r)'
    BY <1>1, <1>2, <1>3, <1>7, <2>1, Zenon DEF HandlerOK
  <2>4. ASSUME Alone PROVE r \in was'.exposed \/ AnswerOK(r)'
    <3>1. r \in was.exposed \/ AnswerOK(r)
      BY <2>4, Zenon DEF SlackIInv
    <3>2. CASE h.pc = "done"
      BY <1>2, <1>3, <1>6, <2>1, <2>2, <3>1, <3>2, AnswerStep, Zenon
    <3>3. CASE h.pc # "done" /\ AnswerOK(r)
      <4>1. slack[r].copies = 0 /\ (Pinned(r) \/ Delivered(r))
        BY <1>2, <3>3, Covered, Zenon
      <4>2. proc' = proc /\ deliveries' = deliveries
        BY <1>2, <1>7, <3>3, Zenon DEF storeVars
      <4>3. h.pc = "refuse" \/ h.acking > 0
        BY <1>7, <3>3, Zenon
      <4>4. Pinned(r) => Pinned(r)'
        BY <1>7, <2>1, <2>2, <4>2, <4>3, PinsLoops, Zenon DEF Pinned
      <4>5. Delivered(r) => Delivered(r)'
        BY <2>2, <4>2, PinsLoops, Zenon DEF Delivered
      <4> QED
        BY <1>2, <2>2, <3>3, <4>1, <4>4, <4>5, AnswerStep, Zenon
    <3> QED
      BY <1>6, <3>1, <3>2, <3>3, Zenon
  <2>5. \A q \in Run : q # r => handler'[q] = handler[q] /\ slack'[q] = slack[q]
    BY <1>2, <2>1, Zenon
  <2> QED
    BY <1>2, <1>4, <1>5, <1>6, <2>1, <2>2, <2>3, <2>4, <2>5, HandlerInv, Zenon
<1>8. AckAttempts \in 0..AckAttempts /\ AckAttempts > 0 /\ ~(0 > 0)
  BY Kinds
<1>9. CASE /\ proc' = proc
           /\ handler' = [handler EXCEPT ![r].pc = "reply", ![r].acking = AckAttempts]
  <2>1. PICK h : h = [handler[r] EXCEPT !.pc = "reply", !.acking = AckAttempts]
    BY Zenon
  <2>2. /\ h \in HandlerState /\ h.pc = "reply" /\ h.home = handler[r].home
        /\ h.acking = AckAttempts
    BY <1>1, <1>8, <2>1, Zenon DEF HandlerState
  <2>3. handler' = [handler EXCEPT ![r] = h]
    BY <1>9, <2>1, Zenon
  <2> QED
    BY <1>7, <1>8, <1>9, <2>2, <2>3, Zenon
<1>10. CASE \/ proc' = proc /\ handler' = [handler EXCEPT ![r].pc = "refuse"]
            \/ Unpin(r) /\ handler' = [handler EXCEPT ![r].pc = "done"]
  <2>1. PICK pc \in {"refuse", "done"} :
          /\ handler' = [handler EXCEPT ![r].pc = pc]
          /\ IF pc = "done" THEN Unpin(r) ELSE proc' = proc
    BY <1>10, Zenon
  <2>2. PICK h : h = [handler[r] EXCEPT !.pc = pc]
    BY Zenon
  <2>3. h \in HandlerState /\ h.pc = pc /\ h.home = handler[r].home /\ h.acking = 0
    BY <1>1, <1>3, <2>2, Zenon DEF HandlerState
  <2>4. handler' = [handler EXCEPT ![r] = h]
    BY <2>1, <2>2, Zenon
  <2> QED
    BY <1>7, <1>8, <2>1, <2>3, <2>4, Zenon
<1> QED
  BY <1>9, <1>10, Zenon DEF waitRun

(* The handler has shown the answer, under its key or not.                 *)
LEMMA RowsShown ==
  ASSUME SlackIInv, UNCHANGED storeVars, NEW r \in Run, NEW keyed \in BOOLEAN,
         slack[r].keyed => keyed,
         slack' = [slack EXCEPT ![r] = [slack[r] EXCEPT !.live = slack[r].live + 1, !.keyed = keyed]]
  PROVE  /\ \A k \in Key : RowKept(k)
         /\ slack' \in [Key -> [copies: Nat, live: Nat, keyed: BOOLEAN]]
         /\ \A q \in Run : q # r => slack'[q] = slack[q]
         /\ slack'[r].copies = slack[r].copies /\ slack'[r].keyed = keyed
<1>1. slack \in [Key -> [copies: Nat, live: Nat, keyed: BOOLEAN]] /\ \A k \in Key : ShownOK(k)
  BY Zenon DEF SlackIInv, TypeOK
<1>2. r \in Key /\ r \notin Message /\ Run \subseteq Key
  BY Kinds, SlackAssumption
<1>3. PICK row : row = [slack[r] EXCEPT !.live = slack[r].live + 1, !.keyed = keyed]
  BY Zenon
<1>4. /\ slack[r] \in [copies: Nat, live: Nat, keyed: BOOLEAN] /\ slack[r].live + 1 \in Nat
      /\ slack[r].live + 1 > 0
  BY <1>1, <1>2
<1>5. /\ row \in [copies: Nat, live: Nat, keyed: BOOLEAN] /\ row.copies = slack[r].copies
      /\ row.keyed = keyed /\ row.live = slack[r].live + 1
  BY <1>3, <1>4, Zenon
<1>6. /\ slack' \in [Key -> [copies: Nat, live: Nat, keyed: BOOLEAN]]
      /\ \A q \in Key : slack'[q] = IF q = r THEN row ELSE slack[q]
  <2>1. slack' = [slack EXCEPT ![r] = row]
    BY <1>3, Zenon
  <2> QED
    BY <1>1, <1>2, <1>5, <2>1, Zenon
<1>7. deliveries' = deliveries /\ acked' = acked
  BY Zenon DEF storeVars
<1>8. \A k \in Key : RowOK(k)'
  BY <1>7, Zenon DEF SlackIInv, RowOK
<1>9. ASSUME NEW k \in Key PROVE RowKept(k)
  <2>1. CASE k # r
    <3>1. slack'[k] = slack[k] /\ (Shown(k) => Shown(k)')
      BY <1>6, <2>1, Zenon DEF Shown
    <3> QED
      BY <1>1, <1>7, <1>8, <3>1, Zenon DEF RowKept, ShownOK
  <2>2. CASE k = r
    <3>1. slack'[r].live > 0
      BY <1>2, <1>4, <1>5, <1>6, Zenon
    <3>2. slack'[r].copies = slack[r].copies /\ slack'[r].keyed = keyed
      BY <1>2, <1>5, <1>6, Zenon
    <3>3. (Shown(r) => Shown(r)') /\ (slack'[r].keyed => Shown(r)')
      BY <3>1, <3>2, Zenon DEF Shown
    <3> QED
      BY <1>2, <1>7, <1>8, <2>2, <3>2, <3>3, Zenon DEF RowKept
  <2> QED
    BY <2>1, <2>2
<1> QED
  BY <1>2, <1>5, <1>6, <1>9, Zenon

(* postReply: the pin stays until the acknowledgement that was started     *)
(* before is through.                                                      *)
LEMMA PostReplyInv ==
  ASSUME SlackIInv, NEW r \in Run, postReply(r), OutboxOK', D!TypeOK'
  PROVE  SlackIInv'
<1>1. TypeOK /\ HandlerOK(r) /\ handler[r] \in HandlerState
  BY Fields, Zenon DEF SlackIInv
<1>2. /\ handler[r].pc = "reply" /\ proc' = proc /\ was' = was
      /\ UNCHANGED storeVars /\ age' = age /\ run' = run /\ deliveries' = deliveries
  BY Zenon DEF postReply, storeVars
<1>3. PICK h : h = [handler[r] EXCEPT !.pc = "done"]
  BY Zenon
<1>4. /\ h \in HandlerState /\ h.pc = "done" /\ h.home = handler[r].home
      /\ h.acking = handler[r].acking
  BY <1>1, <1>3, Zenon DEF HandlerState
<1>5. /\ handler' \in [Run -> HandlerState]
      /\ \A q \in Run : handler'[q] = IF q = r THEN h ELSE handler[q]
  <2>1. handler' = [handler EXCEPT ![r] = h]
    BY <1>3, Zenon DEF postReply
  <2> QED
    BY <1>1, <1>4, <2>1, HandlerMoves, Zenon
<1>6. PinsMove(r)
  BY <1>1, <1>2, PinsUnmoved, Zenon
<1>7. /\ \A k \in Key : RowKept(k)
      /\ slack' \in [Key -> [copies: Nat, live: Nat, keyed: BOOLEAN]]
      /\ \A q \in Run : q # r => slack'[q] = slack[q]
      /\ slack'[r].copies = slack[r].copies
  <2>1. CASE slack' = slack
    BY <1>1, <1>2, <2>1, RowsSame, Zenon DEF TypeOK
  <2>2. CASE slack' = [slack EXCEPT ![r].live = @ + 1]
    <3>1. r \in Key
      BY Kinds, Zenon
    <3>2. slack[r] \in [copies: Nat, live: Nat, keyed: BOOLEAN]
      BY <1>1, <3>1, Zenon DEF TypeOK
    <3>3. PICK keyed \in BOOLEAN : keyed = slack[r].keyed
      BY <3>2, Zenon
    <3>4. [slack[r] EXCEPT !.live = slack[r].live + 1]
            = [slack[r] EXCEPT !.live = slack[r].live + 1, !.keyed = keyed]
      BY <3>2, <3>3, Zenon
    <3>5. slack' = [slack EXCEPT ![r] =
                      [slack[r] EXCEPT !.live = slack[r].live + 1, !.keyed = keyed]]
      BY <2>2, <3>4, Zenon
    <3>6. slack[r].keyed => keyed
      BY <3>3, Zenon
    <3> QED
      BY <1>2, <3>5, <3>6, RowsShown, Zenon
  <2> QED
    BY <2>1, <2>2, Zenon DEF postReply
<1>8. HistoryOK'
  <2>1. Fault("live") \/ faults' = faults
    BY Zenon DEF postReply
  <2>2. faults' \in 0..MaxFaults
    BY <1>1, <2>1, FaultType, Zenon
  <2> QED
    BY <1>1, <1>2, <1>7, <2>2, Zenon DEF HistoryOK, WasOK, TypeOK
<1>9. HandlerOK(r)'
  BY <1>1, <1>2, <1>4, <1>5, Zenon DEF HandlerOK
<1>10. ASSUME Alone, AnswerOK(r) PROVE AnswerOK(r)'
  <2>1. slack[r].copies = 0 /\ (Pinned(r) \/ Delivered(r))
    BY <1>2, <1>10, Covered, Zenon
  <2>2. Pinned(r) => Pinned(r)'
    BY <1>2, <1>4, <1>5, <1>6, PinsLoops, Zenon DEF Pinned
  <2>3. Delivered(r) => Delivered(r)'
    BY <1>2, <1>6, PinsLoops, Zenon DEF Delivered
  <2> QED
    BY <1>2, <1>6, <1>7, <1>10, <2>1, <2>2, <2>3, AnswerStep, Zenon
<1>11. Alone => r \in was'.exposed \/ AnswerOK(r)'
  BY <1>2, <1>10, Zenon DEF SlackIInv
<1>12. \A q \in Run : q # r => handler'[q] = handler[q] /\ slack'[q] = slack[q]
  BY <1>5, <1>7, Zenon
<1>13. was.exposed \subseteq was'.exposed /\ was'.outlived = was.outlived
  BY <1>2, Zenon
<1> QED
  BY <1>2, <1>5, <1>6, <1>7, <1>8, <1>9, <1>11, <1>12, <1>13, HandlerInv, Zenon

(* postThenAck: the pin stays until the acknowledgement, and if the post   *)
(* fails but got through, the pollers find it.                             *)
LEMMA PostThenAckInv ==
  ASSUME SlackIInv, NEW r \in Run, postThenAck(r), OutboxOK', D!TypeOK'
  PROVE  SlackIInv'
<1>1. TypeOK /\ HandlerOK(r) /\ handler[r] \in HandlerState
  BY Fields, Zenon DEF SlackIInv
<1>2. /\ handler[r].pc = "refuse" /\ was' = was
      /\ UNCHANGED storeVars /\ age' = age /\ run' = run /\ deliveries' = deliveries
  BY Zenon DEF postThenAck, storeVars
<1>3. handler[r].home \in Process /\ slack[r].live = 0 /\ handler[r].acking = 0
  <2>1. handler[r].home \in Process /\ slack[r].live = 0 /\ ~(handler[r].acking > 0)
    BY <1>1, <1>2, Zenon DEF HandlerOK
  <2>2. handler[r].acking \in 0..AckAttempts
    BY <1>1, Zenon DEF HandlerState
  <2> QED
    BY <2>1, <2>2, Kinds
<1>4. AckAttempts \in 0..AckAttempts /\ AckAttempts > 0 /\ ~(0 > 0)
  BY Kinds
<1>5. PICK h \in HandlerState :
        /\ handler' = [handler EXCEPT ![r] = h] /\ h.pc = "done" /\ h.home = handler[r].home
        /\ \/ h.acking > 0 /\ proc' = proc
              /\ slack' = [slack EXCEPT ![r].live = @ + 1, ![r].keyed = TRUE]
           \/ h.acking = 0 /\ Unpin(r)
              /\ \/ slack' = slack
                 \/ slack' = [slack EXCEPT ![r].live = @ + 1, ![r].keyed = TRUE]
  <2>1. PICK g : g = [handler[r] EXCEPT !.pc = "done", !.acking = AckAttempts]
    BY Zenon
  <2>2. /\ g \in HandlerState /\ g.pc = "done" /\ g.home = handler[r].home
        /\ g.acking = AckAttempts
    BY <1>1, <1>4, <2>1, Zenon DEF HandlerState
  <2>3. PICK i : i = [handler[r] EXCEPT !.pc = "done"]
    BY Zenon
  <2>4. i \in HandlerState /\ i.pc = "done" /\ i.home = handler[r].home /\ i.acking = 0
    BY <1>1, <1>3, <2>3, Zenon DEF HandlerState
  <2>5. \/ /\ handler' = [handler EXCEPT ![r] = g] /\ proc' = proc
           /\ slack' = [slack EXCEPT ![r].live = @ + 1, ![r].keyed = TRUE]
        \/ /\ handler' = [handler EXCEPT ![r] = i] /\ Unpin(r)
           /\ \/ slack' = slack
              \/ slack' = [slack EXCEPT ![r].live = @ + 1, ![r].keyed = TRUE]
    BY <2>1, <2>3, Zenon DEF postThenAck
  <2> QED
    BY <1>4, <2>2, <2>4, <2>5, Zenon
<1>6. /\ handler' \in [Run -> HandlerState]
      /\ \A q \in Run : handler'[q] = IF q = r THEN h ELSE handler[q]
  BY <1>1, <1>5, HandlerMoves, Zenon
<1>7. PinsMove(r)
  BY <1>1, <1>3, <1>5, PinsUnmoved, Unpinned, Zenon
<1>8. /\ \A k \in Key : RowKept(k)
      /\ slack' \in [Key -> [copies: Nat, live: Nat, keyed: BOOLEAN]]
      /\ \A q \in Run : q # r => slack'[q] = slack[q]
      /\ slack'[r].copies = slack[r].copies
      /\ slack' = slack \/ slack'[r].keyed
  <2>1. CASE slack' = slack
    BY <1>1, <1>2, <2>1, RowsSame, Zenon DEF TypeOK
  <2>2. CASE slack' = [slack EXCEPT ![r].live = @ + 1, ![r].keyed = TRUE]
    <3>1. PICK keyed \in BOOLEAN : keyed = TRUE
      BY Zenon
    <3>2. slack' = [slack EXCEPT ![r] =
                      [slack[r] EXCEPT !.live = slack[r].live + 1, !.keyed = keyed]]
      BY <2>2, <3>1, Zenon
    <3>3. slack[r].keyed => keyed
      BY <3>1, Zenon
    <3>4. /\ \A k \in Key : RowKept(k)
          /\ slack' \in [Key -> [copies: Nat, live: Nat, keyed: BOOLEAN]]
          /\ \A q \in Run : q # r => slack'[q] = slack[q]
          /\ slack'[r].copies = slack[r].copies /\ slack'[r].keyed = keyed
      BY <1>2, <3>2, <3>3, RowsShown, Zenon
    <3> QED
      BY <3>1, <3>4, Zenon
  <2> QED
    BY <1>5, <2>1, <2>2, Zenon
<1>9. HistoryOK'
  <2>1. Fault("live") \/ faults' = faults
    BY Zenon DEF postThenAck
  <2>2. faults' \in 0..MaxFaults
    BY <1>1, <2>1, FaultType, Zenon
  <2> QED
    BY <1>1, <1>2, <1>8, <2>2, Zenon DEF HistoryOK, WasOK, TypeOK
<1>10. HandlerOK(r)'
  BY <1>1, <1>2, <1>5, <1>6, Zenon DEF HandlerOK
<1>11. ASSUME Alone, AnswerOK(r) PROVE AnswerOK(r)'
  <2>1. slack[r].copies = 0 /\ (Pinned(r) \/ Delivered(r))
    BY <1>2, <1>11, Covered, Zenon
  <2>2. Delivered(r) => Delivered(r)'
    BY <1>2, <1>7, PinsLoops, Zenon DEF Delivered
  <2>3. CASE h.acking > 0
    <3>1. proc' = proc
      BY <1>4, <1>5, <2>3, Zenon
    <3>2. Pinned(r) => Pinned(r)'
      BY <1>5, <1>6, <1>7, <2>3, <3>1, PinsLoops, Zenon DEF Pinned
    <3> QED
      BY <1>2, <1>7, <1>8, <1>11, <2>1, <2>2, <3>2, AnswerStep, Zenon
  <2>4. CASE ~(h.acking > 0) /\ slack' = slack
    <3>1. slack'[r].live = 0
      BY <1>3, <2>4, Zenon
    <3>2. ~(slack'[r].live > 0)
      BY <3>1
    <3>3. handler'[r].pc = "done"
      BY <1>5, <1>6, Zenon
    <3> QED
      BY <1>2, <1>7, <1>8, <1>11, <3>2, <3>3, AnswerStep, Zenon
  <2>5. CASE ~(h.acking > 0) /\ slack' # slack
    <3>1. \A q \in Process, m \in Loop : at(q, m)'.cur # r
      BY <1>7, <2>1, Zenon DEF Pinned, Delivered, NotBegun, Busy, PinsMove, LoopsSame
    <3>2. Marked(r)'
      BY <1>5, <1>6, <1>8, <2>5, <3>1, Zenon DEF Marked
    <3> QED
      BY <1>2, <1>7, <1>8, <1>11, <2>1, <3>2, AnswerStep, Zenon
  <2> QED
    BY <2>3, <2>4, <2>5
<1>12. Alone => r \in was'.exposed \/ AnswerOK(r)'
  BY <1>2, <1>11, Zenon DEF SlackIInv
<1>13. \A q \in Run : q # r => handler'[q] = handler[q] /\ slack'[q] = slack[q]
  BY <1>6, <1>8, Zenon
<1>14. was.exposed \subseteq was'.exposed /\ was'.outlived = was.outlived
  BY <1>2, Zenon
<1> QED
  BY <1>2, <1>6, <1>7, <1>8, <1>9, <1>10, <1>12, <1>13, <1>14, HandlerInv, Zenon

(* ackRun: once the copy is acknowledged no loop has it, or it sat in a    *)
(* batch; the last attempt that fails goes on record.                      *)
LEMMA AckRunInv ==
  ASSUME SlackIInv, NEW r \in Run, ackRun(r), OutboxOK', D!TypeOK'
  PROVE  SlackIInv'
<1>1. TypeOK /\ HandlerOK(r) /\ handler[r] \in HandlerState /\ r \in Key /\ r \notin Message
  BY Fields, Kinds, SlackAssumption, Zenon DEF SlackIInv
<1>2. handler[r].acking > 0 /\ age' = age /\ run' = run /\ slack' = slack
  BY Zenon DEF ackRun
<1>3. handler[r].home \in Process /\ handler[r].pc \in {"reply", "done"}
  BY <1>1, <1>2, Zenon DEF HandlerOK
<1>4. PICK n : n = handler[r].acking - 1
  BY Zenon
<1>5. n \in 0..AckAttempts /\ 0 \in 0..AckAttempts /\ (handler[r].acking # 1 => n > 0) /\ ~(0 > 0)
  <2>1. handler[r].acking \in 0..AckAttempts
    BY <1>1, Zenon DEF HandlerState
  <2> QED
    BY <1>2, <1>4, <2>1, Kinds
<1>6. HandlerOK(r)' /\ handler'[r].pc = handler[r].pc /\ handler'[r].home = handler[r].home
      /\ handler' \in [Run -> HandlerState] /\ (\A q \in Run : q # r => handler'[q] = handler[q])
      /\ handler'[r].acking \in {0, n}
      /\ (handler'[r].acking = n \/ D!ackByKey(r))
  <2>1. PICK a \in {0, n} : /\ handler' = [handler EXCEPT ![r].acking = a]
                            /\ a = n \/ D!ackByKey(r)
    BY <1>4, Zenon DEF ackRun
  <2>2. PICK h : h = [handler[r] EXCEPT !.acking = a]
    BY Zenon
  <2>3. h \in HandlerState /\ h.pc = handler[r].pc /\ h.home = handler[r].home /\ h.acking = a
    BY <1>1, <1>5, <2>1, <2>2, Zenon DEF HandlerState
  <2>4. handler' = [handler EXCEPT ![r] = h]
    BY <2>1, <2>2, Zenon
  <2>5. /\ handler' \in [Run -> HandlerState]
        /\ \A q \in Run : handler'[q] = IF q = r THEN h ELSE handler[q]
    BY <1>1, <2>3, <2>4, HandlerMoves, Zenon
  <2>6. HandlerOK(r)'
    BY <1>1, <1>2, <1>3, <2>3, <2>5, Zenon DEF HandlerOK
  <2> QED
    BY <2>1, <2>3, <2>5, <2>6, Zenon
<1>7. PinsMove(r)
  BY <1>1, <1>3, PinsUnmoved, Unpinned, Zenon DEF ackRun
<1>8. PICK rs \in SUBSET Key :
        /\ WasOK' /\ was'.exposed = was.exposed \cup rs /\ was'.outlived = was.outlived
        /\ was'.unconfirmed = was.unconfirmed /\ was'.forgotten = was.forgotten
        /\ \/ /\ D!ackByKey(r) /\ rs = {r} \cap Claimed(handler[r].home)
           \/ /\ UNCHANGED storeVars /\ handler'[r].acking = n
              /\ handler[r].acking = 1 => rs = {r}
              /\ handler[r].acking # 1 => proc' = proc
  <2>1. CASE D!ackByKey(r) /\ Expose({r} \cap Claimed(handler[r].home))
    <3>1. PICK rs \in SUBSET Key : rs = {r} \cap Claimed(handler[r].home)
      BY <1>1, Zenon
    <3>2. Expose(rs)
      BY <2>1, <3>1, Zenon
    <3>3. /\ WasOK' /\ was'.exposed = was.exposed \cup rs /\ was'.outlived = was.outlived
          /\ was'.unconfirmed = was.unconfirmed /\ was'.forgotten = was.forgotten
      BY <1>1, <3>2, Exposed, Zenon
    <3> QED
      BY <2>1, <3>1, <3>3, Zenon
  <2>2. CASE /\ UNCHANGED storeVars /\ handler' = [handler EXCEPT ![r].acking = n]
             /\ handler[r].acking = 1 /\ Expose({r})
    <3>1. PICK rs \in SUBSET Key : rs = {r}
      BY <1>1, Zenon
    <3>2. Expose(rs)
      BY <2>2, <3>1, Zenon
    <3>3. /\ WasOK' /\ was'.exposed = was.exposed \cup rs /\ was'.outlived = was.outlived
          /\ was'.unconfirmed = was.unconfirmed /\ was'.forgotten = was.forgotten
      BY <1>1, <3>2, Exposed, Zenon
    <3>4. handler'[r].acking = n
      <4>1. handler \in [Run -> HandlerState]
        BY <1>1, Zenon DEF TypeOK
      <4> QED
        BY <2>2, <4>1, Zenon DEF HandlerState
    <3> QED
      BY <2>2, <3>1, <3>3, <3>4, Zenon
  <2>3. CASE /\ UNCHANGED storeVars /\ handler' = [handler EXCEPT ![r].acking = n]
             /\ handler[r].acking # 1 /\ proc' = proc /\ was' = was
    <3>1. PICK rs \in SUBSET Key : rs = {}
      BY Zenon
    <3>2. WasOK' /\ was'.exposed = was.exposed \cup rs
      BY <1>1, <2>3, <3>1, Zenon DEF TypeOK, WasOK
    <3>3. handler'[r].acking = n
      <4>1. handler \in [Run -> HandlerState]
        BY <1>1, Zenon DEF TypeOK
      <4> QED
        BY <2>3, <4>1, Zenon DEF HandlerState
    <3> QED
      BY <2>3, <3>2, <3>3, Zenon
  <2> QED
    BY <1>4, <2>1, <2>2, <2>3, Zenon DEF ackRun
<1>9. HistoryOK'
  <2>1. Fault("ack") \/ faults' = faults
    BY Zenon DEF ackRun
  <2>2. faults' \in 0..MaxFaults
    BY <1>1, <2>1, FaultType, Zenon
  <2> QED
    BY <1>1, <1>2, <1>8, <2>2, Zenon DEF HistoryOK, TypeOK
<1>10. \A k \in Key : RowKept(k)
  <2>1. CASE UNCHANGED storeVars
    BY <1>2, <2>1, RowsSame, Zenon
  <2>2. CASE D!ackByKey(r)
    <3>1. \A q \in Key :
            /\ deliveries'[q].present = (deliveries[q].present \/ q = r)
            /\ deliveries'[q].type = IF q = r /\ ~deliveries[q].present
                                       THEN "ack-tombstone" ELSE deliveries[q].type
            /\ deliveries'[q].claim = deliveries[q].claim
            /\ deliveries'[q].deliveredBy = IF q = r /\ deliveries[q].deliveredBy = "none"
                                              THEN "ackByKey" ELSE deliveries[q].deliveredBy
            /\ acked'[q] = IF q = r /\ acked[q] = "none" THEN "ackByKey" ELSE acked[q]
      <4>1. D!TypeOK /\ RowOK(r)
        BY <1>1, Zenon DEF TypeOK, SlackIInv
      <4> QED
        BY <1>1, <2>2, <4>1, AckedByKeyRows, Zenon
    <3>2. ASSUME NEW k \in Key PROVE RowKept(k)
      <4>1. RowOK(k) /\ ShownOK(k)
        BY Zenon DEF SlackIInv
      <4>2. RowOK(k)' /\ acked'[k] \in {acked[k], "ackByKey"}
        BY <3>1, <4>1, Zenon DEF RowOK
      <4>3. /\ deliveries[k].deliveredBy # "none" => deliveries'[k].deliveredBy # "none"
            /\ k \in Message => deliveries'[k].deliveredBy = deliveries[k].deliveredBy
            /\ deliveries'[k].claim = deliveries[k].claim
        BY <1>1, <3>1, Zenon
      <4>4. Shown(k) => Shown(k)'
        BY <1>2, Zenon DEF Shown
      <4> QED
        BY <1>2, <4>1, <4>2, <4>3, <4>4, Zenon DEF RowKept, ShownOK
    <3> QED
      BY <3>2
  <2> QED
    BY <2>1, <2>2, Zenon DEF ackRun
<1>11. D!ackByKey(r) => deliveries'[r].deliveredBy # "none"
  <2>1. D!TypeOK /\ RowOK(r)
    BY <1>1, Zenon DEF TypeOK, SlackIInv
  <2>2. D!ackByKey(r) => deliveries'[r].deliveredBy = IF deliveries[r].deliveredBy = "none"
                                                       THEN "ackByKey" ELSE deliveries[r].deliveredBy
    BY <1>1, <2>1, AckedByKeyRows, Zenon
  <2> QED
    BY <2>2, Zenon
<1>12. ASSUME Alone, AnswerOK(r), r \notin rs PROVE AnswerOK(r)'
  <2>1. SUFFICES ASSUME handler'[r].pc \in {"waiting", "reply", "refuse"} \/ slack'[r].live > 0
                 PROVE  slack[r].copies = 0 /\ (Pinned(r)' \/ Delivered(r)')
    BY <1>2, <1>7, <1>12, AnswerStep, Zenon
  <2>2. slack[r].copies = 0 /\ (Pinned(r) \/ Delivered(r))
    <3>1. ~Marked(r)
      <4>1. handler[r].acking # 0
        BY <1>2, <1>5, Zenon
      <4> QED
        BY <4>1, Zenon DEF Marked
    <3> QED
      BY <1>2, <1>6, <1>12, <2>1, <3>1, Zenon DEF AnswerOK
  <2>3. CASE Delivered(r)
    BY <1>1, <1>7, <1>10, <2>2, <2>3, PinsLoops, Zenon DEF RowKept, Delivered
  <2>4. CASE Pinned(r) /\ D!ackByKey(r) /\ rs = {r} \cap Claimed(handler[r].home)
    <3>1. ASSUME NEW q \in Process, NEW m \in Loop PROVE ~Busy(q, m, r)
      <4>1. q = handler[r].home
        BY <1>3, <1>12, Zenon DEF Alone
      <4>2. r \notin at(q, m).batch
        BY <1>12, <2>4, <4>1, Zenon DEF Claimed, at
      <4> QED
        BY <2>4, <4>2, Zenon DEF Pinned, NotBegun, Busy
    <3> QED
      BY <1>7, <1>11, <2>2, <2>4, <3>1, PinsLoops, Zenon DEF Delivered
  <2>5. CASE Pinned(r) /\ handler'[r].acking = n /\ handler[r].acking # 1 /\ proc' = proc
    BY <1>5, <1>6, <1>7, <2>2, <2>5, PinsLoops, Zenon DEF Pinned
  <2> QED
    BY <1>8, <1>12, <2>2, <2>3, <2>4, <2>5, Zenon
<1>13. Alone => r \in was'.exposed \/ AnswerOK(r)'
  <2>1. Alone => r \in was.exposed \/ AnswerOK(r)
    BY Zenon DEF SlackIInv
  <2> QED
    BY <1>8, <1>12, <2>1, Zenon
<1>14. \A q \in Run : q # r => handler'[q] = handler[q] /\ slack'[q] = slack[q]
  BY <1>2, <1>6, Zenon
<1>15. was.exposed \subseteq was'.exposed
  BY <1>8, Zenon
<1> QED
  BY <1>2, <1>6, <1>7, <1>8, <1>9, <1>10, <1>13, <1>14, <1>15, HandlerInv, Zenon

-----------------------------------------------------------------------------
(* A process that starts remembers nothing, and its loops are idle.        *)
LEMMA FreshMade ==
  /\ FreshProcess \in ProcessState /\ FreshProcess.tracker.posted = <<>>
  /\ \A l \in Loop : FreshProcess.loop[l] = IdleLoop
<1>1. IdleLoop \in LoopState
  BY EmptyLoop, Zenon
<1>2. <<>> \in Seq(Failure) /\ <<>> \in Seq(Key)
  OBVIOUS
<1>3. [failures |-> <<>>, posted |-> <<>>, dead |-> <<>>] \in Tracker
  BY <1>2, TrackerMade, Zenon
<1>4. [l \in Loop |-> IdleLoop] \in [Loop -> LoopState]
  BY <1>1, Zenon
<1> QED
  BY <1>3, <1>4, Zenon DEF FreshProcess, ProcessState

(* A process restarts.                                                     *)
LEMMA CrashInv ==
  ASSUME SlackIInv, NEW p \in Process, crash(p), OutboxOK', D!TypeOK'
  PROVE  SlackIInv'
<1>1. TypeOK /\ \A r \in Run : HandlerOK(r)
  BY Zenon DEF SlackIInv
<1>2. PICK rs \in SUBSET Key : rs = {r \in Run : handler[r].home = p /\ handler[r].acking > 0}
  BY Kinds, Zenon
<1>3. /\ "crash" \in Faults /\ Fault("crash") /\ proc' = [proc EXCEPT ![p] = FreshProcess]
      /\ UNCHANGED storeVars /\ age' = age /\ run' = run /\ slack' = slack /\ Expose(rs)
      /\ handler' = [r \in Run |-> IF handler[r].home = p
                                     THEN [handler[r] EXCEPT !.pc = "done", !.acking = 0]
                                     ELSE handler[r]]
  BY <1>2, Zenon DEF crash, Fault
<1>4. /\ FreshProcess \in ProcessState /\ FreshProcess.tracker.posted = <<>>
      /\ \A l \in Loop : FreshProcess.loop[l] = IdleLoop
  BY FreshMade, Zenon
<1>5. /\ proc' \in [Process -> ProcessState]
      /\ \A q \in Process : proc'[q] = IF q = p THEN FreshProcess ELSE proc[q]
  BY <1>1, <1>3, <1>4, ProcessMoves, Zenon
<1>6. LoopsKept
  <2>1. ASSUME NEW q \in Process, NEW m \in Loop PROVE at(q, m)' = at(q, m) \/ Resets(q, m)
    <3>1. CASE q = p
      <4>1. at(q, m)' = IdleLoop
        BY <1>4, <1>5, <3>1, Zenon DEF at
      <4>2. IdleLoop.pc = "idle" /\ IdleLoop.batch = {} /\ IdleLoop.cur = None
        BY EmptyLoop, Zenon
      <4> QED
        BY <1>3, <4>1, <4>2, Zenon DEF Resets
    <3>2. CASE q # p
      BY <1>5, <3>2, Zenon DEF at
    <3> QED
      BY <3>1, <3>2
  <2>2. ASSUME NEW q \in Process
        PROVE  proc'[q].tracker = proc[q].tracker \/ Range(proc'[q].tracker.posted) = {}
    <3>1. Range(<<>>) = {}
      BY DEF Range
    <3> QED
      BY <1>4, <1>5, <3>1, Zenon
  <2> QED
    BY <1>3, <2>1, <2>2, Zenon DEF LoopsKept
<1>7. /\ WasOK' /\ was'.exposed = was.exposed \cup rs /\ was'.outlived = was.outlived
      /\ was'.unconfirmed = was.unconfirmed /\ was'.forgotten = was.forgotten
  BY <1>1, <1>3, Exposed, Zenon
<1>8. ASSUME NEW r \in Run
      PROVE  /\ handler'[r] \in HandlerState /\ handler'[r].home = handler[r].home
             /\ handler[r].home # p => handler'[r] = handler[r]
             /\ handler[r].home = p => handler'[r].pc = "done" /\ handler'[r].acking = 0
  <2>1. handler[r] \in HandlerState
    BY <1>1, Fields, Zenon
  <2>2. 0 \in 0..AckAttempts
    BY Kinds
  <2>3. handler'[r] = IF handler[r].home = p
                        THEN [handler[r] EXCEPT !.pc = "done", !.acking = 0] ELSE handler[r]
    BY <1>3, Zenon
  <2> QED
    BY <2>1, <2>2, <2>3, Zenon DEF HandlerState
<1>9. TypeOK'
  <2>1. faults' \in 0..MaxFaults
    BY <1>1, <1>3, FaultType, Zenon
  <2>2. handler' \in [Run -> HandlerState]
    BY <1>3, <1>8, Zenon
  <2> QED
    BY <1>1, <1>3, <1>5, <1>7, <2>1, <2>2, Zenon DEF TypeOK, WasOK, ProcessState
<1>10. \A k \in Key : RowKept(k)
  BY <1>3, RowsSame, Zenon
<1>11. ASSUME NEW r \in Run PROVE HandlerOK(r)'
  <2>1. CASE handler[r].home = p
    <3>1. handler[r].pc # "none"
      BY <1>1, <2>1, SlackAssumption, Zenon DEF HandlerOK
    <3>2. ~(0 > 0)
      OBVIOUS
    <3> QED
      BY <1>1, <1>3, <1>8, <2>1, <3>1, <3>2, Zenon DEF HandlerOK
  <2>2. CASE handler[r].home # p
    BY <1>1, <1>3, <1>8, <2>2, Zenon DEF HandlerOK
  <2> QED
    BY <2>1, <2>2
<1>12. ASSUME Alone, NEW r \in Run, AnswerOK(r), r \notin rs PROVE AnswerOK(r)'
  <2>1. r \in Key /\ r # None /\ HandlerOK(r) /\ deliveries' = deliveries
    BY <1>1, <1>3, Kinds, Zenon DEF storeVars
  <2>2. NotBegun(r) => NotBegun(r)'
    BY <1>6, <2>1, Zenon DEF LoopsKept, Resets, NotBegun
  <2>3. ASSUME handler'[r].pc \in {"waiting", "reply", "refuse"} \/ slack'[r].live > 0
        PROVE  slack[r].copies = 0 /\ (Delivered(r)' \/ Marked(r)')
    <3>1. handler[r].home = p
      <4>1. CASE handler[r].pc = "none"
        <5>1. slack[r].live = 0
          BY <2>1, <4>1, Zenon DEF HandlerOK
        <5>2. ~(slack[r].live > 0)
          BY <5>1
        <5>3. handler[r].home = None
          BY <2>1, <4>1, Zenon DEF HandlerOK
        <5>4. handler[r].home # p
          BY <5>3, SlackAssumption, Zenon
        <5> QED
          BY <1>3, <1>8, <2>3, <4>1, <5>2, <5>4, Zenon
      <4>2. CASE handler[r].pc # "none"
        BY <1>12, <2>1, <4>2, Zenon DEF HandlerOK, Alone
      <4> QED
        BY <4>1, <4>2
    <3>2. slack[r].live > 0
      BY <1>3, <1>8, <2>3, <3>1, Zenon
    <3>3. handler[r].pc = "done" /\ ~(handler[r].acking > 0)
      <4>1. slack[r].live # 0
        BY <3>2
      <4> QED
        BY <1>2, <1>12, <2>1, <3>1, <4>1, Zenon DEF HandlerOK
    <3>4. slack[r].copies = 0 /\ (Delivered(r) \/ Marked(r))
      BY <1>12, <3>2, <3>3, Zenon DEF AnswerOK, Pinned
    <3>5. Delivered(r) => Delivered(r)'
      BY <1>6, <2>1, BusyKept, Zenon DEF Delivered
    <3>6. Marked(r) => Marked(r)'
      <4>1. handler'[r].pc = "done" /\ handler'[r].acking = 0
        BY <1>8, <3>1, Zenon
      <4>2. ASSUME Marked(r), NEW q \in Process, NEW m \in Loop, at(q, m)'.cur = r
            PROVE  at(q, m)'.pc \notin {"post", "scan"}
        BY <1>6, <2>1, <4>2, Zenon DEF Marked, LoopsKept, Resets
      <4> QED
        BY <1>3, <4>1, <4>2, Zenon DEF Marked
    <3> QED
      BY <3>4, <3>5, <3>6
  <2> QED
    BY <1>3, <1>12, <2>2, <2>3, Zenon DEF AnswerOK
<1>13. Alone => \A r \in Run : r \in was'.exposed \/ AnswerOK(r)'
  <2>1. Alone => \A r \in Run : r \in was.exposed \/ AnswerOK(r)
    BY Zenon DEF SlackIInv
  <2> QED
    BY <1>7, <1>12, <2>1, Zenon
<1>14. was.outlived \subseteq was'.outlived
  BY <1>7, Zenon
<1> QED
  BY <1>6, <1>7, <1>9, <1>10, <1>11, <1>13, <1>14, KeptInv, Zenon

-----------------------------------------------------------------------------
(* Every step of the surface is a step of the outbox or leaves it alone.   *)
LEMMA OutboxStep ==
  ASSUME SlackIInv, [Next]_vars
  PROVE  [D!Next]_(D!vars)
<1> USE DEF D!vars
<1>1. ASSUME UNCHANGED vars PROVE UNCHANGED storeVars
  BY <1>1, Zenon DEF vars, storeVars
<1>2. ASSUME NEW k \in Key, send(k) PROVE D!Next
  BY <1>2, Kinds, Zenon DEF send, D!Next
<1>3. ASSUME NEW r \in Run, onTerminal(r) PROVE D!Next \/ UNCHANGED storeVars
  BY <1>3, Kinds, Zenon DEF onTerminal, D!Next, Loop
<1>4. ASSUME NEW r \in Run, ackRun(r) PROVE D!Next \/ UNCHANGED storeVars
  BY <1>4, Kinds, Zenon DEF ackRun, D!Next
<1>5. ASSUME NEW p \in Process, NEW l \in Loop, loopStep(p, l) PROVE D!Next \/ UNCHANGED storeVars
  <2>1. fetch(p, l) => D!Next
    BY Zenon DEF fetch, D!Next
  <2>2. ack(p, l) => D!Next \/ UNCHANGED storeVars
    <3>1. In(p, l, "ack") => at(p, l).cur \in Key
      BY Zenon DEF SlackIInv, LoopOK, InHand, In
    <3> QED
      BY <3>1, Zenon DEF ack, acknowledge, D!Next
  <2> QED
    BY <1>5, <2>1, <2>2, Zenon DEF loopStep, endPoll, preflight, post, scan, next
<1>6. Tick => D!Next
  BY Zenon DEF Tick, D!Next
<1>7. /\ \A r \in Run, p \in Process : submitTurn(r, p) => UNCHANGED storeVars
      /\ \A r \in Run : finishRun(r) \/ handlerStep(r) => UNCHANGED storeVars
      /\ \A p \in Process : pollDeliveries(p) \/ crash(p) => UNCHANGED storeVars
  BY Zenon DEF submitTurn, finishRun, handlerStep, pollRun, waitRun, postReply, postThenAck,
     pollDeliveries, crash
<1> QED
  BY <1>1, <1>2, <1>3, <1>4, <1>5, <1>6, <1>7, Zenon DEF Next, storeVars

(* The table keeps its own invariant.                                      *)
LEMMA OutboxKept ==
  ASSUME SlackIInv, [Next]_vars
  PROVE  OutboxOK' /\ D!TypeOK' /\ \A k \in Key : RowStays(k)
<1>1. OutboxInv /\ [D!Next]_(D!vars)
  BY OutboxStep, Zenon DEF OutboxInv, SlackIInv, TypeOK
<1> QED
  BY <1>1, OutboxMoves, Zenon DEF OutboxInv

(* Nothing is queued, begun or shown at the start.                         *)
LEMMA SlackInit == Init => SlackIInv
<1> SUFFICES ASSUME Init PROVE SlackIInv
  OBVIOUS
<1>1. OutboxOK /\ D!TypeOK
  <2>1. D!Init
    BY Zenon DEF Init
  <2> QED
    BY <2>1, OutboxStarts, Zenon DEF OutboxInv
<1>2. /\ FreshProcess \in ProcessState /\ FreshProcess.tracker.posted = <<>>
      /\ \A l \in Loop : FreshProcess.loop[l] = IdleLoop
  BY FreshMade, Zenon
<1>3. 0 \in Nat /\ 0 \in 0..Grace /\ 0 \in 0..AckAttempts /\ 0 \in 0..MaxFaults /\ ~(0 > 0) /\ 0 <= 1
  BY Kinds
<1>4. proc \in [Process -> ProcessState] /\ \A p \in Process : proc[p] = FreshProcess
  BY <1>2, Zenon DEF Init
<1>5. /\ \A k \in Key : slack[k].copies = 0 /\ slack[k].live = 0 /\ ~slack[k].keyed
      /\ slack \in [Key -> [copies: Nat, live: Nat, keyed: BOOLEAN]]
      /\ age \in [Key -> 0..Grace] /\ faults \in 0..MaxFaults
  BY <1>3, Zenon DEF Init
<1>6. /\ handler \in [Run -> HandlerState]
      /\ \A r \in Run : /\ handler[r].pc = "none" /\ handler[r].home = None
                        /\ handler[r].acking = 0 /\ run[r].pc = "none"
      /\ run \in [Run -> [pc: {"none", "running", "settling", "done"}, result: Result \cup {None}]]
  BY <1>3, Zenon DEF Init, HandlerState
<1>7. TypeOK
  <2>1. was \in [outlived: SUBSET Key, exposed: SUBSET Key, unconfirmed: SUBSET Key,
                 forgotten: SUBSET Key]
    BY Zenon DEF Init
  <2> QED
    BY <1>1, <1>4, <1>5, <1>6, <2>1, Zenon DEF TypeOK, ProcessState
<1>8. \A p \in Process, l \in Loop :
        at(p, l) = IdleLoop /\ at(p, l).pc = "idle" /\ at(p, l).batch = {} /\ at(p, l).cur = None
  <2>1. IdleLoop.pc = "idle" /\ IdleLoop.batch = {} /\ IdleLoop.cur = None
    BY EmptyLoop, Zenon
  <2> QED
    BY <1>2, <1>4, <2>1, Zenon DEF at
<1>9. /\ None \notin Key /\ Run \subseteq Key /\ Message \subseteq Key
      /\ \A k \in Key : k # None
  BY Kinds, Zenon
<1>10. \A p \in Process, l \in Loop : LoopOK(l, at(p, l)) /\ \A k \in Key : ~Busy(p, l, k)
  BY <1>8, <1>9, Zenon DEF LoopOK, InHand, Busy
<1>11. \A k \in Key : /\ ~deliveries[k].present /\ deliveries[k].claim = 0
                      /\ deliveries[k].deliveredBy = "none" /\ acked[k] = "none"
  BY Zenon DEF Init, D!Init, D!NoDelivery
<1>12. \A k \in Key : RowOK(k) /\ ShownOK(k)
  BY <1>3, <1>5, <1>11, Zenon DEF RowOK, ShownOK
<1>13. \A p \in Process : PostedOK(p)
  <2>1. Range(<<>>) = {}
    BY DEF Range
  <2> QED
    BY <1>2, <1>4, <1>8, <2>1, Zenon DEF PostedOK, In
<1>14. \A r \in Run : HandlerOK(r) /\ CopyOK(r) /\ AnswerOK(r)
  <2>1. \A r \in Run : HandlerOK(r)
    BY <1>3, <1>5, <1>6, <1>9, Zenon DEF HandlerOK
  <2>2. \A r \in Run : CopyOK(r)
    BY <1>3, <1>5, <1>9, <1>10, Zenon DEF CopyOK
  <2>3. \A r \in Run : NotBegun(r)
    BY <1>8, <1>9, Zenon DEF NotBegun
  <2>4. \A r \in Run : AnswerOK(r)
    BY <1>3, <1>5, <1>6, <1>9, <2>3, Zenon DEF AnswerOK
  <2> QED
    BY <2>1, <2>2, <2>4
<1>15. \A k \in Message : MessageOK(k)
  BY <1>3, <1>5, <1>8, <1>9, <1>10, <1>11, Zenon DEF MessageOK, Unposted, In
<1> QED
  BY <1>1, <1>7, <1>10, <1>12, <1>13, <1>14, <1>15, Zenon DEF SlackIInv

-----------------------------------------------------------------------------
(* Every step of the processes, of the server and of the clock preserves   *)
(* the invariant.                                                          *)
LEMMA SlackStep == SlackIInv /\ [Next]_vars => SlackIInv'
<1> SUFFICES ASSUME SlackIInv, [Next]_vars PROVE SlackIInv'
  OBVIOUS
<1>1. OutboxOK' /\ D!TypeOK'
  BY OutboxKept, Zenon
<1>2. ASSUME UNCHANGED vars PROVE SlackIInv'
  <2>1. TypeOK /\ WasOK
    BY Zenon DEF SlackIInv, TypeOK, WasOK
  <2>2. /\ proc' = proc /\ slack' = slack /\ handler' = handler /\ run' = run /\ age' = age
        /\ was' = was /\ faults' = faults /\ UNCHANGED storeVars
    BY <1>2, Zenon DEF vars, storeVars
  <2>3. TypeOK' /\ HistoryOK'
    BY <1>1, <2>1, <2>2, Zenon DEF TypeOK, HistoryOK, WasOK
  <2>4. \A k \in Key : RowKept(k)
    BY <2>2, RowsSame, Zenon
  <2> QED
    BY <1>1, <2>2, <2>3, <2>4, QuietInv, Zenon
<1>3. ASSUME NEW k \in Key, send(k) PROVE SlackIInv'
  BY <1>1, <1>3, SendInv, Zenon
<1>4. ASSUME NEW r \in Run, NEW p \in Process, submitTurn(r, p) PROVE SlackIInv'
  BY <1>1, <1>4, SubmitInv, Zenon
<1>5. ASSUME NEW r \in Run, finishRun(r) \/ onTerminal(r) \/ handlerStep(r) \/ ackRun(r)
      PROVE  SlackIInv'
  <2>1. CASE handlerStep(r)
    BY <1>1, <2>1, PollRunInv, WaitRunInv, PostReplyInv, PostThenAckInv, Zenon DEF handlerStep
  <2>2. CASE finishRun(r)
    BY <1>1, <2>2, FinishInv, Zenon
  <2>3. CASE onTerminal(r)
    BY <1>1, <2>3, TerminalInv, Zenon
  <2>4. CASE ackRun(r)
    BY <1>1, <2>4, AckRunInv, Zenon
  <2> QED
    BY <1>5, <2>1, <2>2, <2>3, <2>4, Zenon
<1>6. ASSUME NEW p \in Process, pollDeliveries(p) \/ crash(p) PROVE SlackIInv'
  BY <1>1, <1>6, PollInv, CrashInv, Zenon
<1>7. ASSUME NEW p \in Process, NEW l \in Loop, loopStep(p, l) PROVE SlackIInv'
  BY <1>1, <1>7, LoopStepEffect, LoopInv, Zenon
<1>8. ASSUME Tick PROVE SlackIInv'
  BY <1>1, <1>8, TickInv, Zenon
<1> QED
  BY <1>2, <1>3, <1>4, <1>5, <1>6, <1>7, <1>8, Zenon DEF Next

(* The surface keeps its invariant whatever the number of processes, runs, *)
(* messages, attempts and faults.                                          *)
THEOREM SlackInvariance == Spec => []SlackIInv
  BY SlackInit, SlackStep, PTL DEF Spec

(* The processes, the table and Slack keep their types.                    *)
THEOREM SlackTypeCorrect == Spec => []TypeOK
<1>1. SlackIInv => TypeOK
  BY Zenon DEF SlackIInv
<1> QED
  BY <1>1, SlackInvariance, PTL

(* No failure, eviction or restart of any process makes a loop acknowledge *)
(* a row that nobody was shown.                                            *)
THEOREM AcksFollowPosts == Spec => []AckedWasShown
<1>1. SlackIInv => AckedWasShown
  BY Zenon DEF SlackIInv, ShownOK, Shown, AckedWasShown
<1> QED
  BY <1>1, SlackInvariance, PTL

(* The claim on a recovery copy keeps the processes apart: the copy is     *)
(* posted twice only if somebody worked on it for longer than the claim.   *)
THEOREM CopiesPostedOnce == Spec => []CopyPostedOnce
<1>1. SlackIInv => CopyPostedOnce
  <2>1. ASSUME SlackIInv, NEW r \in Run, slack[r].copies > 1 PROVE r \in was.outlived
    <3>1. slack[r].copies \in Nat /\ ~(slack[r].copies <= 1)
      BY <2>1, Kinds DEF SlackIInv, TypeOK
    <3> QED
      BY <2>1, <3>1, Zenon DEF SlackIInv, CopyOK
  <2> QED
    BY <2>1, Zenon DEF CopyPostedOnce
<1> QED
  BY <1>1, SlackInvariance, PTL

(* With one process, the handler of a turn and the recovery loop do not    *)
(* both show its answer but for the runs that the history names.           *)
THEOREM AnswersShownByOne == Spec => [](Alone => ShownByOne)
<1>1. SlackIInv => (Alone => ShownByOne)
  <2>1. ASSUME SlackIInv, Alone, NEW r \in Run, slack[r].live > 0, slack[r].copies > 0
        PROVE  r \in was.exposed
    <3>1. slack[r].copies # 0
      BY <2>1
    <3> QED
      BY <2>1, <3>1, Zenon DEF SlackIInv, AnswerOK
  <2> QED
    BY <2>1, Zenon DEF ShownByOne
<1> QED
  BY <1>1, SlackInvariance, PTL

(* A process that runs alone and does not restart posts a message twice    *)
(* only after an attempt that it could not confirm, or once its tracker    *)
(* has forgotten the message.                                              *)
THEOREM MessagesPostedOnce == Spec => [](Steady => MessagePostedOnce)
<1>1. SlackIInv => (Steady => MessagePostedOnce)
  <2>1. ASSUME SlackIInv, Steady, NEW k \in Message, slack[k].copies > 1
        PROVE  k \in was.unconfirmed \cup was.forgotten
    <3>1. ~(slack[k].copies <= 1)
      <4>1. slack[k].copies \in Nat
        BY <2>1, Kinds, Zenon DEF SlackIInv, TypeOK
      <4> QED
        BY <2>1, <4>1
    <3> QED
      BY <2>1, <3>1, Zenon DEF SlackIInv, MessageOK
  <2> QED
    BY <2>1, Zenon DEF MessagePostedOnce
<1> QED
  BY <1>1, SlackInvariance, PTL

(* An acknowledgement of the surface sticks in the table, with both sides  *)
(* and the enqueueing at work.                                             *)
THEOREM SurfaceAcksStick == Spec => []AckSticks
<1>1. SlackIInv => AckSticks
  BY Zenon DEF SlackIInv, AckSticks, OutboxOK
<1> QED
  BY <1>1, SlackInvariance, PTL

(* The surface changes the outbox only by the statements of                *)
(* postgres-delivery-store.ts, one at a time.                              *)
THEOREM SurfaceUsesOutbox == Spec => D!Spec
<1>1. Init => D!Init
  BY Zenon DEF Init
<1>2. SlackIInv /\ [Next]_vars => [D!Next]_(D!vars)
  BY OutboxStep, Zenon
<1> QED
  BY <1>1, <1>2, SlackInvariance, PTL DEF Spec, D!Spec

(* No poller claims an acknowledged row, and what was queued first under a *)
(* key stays, with the pollers, the handlers and the clock interleaved.    *)
THEOREM SurfaceQueuesOnce == Spec => QueuedOnce
<1>1. SlackIInv /\ [Next]_vars => [\A k \in Key : RowStays(k)]_(D!vars)
  <2> SUFFICES ASSUME SlackIInv, [Next]_vars PROVE \A k \in Key : RowStays(k)
    OBVIOUS
  <2> QED
    BY OutboxKept, Zenon
<1> QED
  BY <1>1, SlackInvariance, PTL DEF Spec, QueuedOnce, D!QueuedOnce, RowStays

=============================================================================
