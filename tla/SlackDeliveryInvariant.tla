---------------------- MODULE SlackDeliveryInvariant -----------------------
(***************************************************************************)
(* The invariant of the surface, SlackDelivery, which its properties need  *)
(* and which is inductive, and the steps that the proof cites for the      *)
(* loops, the server's turns and the clock.                                *)
(*                                                                         *)
(* A step of a loop is summed up by Effects: what it takes, posts,         *)
(* acknowledges and remembers.  All that the invariant needs follows from  *)
(* that, once for every action of the loop.  A step of anybody else leaves *)
(* the loops alone or resets them (LoopsKept) and may do little to a row   *)
(* (RowKept).                                                              *)
(***************************************************************************)
EXTENDS SlackDelivery, TLAPS

(* A loop has a row in hand.                                              *)
InHand == {"preflight", "post", "scan", "ack"}

(* The loop has claimed k and is not through with it.                      *)
Busy(p, l, k) == k \in at(p, l).batch \/ at(p, l).cur = k

(* A loop works on what it has claimed, one at a time, on what is of its   *)
(* type, and looks for a message only where it can be found.               *)
LoopOK(l, x) ==
  /\ x.pc \in InHand <=> x.cur \in Key
  /\ x.pc = "preflight" => x.cur \in Run
  /\ x.pc = "scan" => x.cur \notin Note
  /\ x.cur \notin x.batch
  /\ \A k \in x.batch \cup ({x.cur} \cap Key) : l = typeOf(k)

(* The row of a key is of the key's type.                                  *)
RowOK(k) ==
  /\ deliveries[k].present => deliveries[k].type \in {typeOf(k), "ack-tombstone"}
  /\ ~deliveries[k].present => deliveries[k].claim = 0 /\ deliveries[k].deliveredBy = "none"

Shown(k) == slack[k].copies > 0 \/ (slack[k].live > 0 /\ slack[k].keyed)

(* What is taken for shown is shown: what was acknowledged, what is found  *)
(* under its key, and what can be found.                                   *)
ShownOK(k) ==
  /\ acked[k] \in {"ack", "recipientThread"} => Shown(k)
  /\ slack[k].keyed => Shown(k)
  /\ slack[k].copies > 0 /\ k \notin Note => slack[k].keyed

(* What the tracker or the loops of a process know to be posted.           *)
PostedOK(p) ==
  /\ \A k \in Range(proc[p].tracker.posted) : Shown(k)
  /\ \A l \in Loop : In(p, l, "ack") => Shown(at(p, l).cur)

(* While its claim lasts, a copy is in the hands of one loop, which posts  *)
(* it only if it was not posted before.                                    *)
CopyOK(r) ==
  /\ slack[r].copies <= 1
  /\ \A p \in Process, l \in Loop : Busy(p, l, r) =>
       /\ deliveries[r].claim > 0
       /\ In(p, l, "post") /\ at(p, l).cur = r => slack[r].copies = 0
       /\ \A q \in Process, m \in Loop : Busy(q, m, r) => p = q /\ l = m

HandlerOK(r) ==
  /\ run[r].pc = "none" => handler[r].pc = "none"
  /\ IF handler[r].pc = "none" THEN handler[r].home = None ELSE handler[r].home \in Process
  /\ handler[r].acking > 0 => handler[r].pc \in {"reply", "done"}
  /\ handler[r].pc # "done" => slack[r].live = 0

(* One process, and one that does not restart.                             *)
Alone == \A p, q \in Process : p = q
Steady == Alone /\ "crash" \notin Faults

NotBegun(r) == \A p \in Process, l \in Loop : at(p, l).cur # r

(* Why the pollers do not show what the handler shows or is about to show: *)
(* the run is pinned, its copy is acknowledged, or it is found in Slack.   *)
Pinned(r) ==
  /\ r \in proc[handler[r].home].pins /\ NotBegun(r)
  /\ handler[r].pc \in {"waiting", "refuse"} \/ handler[r].acking > 0
Delivered(k) ==
  /\ deliveries[k].deliveredBy # "none"
  /\ \A p \in Process, l \in Loop : ~Busy(p, l, k)
Marked(r) ==
  /\ handler[r].pc = "done" /\ handler[r].acking = 0 /\ slack[r].keyed
  /\ \A p \in Process, l \in Loop : at(p, l).cur = r => at(p, l).pc \notin {"post", "scan"}

AnswerOK(r) ==
  /\ age[r] < Grace => slack[r].copies = 0 /\ NotBegun(r)
  /\ handler[r].pc \in {"waiting", "reply", "refuse"} \/ slack[r].live > 0 =>
       slack[r].copies = 0 /\ (Pinned(r) \/ Delivered(r) \/ Marked(r))

(* A loop that goes for a message a first time, or again, knows that it is *)
(* not in Slack; what is there is known to the tracker, acknowledged or in *)
(* the hands of the loop that will find it.                                *)
Unposted(p, l) == In(p, l, "post") \/ (In(p, l, "scan") /\ ~at(p, l).landed)
Landed(p, l) == In(p, l, "scan") /\ at(p, l).landed

MessageOK(k) ==
  /\ slack[k].copies <= 1
  /\ deliveries[k].deliveredBy # "none" => Delivered(k)
  /\ \A p \in Process, l \in Loop : at(p, l).cur = k /\ Unposted(p, l) => slack[k].copies = 0
  /\ slack[k].copies > 0 =>
       \/ deliveries[k].deliveredBy # "none"
       \/ \E p \in Process :
            \/ k \in Range(proc[p].tracker.posted) \cup Range(proc[p].tracker.dead)
            \/ \E l \in Loop : at(p, l).cur = k /\ Landed(p, l)

(* The table agrees with the history of acknowledgements.                  *)
OutboxOK == D!AckSticks /\ \A k \in Key : deliveries[k].deliveredBy = acked[k]

SlackIInv ==
  /\ TypeOK /\ OutboxOK
  /\ \A k \in Key : RowOK(k) /\ ShownOK(k)
  /\ \A p \in Process : PostedOK(p) /\ \A l \in Loop : LoopOK(l, at(p, l))
  /\ \A r \in Run : HandlerOK(r) /\ (r \in was.outlived \/ CopyOK(r))
  /\ Alone => \A r \in Run : r \in was.exposed \/ AnswerOK(r)
  /\ Steady => \A k \in Message : k \in was.unconfirmed \cup was.forgotten \/ MessageOK(k)

-----------------------------------------------------------------------------
(* What the type invariant says, field by field.                           *)
LEMMA Kinds ==
  /\ Run \subseteq Key /\ Message \subseteq Key /\ Note \subseteq Key /\ None \notin Key
  /\ \A k \in Key : typeOf(k) \in Loop
  /\ ClaimTtl \in Nat \ {0} /\ Grace \in Nat /\ MaxFaults \in Nat
  /\ PostAttempts \in Nat \ {0} /\ AckAttempts \in Nat \ {0}
  BY SlackAssumption DEF Key, typeOf, Loop

(* What the variables hold, field by field.                                *)
LEMMA Fields ==
  ASSUME TypeOK
  PROVE  /\ D!TypeOK
         /\ \A p \in Process : /\ proc[p].pins \subseteq Run /\ proc[p].tracker \in Tracker
                               /\ \A l \in Loop : at(p, l) \in LoopState
         /\ \A k \in Key : /\ slack[k].copies \in Nat /\ slack[k].live \in Nat
                            /\ slack[k].keyed \in BOOLEAN /\ age[k] \in 0..Grace
         /\ \A r \in Run : handler[r] \in HandlerState
<1>1. proc \in [Process -> [pins: SUBSET Run, tracker: Tracker, loop: [Loop -> LoopState]]]
  BY DEF TypeOK
<1>2. \A p \in Process : /\ proc[p].pins \subseteq Run /\ proc[p].tracker \in Tracker
                         /\ \A l \in Loop : at(p, l) \in LoopState
  BY <1>1 DEF at
<1> QED
  BY <1>2 DEF TypeOK

ProcessState == [pins: SUBSET Run, tracker: Tracker, loop: [Loop -> LoopState]]

(* A step of loop l of process p that leaves the loop at y and the tracker *)
(* at u.                                                                   *)
Moves(p, l, y, u) ==
  /\ proc' \in [Process -> ProcessState]
  /\ \A q \in Process, m \in Loop : at(q, m)' = IF q = p /\ m = l THEN y ELSE at(q, m)
  /\ \A q \in Process : /\ proc'[q].tracker = IF q = p THEN u ELSE proc[q].tracker
                        /\ proc'[q].pins = proc[q].pins

(* The tracker and one loop of one process are replaced; all else of the   *)
(* processes stays.                                                        *)
LEMMA Updated ==
  ASSUME TypeOK, NEW p \in Process, NEW l \in Loop, NEW y \in LoopState, NEW u \in Tracker,
         NEW h, h = [proc[p].loop EXCEPT ![l] = y],
         NEW row, row = [proc[p] EXCEPT !.loop = h, !.tracker = u],
         proc' = [proc EXCEPT ![p] = row]
  PROVE  Moves(p, l, y, u)
<1>1. proc \in [Process -> ProcessState]
  BY Zenon DEF TypeOK, ProcessState
<1>2. proc[p] \in ProcessState /\ proc[p].loop \in [Loop -> LoopState]
  BY <1>1 DEF ProcessState
<1>3. h \in [Loop -> LoopState] /\ \A m \in Loop : h[m] = IF m = l THEN y ELSE proc[p].loop[m]
  BY <1>2
<1>4. row \in ProcessState /\ row.tracker = u /\ row.pins = proc[p].pins /\ row.loop = h
  BY <1>2, <1>3, Zenon DEF ProcessState
<1>5. /\ proc' \in [Process -> ProcessState]
      /\ proc'[p] = row /\ \A q \in Process : q # p => proc'[q] = proc[q]
  BY <1>1, <1>4
<1>6. \A q \in Process, m \in Loop : at(q, m)' = IF q = p /\ m = l THEN y ELSE at(q, m)
  BY <1>3, <1>4, <1>5, Zenon DEF at
<1>7. \A q \in Process : /\ proc'[q].tracker = IF q = p THEN u ELSE proc[q].tracker
                        /\ proc'[q].pins = proc[q].pins
  BY <1>4, <1>5, Zenon
<1> QED
  BY <1>5, <1>6, <1>7, Zenon DEF Moves

(* A step that ends in Track moves one loop and its tracker.               *)
LEMMA TrackMoves ==
  ASSUME TypeOK, NEW p \in Process, NEW l \in Loop, NEW y \in LoopState, NEW u \in Tracker,
         NEW unconfirmed, Track(p, l, y, u, unconfirmed)
  PROVE  Moves(p, l, y, u)
<1> DEFINE h == [proc[p].loop EXCEPT ![l] = y]
           row == [proc[p] EXCEPT !.loop = h, !.tracker = u]
<1>1. proc' = [proc EXCEPT ![p] = row] /\ h = [proc[p].loop EXCEPT ![l] = y]
  BY Zenon DEF Track
<1> HIDE DEF h
<1>2. row = [proc[p] EXCEPT !.loop = h, !.tracker = u]
  OBVIOUS
<1> HIDE DEF row
<1> QED
  BY <1>1, <1>2, Updated, Zenon

(* A step that ends in Put moves one loop.                                 *)
LEMMA PutMoves ==
  ASSUME TypeOK, NEW p \in Process, NEW l \in Loop, NEW y \in LoopState, Put(p, l, y)
  PROVE  Moves(p, l, y, proc[p].tracker)
<1> DEFINE h == [proc[p].loop EXCEPT ![l] = y]
<1>1. proc' = [proc EXCEPT ![p] = [proc[p] EXCEPT !.loop = h]]
  BY Zenon DEF Put
<1>2. h = [proc[p].loop EXCEPT ![l] = y]
  OBVIOUS
<1> HIDE DEF h
<1>3. proc[p] \in ProcessState
  BY DEF TypeOK, ProcessState
<1> DEFINE row == [proc[p] EXCEPT !.loop = h]
<1>4. row = [proc[p] EXCEPT !.loop = h, !.tracker = proc[p].tracker]
  BY <1>3, Zenon DEF ProcessState
<1>5. proc[p].tracker \in Tracker
  BY <1>3 DEF ProcessState
<1> HIDE DEF row
<1> QED
  BY <1>1, <1>2, <1>4, <1>5, Updated, Zenon DEF row

-----------------------------------------------------------------------------
(* A deletion takes away one entry, and nothing else.                      *)
LEMMA Deleted ==
  ASSUME NEW T, NEW s \in Seq(T), NEW I \in SUBSET DOMAIN s
  PROVE  /\ delete(s, I) \in Seq(T) /\ Range(delete(s, I)) \subseteq Range(s)
         /\ \A j \in DOMAIN s \ I : s[j] \in Range(delete(s, I))
<1>1. CASE I = {}
  BY <1>1 DEF delete, Range
<1>2. CASE I # {}
  <2> DEFINE n == CHOOSE i \in I : TRUE
             a == SubSeq(s, 1, n - 1)
             b == SubSeq(s, n + 1, Len(s))
             d == delete(s, I)
  <2>1. n \in 1..Len(s) /\ n \in I
    BY <1>2
  <2>2. d = a \o b
    BY <1>2, Zenon DEF delete
  <2> HIDE DEF n, d
  <2>3. Len(s) \in Nat /\ n \in Nat /\ n >= 1 /\ n <= Len(s) /\ DOMAIN s = 1..Len(s)
    BY <2>1
  <2>4. a \in Seq(T) /\ Len(a) = n - 1
    BY <2>1
  <2>5. \A i \in 1..n - 1 : a[i] = s[i]
    BY <2>1
  <2>6. b \in Seq(T) /\ Len(b) = Len(s) - n
    BY <2>1
  <2>7. \A i \in 1..Len(s) - n : b[i] = s[i + n]
    BY <2>1
  <2> HIDE DEF a, b
  <2>8. d \in Seq(T) /\ Len(d) = Len(a) + Len(b)
    <3>1. \A x, y \in Seq(T) : x \o y \in Seq(T) /\ Len(x \o y) = Len(x) + Len(y)
      OBVIOUS
    <3> QED
      BY <2>2, <2>4, <2>6, <3>1, Zenon
  <2>9. DOMAIN d = 1..Len(s) - 1
    BY <2>3, <2>4, <2>6, <2>8
  <2>10. \A i \in 1..n - 1 : d[i] = a[i]
    BY <2>2, <2>3, <2>4, <2>6
  <2>11. \A i \in 1..n - 1 : i \in DOMAIN d /\ d[i] = s[i]
    BY <2>3, <2>5, <2>9, <2>10
  <2>12. \A i \in n..Len(s) - 1 : i \in DOMAIN d /\ d[i] = s[i + 1]
    <3>1. \A i \in n..Len(s) - 1 : d[i] = b[i - (n - 1)] /\ i - (n - 1) \in 1..Len(s) - n
      BY <2>2, <2>3, <2>4, <2>6
    <3> QED
      BY <2>3, <2>7, <2>9, <3>1
  <2>13. \A i \in DOMAIN d : \E j \in DOMAIN s : d[i] = s[j]
    <3>1. \A i \in DOMAIN d : i \in 1..n - 1 \/ i \in n..Len(s) - 1
      BY <2>3, <2>9
    <3>2. \A i \in 1..n - 1 : i \in DOMAIN s
      BY <2>1, <2>3
    <3>3. \A i \in n..Len(s) - 1 : i + 1 \in DOMAIN s
      BY <2>1, <2>3
    <3> QED
      BY <2>11, <2>12, <3>1, <3>2, <3>3, Zenon
  <2>14. ASSUME NEW j \in DOMAIN s \ I PROVE \E i \in DOMAIN d : d[i] = s[j]
    <3>1. j \in 1..n - 1 \/ (j - 1 \in n..Len(s) - 1 /\ j - 1 + 1 = j)
      BY <2>1, <2>3, <2>14
    <3> QED
      BY <2>11, <2>12, <3>1, Zenon
  <2>15. Range(d) \subseteq Range(s)
    BY <2>13, Zenon DEF Range
  <2>16. \A j \in DOMAIN s \ I : s[j] \in Range(d)
    BY <2>14, Zenon DEF Range
  <2> QED
    BY <2>8, <2>15, <2>16, Zenon DEF d
<1> QED
  BY <1>1, <1>2

(* Removing a key from a list removes no other.                            *)
LEMMA Without ==
  ASSUME NEW s \in Seq(Key), NEW k
  PROVE  /\ without(s, k) \in Seq(Key) /\ Range(without(s, k)) \subseteq Range(s)
         /\ Range(s) \ {k} \subseteq Range(without(s, k))
<1> DEFINE I == {i \in DOMAIN s : s[i] = k}
<1>1. I \in SUBSET DOMAIN s
  OBVIOUS
<1>2. \A j \in DOMAIN s : s[j] # k => j \in DOMAIN s \ I
  OBVIOUS
<1>3. without(s, k) = delete(s, I)
  BY Zenon DEF without
<1> HIDE DEF I
<1>4. /\ delete(s, I) \in Seq(Key) /\ Range(delete(s, I)) \subseteq Range(s)
      /\ \A j \in DOMAIN s \ I : s[j] \in Range(delete(s, I))
  BY <1>1, Deleted, Zenon
<1>5. \A x \in Range(s) : \E j \in DOMAIN s : s[j] = x
  BY Zenon DEF Range
<1> QED
  BY <1>2, <1>3, <1>4, <1>5, Zenon

(* A map at its limit loses its oldest entry, which is not the newest.     *)
LEMMA Capped ==
  ASSUME NEW T, NEW s \in Seq(T), NEW k \in T
  PROVE  LET d == capMap(Append(s, k))
         IN d \in Seq(T) /\ k \in Range(d) /\ Range(d) \subseteq Range(s) \cup {k}
<1> DEFINE e == Append(s, k)
<1>1. MaxTracked \in Nat \ {0}
  BY SlackAssumption
<1>2. e \in Seq(T) /\ Len(e) = Len(s) + 1 /\ e[Len(e)] = k /\ \A i \in 1..Len(s) : e[i] = s[i]
  OBVIOUS
<1>3. Len(s) \in Nat
  OBVIOUS
<1> HIDE DEF e
<1>4. Range(e) \subseteq Range(s) \cup {k} /\ k \in Range(e)
  BY <1>2, <1>3 DEF Range
<1>5. CASE Len(e) > MaxTracked
  <2>1. Len(e) > 1
    BY <1>1, <1>2, <1>3, <1>5
  <2>2. Tail(e) \in Seq(T) /\ Len(Tail(e)) = Len(e) - 1 /\ \A i \in 1..Len(e) - 1 : Tail(e)[i] = e[i + 1]
    BY <1>2, <2>1
  <2>3. Len(e) \in Nat
    BY <1>2
  <2>4. Range(Tail(e)) \subseteq Range(e)
    BY <1>2, <2>2, <2>3 DEF Range
  <2>5. Len(e) - 1 \in DOMAIN Tail(e) /\ Tail(e)[Len(e) - 1] = k
    BY <1>2, <2>1, <2>2, <2>3
  <2>6. k \in Range(Tail(e))
    BY <2>5, Zenon DEF Range
  <2> QED
    BY <1>4, <1>5, <2>2, <2>4, <2>6, Zenon DEF capMap, e
<1>6. CASE ~(Len(e) > MaxTracked)
  BY <1>2, <1>4, <1>6, Zenon DEF capMap, e
<1> QED
  BY <1>5, <1>6

Failure == [id: Key, count: Nat]

(* The three maps of a tracker.                                            *)
LEMMA TrackerFields ==
  ASSUME NEW t \in Tracker
  PROVE  t.failures \in Seq(Failure) /\ t.posted \in Seq(Key) /\ t.dead \in Seq(Key)
  BY DEF Tracker, Failure

(* Three maps make a tracker.                                              *)
LEMMA TrackerMade ==
  ASSUME NEW f \in Seq(Failure), NEW s \in Seq(Key), NEW d \in Seq(Key)
  PROVE  [failures |-> f, posted |-> s, dead |-> d] \in Tracker
  BY DEF Tracker, Failure

(* Dropping the failures of a row leaves a list of failures.               *)
LEMMA NoFailures ==
  ASSUME NEW t \in Tracker, NEW k
  PROVE  noFailures(t, k) \in Seq(Failure)
<1>1. t.failures \in Seq(Failure)
  BY TrackerFields
<1>2. {i \in DOMAIN t.failures : t.failures[i].id = k} \in SUBSET DOMAIN t.failures
  OBVIOUS
<1> QED
  BY <1>1, <1>2, Deleted, Zenon DEF noFailures

(* Only what is buried or evicted leaves the tracker.                      *)
LEMMA Buried ==
  ASSUME NEW t \in Tracker, NEW k \in Key
  PROVE  LET u == bury(t, k)
         IN /\ u \in Tracker /\ k \in Range(u.dead)
            /\ Range(u.posted) \subseteq Range(t.posted)
            /\ Range(t.posted) \subseteq Range(u.posted) \cup Range(u.dead)
<1> DEFINE f == noFailures(t, k)
           s == without(t.posted, k)
           d == IF givenUp(t, k) THEN t.dead ELSE capMap(Append(t.dead, k))
           u == bury(t, k)
<1>1. t.posted \in Seq(Key) /\ t.dead \in Seq(Key)
  BY TrackerFields
<1>2. /\ s \in Seq(Key) /\ Range(s) \subseteq Range(t.posted)
      /\ Range(t.posted) \ {k} \subseteq Range(s)
  BY <1>1, Without, Zenon
<1>3. f \in Seq(Failure)
  BY NoFailures, Zenon
<1>4. d \in Seq(Key) /\ k \in Range(d)
  BY <1>1, Capped, Zenon DEF givenUp
<1>5. u = [failures |-> f, posted |-> s, dead |-> d]
  <2>1. u = [t EXCEPT !.failures = f, !.posted = s, !.dead = d]
    BY Zenon DEF bury
  <2> HIDE DEF u, f, s, d
  <2> QED
    BY <2>1, Zenon DEF Tracker
<1> HIDE DEF u, f, s, d
<1>6. u.posted = s /\ u.dead = d
  BY <1>5
<1>7. u \in Tracker
  BY <1>2, <1>3, <1>4, <1>5, TrackerMade, Zenon
<1>8. Range(t.posted) \subseteq Range(s) \cup Range(d)
  BY <1>2, <1>4, Zenon
<1> QED
  BY <1>2, <1>4, <1>6, <1>7, <1>8, Zenon DEF u

(* clear() forgets no row but its own.                                     *)
LEMMA Cleared ==
  ASSUME NEW t \in Tracker, NEW k \in Key
  PROVE  LET u == clear(t, k)
         IN /\ u \in Tracker /\ u.dead = t.dead
            /\ Range(u.posted) \subseteq Range(t.posted)
            /\ Range(t.posted) \ {k} \subseteq Range(u.posted)
<1> DEFINE f == noFailures(t, k)
           s == without(t.posted, k)
           u == clear(t, k)
<1>1. t.posted \in Seq(Key) /\ t.dead \in Seq(Key)
  BY TrackerFields
<1>2. /\ s \in Seq(Key) /\ Range(s) \subseteq Range(t.posted)
      /\ Range(t.posted) \ {k} \subseteq Range(s)
  BY <1>1, Without, Zenon
<1>3. f \in Seq(Failure)
  BY NoFailures, Zenon
<1>4. u = [failures |-> f, posted |-> s, dead |-> t.dead]
  <2>1. u = [t EXCEPT !.failures = f, !.posted = s]
    BY Zenon DEF clear
  <2> HIDE DEF u, f, s
  <2> QED
    BY <2>1, Zenon DEF Tracker
<1> HIDE DEF u, f, s
<1>5. u.posted = s /\ u.dead = t.dead
  BY <1>4
<1>6. u \in Tracker
  BY <1>1, <1>2, <1>3, <1>4, TrackerMade, Zenon
<1> QED
  BY <1>2, <1>5, <1>6, Zenon DEF u

(* markPosted() remembers the row; what the cap evicts is dead.            *)
LEMMA MarkedPosted ==
  ASSUME NEW t \in Tracker, NEW k \in Key
  PROVE  LET u == markPosted(t, k)
         IN /\ u \in Tracker
            /\ Range(u.posted) \subseteq Range(t.posted) \cup {k}
            /\ Range(t.posted) \cup {k} \subseteq Range(u.posted) \cup Range(u.dead)
<1> DEFINE s == Append(t.posted, k)
           v == [t EXCEPT !.posted = s]
           u == markPosted(t, k)
<1>1. t.posted \in Seq(Key) /\ t.dead \in Seq(Key) /\ t.failures \in Seq(Failure)
  BY TrackerFields
<1>2. /\ s \in Seq(Key) /\ Range(s) = Range(t.posted) \cup {k} /\ Len(s) # 0
  <2>1. t.posted \in Seq(Key)
    BY <1>1
  <2> HIDE DEF v, u
  <2>2. /\ s \in Seq(Key) /\ Len(s) = Len(t.posted) + 1 /\ Len(t.posted) \in Nat
        /\ s[Len(s)] = k /\ \A i \in 1..Len(t.posted) : s[i] = t.posted[i]
    BY <2>1
  <2> HIDE DEF s
  <2> QED
    BY <2>1, <2>2 DEF Range
<1>3. v = [failures |-> t.failures, posted |-> s, dead |-> t.dead]
  <2> HIDE DEF s, u
  <2>1. v = [t EXCEPT !.posted = s]
    OBVIOUS
  <2> HIDE DEF v
  <2> QED
    BY <2>1, Zenon DEF Tracker
<1>4. u = IF Len(s) > MaxTracked THEN bury(v, Head(s)) ELSE v
  <2>1. v.posted = s
    <3> HIDE DEF s, u, v
    <3> QED
      BY <1>3
  <2>2. u = IF Len(v.posted) > MaxTracked THEN bury(v, Head(v.posted)) ELSE v
    BY Zenon DEF markPosted
  <2> HIDE DEF s, u, v
  <2> QED
    BY <2>1, <2>2, Zenon
<1> HIDE DEF s, u, v
<1>5. v \in Tracker /\ v.posted = s
  <2>1. v \in Tracker
    BY <1>1, <1>2, <1>3, TrackerMade, Zenon
  <2> QED
    BY <1>3, <2>1
<1>6. Head(s) \in Key
  BY <1>2
<1>7. CASE Len(s) > MaxTracked
  <2>1. u = bury(v, Head(s))
    BY <1>4, <1>7, Zenon
  <2> QED
    BY <1>2, <1>5, <1>6, <2>1, Buried, Zenon DEF u
<1>8. CASE ~(Len(s) > MaxTracked)
  BY <1>2, <1>4, <1>5, <1>8, Zenon DEF u
<1> QED
  BY <1>7, <1>8

(* recordFailure() forgets a posted row only by giving it up.              *)
LEMMA Recorded ==
  ASSUME NEW t \in Tracker, NEW k \in Key
  PROVE  LET u == recordFailure(t, k)
         IN /\ u \in Tracker
            /\ Range(u.posted) \subseteq Range(t.posted)
            /\ Range(t.posted) \subseteq Range(u.posted) \cup Range(u.dead)
<1> DEFINE c == failureCount(t, k)
           n == c + 1
           u == recordFailure(t, k)
           f == IF n > 1 THEN [i \in DOMAIN t.failures |->
                                 IF t.failures[i].id = k THEN [id |-> k, count |-> n] ELSE t.failures[i]]
                ELSE capMap(Append(t.failures, [id |-> k, count |-> n]))
<1>1. t.posted \in Seq(Key) /\ t.dead \in Seq(Key) /\ t.failures \in Seq(Failure)
  BY TrackerFields
<1>2. c \in Nat
  <2>1. \A g \in Range(t.failures) : g \in Failure
    BY <1>1 DEF Range
  <2>2. \A g \in Failure : g.count \in Nat
    BY DEF Failure
  <2>3. CASE \E g \in Range(t.failures) : g.id = k
    BY <2>1, <2>2, <2>3, Zenon DEF failureCount
  <2>4. CASE ~\E g \in Range(t.failures) : g.id = k
    BY <2>4 DEF failureCount
  <2> QED
    BY <2>3, <2>4
<1> HIDE DEF c
<1>3. [id |-> k, count |-> n] \in Failure
  BY <1>2 DEF Failure
<1>4. f \in Seq(Failure)
  <2> DEFINE e == [id |-> k, count |-> n]
             g == [i \in DOMAIN t.failures |-> IF t.failures[i].id = k THEN e ELSE t.failures[i]]
  <2>1. e \in Failure
    BY <1>3
  <2> HIDE DEF e, u
  <2>2. g \in Seq(Failure)
    BY <1>1, <2>1
  <2>3. capMap(Append(t.failures, e)) \in Seq(Failure)
    BY <1>1, <2>1, Capped, Zenon
  <2> HIDE DEF n
  <2> QED
    BY <2>2, <2>3, Zenon DEF e
<1>5. CASE n >= MaxAttempts
  <2>1. u = bury(t, k)
    BY <1>5, Zenon DEF recordFailure, c
  <2> HIDE DEF u
  <2> QED
    BY <2>1, Buried, Zenon DEF u
<1>6. CASE ~(n >= MaxAttempts)
  <2>1. u = [t EXCEPT !.failures = f]
    BY <1>6, Zenon DEF recordFailure, c
  <2> HIDE DEF u, f
  <2>2. u = [failures |-> f, posted |-> t.posted, dead |-> t.dead]
    BY <2>1, Zenon DEF Tracker
  <2>3. u \in Tracker
    BY <1>1, <1>4, <2>2, TrackerMade, Zenon
  <2>4. u.posted = t.posted
    BY <2>2
  <2> QED
    BY <2>3, <2>4, Zenon DEF u
<1> QED
  BY <1>5, <1>6

-----------------------------------------------------------------------------
(* What the statements do to the rows.                                     *)
LEMMA EnqueuedRows ==
  ASSUME D!TypeOK, NEW k \in Key, NEW type \in Loop, D!enqueue(k, type, FALSE, FALSE)
  PROVE  /\ acked' = acked
         /\ \A q \in Key :
              IF q = k /\ ~deliveries[q].present
                THEN /\ deliveries'[q].present /\ deliveries'[q].type = type
                     /\ deliveries'[q].claim = 0 /\ deliveries'[q].deliveredBy = "none"
                ELSE deliveries'[q] = deliveries[q]
<1> DEFINE row == [D!NoDelivery EXCEPT !.present = TRUE, !.type = type, !.shadow = FALSE,
                                       !.editRef = FALSE]
<1>1. row.present /\ row.type = type /\ row.claim = 0 /\ row.deliveredBy = "none"
  BY DEF D!NoDelivery
<1>2. /\ acked' = acked
      /\ deliveries' = IF deliveries[k].present THEN deliveries ELSE [deliveries EXCEPT ![k] = row]
  BY Zenon DEF D!enqueue
<1> HIDE DEF row
<1>3. deliveries \in [Key -> D!Delivery]
  BY Zenon DEF D!TypeOK
<1>4. CASE deliveries[k].present
  BY <1>2, <1>4, Zenon
<1>5. CASE ~deliveries[k].present
  <2>1. \A q \in Key : deliveries'[q] = IF q = k THEN row ELSE deliveries[q]
    BY <1>2, <1>3, <1>5
  <2> QED
    BY <1>1, <1>2, <1>5, <2>1, Zenon
<1> QED
  BY <1>4, <1>5

(* claimPending() stamps the rows it returns, which were free and of its   *)
(* type.                                                                   *)
LEMMA ClaimedRows ==
  ASSUME D!TypeOK, NEW l \in Loop, NEW ks, D!claimPending(l, ks)
  PROVE  /\ acked' = acked /\ ks \subseteq Key
         /\ \A q \in Key :
              /\ deliveries'[q].present = deliveries[q].present
              /\ deliveries'[q].type = deliveries[q].type
              /\ deliveries'[q].deliveredBy = deliveries[q].deliveredBy
              /\ IF q \in ks
                   THEN /\ deliveries[q].claim = 0 /\ deliveries'[q].claim = ClaimTtl
                        /\ deliveries[q].present /\ deliveries[q].type = l
                        /\ deliveries[q].deliveredBy = "none"
                   ELSE deliveries'[q].claim = deliveries[q].claim
<1>1. /\ acked' = acked
      /\ ks \subseteq D!Claimable(l)
      /\ \A q \in Key : deliveries'[q] = IF q \in ks THEN [deliveries[q] EXCEPT !.claim = ClaimTtl]
                                                     ELSE deliveries[q]
  BY DEF D!claimPending
<1>2. \A q \in Key : deliveries[q] \in D!Delivery
  BY DEF D!TypeOK
<1>3. \A q \in ks : /\ q \in Key /\ deliveries[q].claim = 0 /\ deliveries[q].present
                    /\ deliveries[q].type = l /\ deliveries[q].deliveredBy = "none"
  BY <1>1, Zenon DEF D!Claimable, D!pending
<1>4. \A q \in Key : /\ deliveries'[q].present = deliveries[q].present
                     /\ deliveries'[q].type = deliveries[q].type
                     /\ deliveries'[q].deliveredBy = deliveries[q].deliveredBy
                     /\ deliveries'[q].claim = IF q \in ks THEN ClaimTtl ELSE deliveries[q].claim
  BY <1>1, <1>2, Zenon DEF D!Delivery
<1> QED
  BY <1>1, <1>3, <1>4, Zenon

(* An acknowledgement of a loop delivers one row, on its own account       *)
(* unless it was delivered.                                                *)
LEMMA AckedRows ==
  ASSUME D!TypeOK, NEW k \in Key, NEW by \in {"ack", "recipientThread"},
         (D!ack(k) /\ by = "ack") \/ (D!recordRecipientThread(k) /\ by = "recipientThread")
  PROVE  \A q \in Key :
           /\ deliveries'[q].present = deliveries[q].present
           /\ deliveries'[q].type = deliveries[q].type
           /\ deliveries'[q].claim = deliveries[q].claim
           /\ deliveries'[q].deliveredBy = IF q = k /\ deliveries[q].deliveredBy = "none"
                                             THEN by ELSE deliveries[q].deliveredBy
           /\ acked'[q] = IF q = k /\ acked[q] = "none" THEN by ELSE acked[q]
<1>1. deliveries \in [Key -> D!Delivery] /\ acked \in [Key -> {"none", "ack", "ackByKey", "recipientThread"}]
  BY Zenon DEF D!TypeOK
<1>2. \A q \in Key : acked'[q] = IF q = k /\ acked[q] = "none" THEN by ELSE acked[q]
  <2>1. acked' = [acked EXCEPT ![k] = IF acked[k] = "none" THEN by ELSE acked[k]]
    BY Zenon DEF D!ack, D!recordRecipientThread, D!Acknowledge
  <2> QED
    BY <1>1, <2>1
<1> DEFINE d == IF deliveries[k].deliveredBy = "none" THEN by ELSE deliveries[k].deliveredBy
<1>3. \/ deliveries' = [deliveries EXCEPT ![k] = [deliveries[k] EXCEPT !.deliveredBy = d]]
      \/ deliveries' = [deliveries EXCEPT ![k] =
            [deliveries[k] EXCEPT !.recipientThread = TRUE, !.deliveredBy = d]]
  BY Zenon DEF D!ack, D!recordRecipientThread, D!deliver
<1>4. PICK row : /\ deliveries' = [deliveries EXCEPT ![k] = row]
                 /\ row.present = deliveries[k].present /\ row.type = deliveries[k].type
                 /\ row.claim = deliveries[k].claim /\ row.deliveredBy = d
  <2> HIDE DEF d
  <2>1. deliveries[k] \in D!Delivery
    BY <1>1
  <2>2. ASSUME NEW row, \/ row = [deliveries[k] EXCEPT !.deliveredBy = d]
                        \/ row = [deliveries[k] EXCEPT !.recipientThread = TRUE, !.deliveredBy = d]
        PROVE  /\ row.present = deliveries[k].present /\ row.type = deliveries[k].type
               /\ row.claim = deliveries[k].claim /\ row.deliveredBy = d
    BY <2>1, <2>2, Zenon DEF D!Delivery
  <2> QED
    BY <1>3, <2>2, Zenon
<1> HIDE DEF d
<1>5. \A q \in Key : deliveries'[q] = IF q = k THEN row ELSE deliveries[q]
  BY <1>1, <1>4
<1>6. deliveries'[k].deliveredBy = IF deliveries[k].deliveredBy = "none" THEN by
                                   ELSE deliveries[k].deliveredBy
  BY <1>4, <1>5, Zenon DEF d
<1>7. SUFFICES ASSUME NEW q \in Key
               PROVE  /\ deliveries'[q].present = deliveries[q].present
                      /\ deliveries'[q].type = deliveries[q].type
                      /\ deliveries'[q].claim = deliveries[q].claim
                      /\ deliveries'[q].deliveredBy = IF q = k /\ deliveries[q].deliveredBy = "none"
                                                        THEN by ELSE deliveries[q].deliveredBy
  BY <1>2, Zenon
<1>8. CASE q = k
  BY <1>4, <1>5, <1>6, <1>8, Zenon
<1>9. CASE q # k
  BY <1>5, <1>9, Zenon
<1> QED
  BY <1>8, <1>9

(* ackByKey() delivers one row, which it creates if need be.               *)
LEMMA AckedByKeyRows ==
  ASSUME D!TypeOK, NEW k \in Key, RowOK(k), D!ackByKey(k)
  PROVE  \A q \in Key :
           /\ deliveries'[q].present = (deliveries[q].present \/ q = k)
           /\ deliveries'[q].type = IF q = k /\ ~deliveries[q].present
                                      THEN "ack-tombstone" ELSE deliveries[q].type
           /\ deliveries'[q].claim = deliveries[q].claim
           /\ deliveries'[q].deliveredBy = IF q = k /\ deliveries[q].deliveredBy = "none"
                                             THEN "ackByKey" ELSE deliveries[q].deliveredBy
           /\ acked'[q] = IF q = k /\ acked[q] = "none" THEN "ackByKey" ELSE acked[q]
<1>1. deliveries \in [Key -> D!Delivery] /\ acked \in [Key -> {"none", "ack", "ackByKey", "recipientThread"}]
  BY Zenon DEF D!TypeOK
<1>2. \A q \in Key : acked'[q] = IF q = k /\ acked[q] = "none" THEN "ackByKey" ELSE acked[q]
  <2>1. acked' = [acked EXCEPT ![k] = IF acked[k] = "none" THEN "ackByKey" ELSE acked[k]]
    BY Zenon DEF D!ackByKey, D!Acknowledge
  <2> QED
    BY <1>1, <2>1
<1>3. \A q \in Key : deliveries[q].present \in BOOLEAN
  BY <1>1 DEF D!Delivery
<1>4. CASE deliveries[k].present
  <2> DEFINE d == IF deliveries[k].deliveredBy = "none" THEN "ackByKey" ELSE deliveries[k].deliveredBy
             row == [deliveries[k] EXCEPT !.deliveredBy = d]
  <2>1. deliveries' = [deliveries EXCEPT ![k] = row]
    BY <1>4, Zenon DEF D!ackByKey, D!deliver
  <2> HIDE DEF d
  <2>2. deliveries[k] \in D!Delivery
    BY <1>1
  <2>3. /\ row.present = deliveries[k].present /\ row.type = deliveries[k].type
        /\ row.claim = deliveries[k].claim /\ row.deliveredBy = d
    BY <2>2 DEF D!Delivery
  <2> HIDE DEF row
  <2>4. \A q \in Key : deliveries'[q] = IF q = k THEN row ELSE deliveries[q]
    BY <1>1, <2>1
  <2> QED
    BY <1>2, <1>3, <1>4, <2>3, <2>4, Zenon DEF d
<1>5. CASE ~deliveries[k].present
  <2> DEFINE row == [D!NoDelivery EXCEPT !.present = TRUE, !.deliveredBy = "ackByKey"]
  <2>1. deliveries' = [deliveries EXCEPT ![k] = row]
    BY <1>5, Zenon DEF D!ackByKey
  <2>2. /\ row.present = TRUE /\ row.type = "ack-tombstone" /\ row.claim = 0
        /\ row.deliveredBy = "ackByKey"
    BY DEF D!NoDelivery
  <2> HIDE DEF row
  <2>3. \A q \in Key : deliveries'[q] = IF q = k THEN row ELSE deliveries[q]
    BY <1>1, <2>1
  <2> QED
    BY <1>2, <1>3, <1>5, <2>2, <2>3, Zenon DEF RowOK
<1> QED
  BY <1>4, <1>5

(* Time runs the claims down and does nothing else to a row.               *)
LEMMA TickedRows ==
  ASSUME D!TypeOK, D!Tick
  PROVE  /\ acked' = acked
         /\ \A q \in Key :
              /\ deliveries'[q].present = deliveries[q].present
              /\ deliveries'[q].type = deliveries[q].type
              /\ deliveries'[q].deliveredBy = deliveries[q].deliveredBy
              /\ deliveries[q].claim > 1 => deliveries'[q].claim > 0
              /\ deliveries[q].claim = 0 => deliveries'[q].claim = 0
<1>1. \A q \in Key : deliveries[q] \in D!Delivery
  BY DEF D!TypeOK
<1>2. /\ acked' = acked
      /\ \A q \in Key : deliveries'[q] = IF deliveries[q].claim > 0
             THEN [deliveries[q] EXCEPT !.claim = deliveries[q].claim - 1] ELSE deliveries[q]
  BY DEF D!Tick
<1>3. \A q \in Key : /\ deliveries'[q].present = deliveries[q].present
                     /\ deliveries'[q].type = deliveries[q].type
                     /\ deliveries'[q].deliveredBy = deliveries[q].deliveredBy
                     /\ deliveries'[q].claim = IF deliveries[q].claim > 0
                                                 THEN deliveries[q].claim - 1 ELSE deliveries[q].claim
                     /\ deliveries[q].claim \in Nat
  BY <1>1, <1>2, Zenon DEF D!Delivery
<1>4. \A q \in Key : /\ deliveries[q].claim > 1 => deliveries'[q].claim > 0
                     /\ deliveries[q].claim = 0 => deliveries'[q].claim = 0
  BY <1>3
<1> QED
  BY <1>2, <1>3, <1>4, Zenon

-----------------------------------------------------------------------------
(* What a step of a loop may do.                                           *)

Known(u) == Range(u.posted) \cup Range(u.dead)

(* It goes on with what it has in hand or, at a fetch, with rows that      *)
(* nobody has claimed; a delivery is begun only if it is neither left to   *)
(* the handler nor known to be posted, save for its acknowledgement.       *)
Takes(p, l, y) ==
  LET x == at(p, l)
      t == proc[p].tracker
  IN /\ x.cur \notin y.batch
     /\ \A k \in y.batch \ x.batch : /\ deliveries[k].claim = 0 /\ deliveries'[k].claim > 0
                                     /\ deliveries[k].deliveredBy = "none"
     /\ y.cur \in {None, x.cur} \cup x.batch
     /\ y.cur \notin {None, x.cur} =>
          /\ slack' = slack /\ ~LeftToHandler(p, y.cur) /\ ~givenUp(t, y.cur)
          /\ \/ y.pc = "ack"
             \/ /\ y.cur \notin Range(t.posted)
                /\ y.pc = IF y.cur \in Run THEN "preflight" ELSE "post"

(* It acknowledges only the delivery it ends with.                         *)
Acks(p, l, y) ==
  \A k \in Key :
    /\ RowOK(k)'
    /\ deliveries[k].claim > 0 => deliveries'[k].claim > 0
    /\ \/ deliveries'[k].deliveredBy = deliveries[k].deliveredBy /\ acked'[k] = acked[k]
       \/ /\ k = at(p, l).cur /\ In(p, l, "ack") /\ y.cur = None
          /\ deliveries'[k].deliveredBy # "none"

(* It posts from "post" only, where it gets to for want of a copy, and     *)
(* what is posted the tracker gets to know, unless the loop looks for it.  *)
Posts(p, l, y, u) ==
  LET x == at(p, l)
  IN /\ \/ slack' = slack
        \/ /\ x.pc = "post" /\ Show(x.cur)
           /\ \/ x.cur \in Known(u) \cup was'.unconfirmed
              \/ y.cur = x.cur /\ y.pc = "scan" /\ y.landed
     /\ y.pc = "ack" => Shown(y.cur)'
     /\ y.pc = "post" /\ y.cur = x.cur =>
          /\ slack' = slack
          /\ x.pc = "post" \/ ~slack[x.cur].keyed \/ (x.cur \in Message /\ x.pc = "scan" /\ ~x.landed)
     /\ y.pc = "scan" => x.pc = "post" /\ y.cur = x.cur /\ (y.landed \/ slack' = slack)

(* The tracker forgets nothing but what is acknowledged or goes on record. *)
Remembers(p, l, y, u) ==
  LET x == at(p, l)
      t == proc[p].tracker
  IN /\ \A k \in Range(u.posted) : k \in Range(t.posted) \/ (y.pc = "ack" /\ y.cur = k)
     /\ \A k \in Range(t.posted) :
          k \in Known(u) \/ (k = x.cur /\ deliveries'[k].deliveredBy # "none")
     /\ x.pc = "scan" /\ x.landed =>
          x.cur \in Known(u) \cup was'.unconfirmed \/ ~slack[x.cur].keyed
     /\ was'.exposed = was.exposed /\ was'.outlived = was.outlived
     /\ was.unconfirmed \subseteq was'.unconfirmed
     /\ was.forgotten \cup (Range(t.dead) \ Range(u.dead)) \subseteq was'.forgotten

Effects(p, l, y, u) ==
  /\ Moves(p, l, y, u) /\ LoopOK(l, y)
  /\ Takes(p, l, y) /\ Acks(p, l, y) /\ Posts(p, l, y, u) /\ Remembers(p, l, y, u)
  /\ UNCHANGED <<age, run, handler>>

(* What is shown stays shown.                                              *)
LEMMA StaysShown ==
  ASSUME TypeOK, NEW k \in Key, slack' = slack \/ Show(k)
  PROVE  /\ \A q \in Key : Shown(q) => Shown(q)'
         /\ \A q \in Key : slack'[q].live = slack[q].live
         /\ \A q \in Key : q # k => slack'[q] = slack[q]
         /\ Show(k) => /\ slack'[k].copies = slack[k].copies + 1
                       /\ slack'[k].keyed = (k \notin Note) /\ Shown(k)'
<1>1. slack \in [Key -> [copies: Nat, live: Nat, keyed: BOOLEAN]]
  BY DEF TypeOK
<1>2. CASE slack' = slack /\ ~Show(k)
  BY <1>2, Zenon DEF Shown
<1>3. CASE Show(k)
  <2> DEFINE row == [slack[k] EXCEPT !.copies = slack[k].copies + 1, !.keyed = k \notin Note]
  <2>1. slack' = [slack EXCEPT ![k] = row]
    BY <1>3, Zenon DEF Show
  <2>2. /\ slack[k].copies \in Nat
        /\ row.copies = slack[k].copies + 1 /\ row.live = slack[k].live /\ row.keyed = (k \notin Note)
    BY <1>1
  <2> HIDE DEF row
  <2>3. \A q \in Key : slack'[q] = IF q = k THEN row ELSE slack[q]
    BY <1>1, <2>1
  <2>4. slack'[k].copies > 0
    BY <2>2, <2>3
  <2> QED
    BY <2>2, <2>3, <2>4, Zenon DEF Shown
<1> QED
  BY <1>2, <1>3

(* Who has a delivery in hand had it before, or has just claimed it.       *)
LEMMA BusyBefore ==
  ASSUME TypeOK, NEW p \in Process, NEW l \in Loop, NEW y \in LoopState, NEW u, Effects(p, l, y, u),
         NEW q \in Process, NEW m \in Loop, NEW k \in Key, Busy(q, m, k)'
  PROVE  \/ Busy(q, m, k)
         \/ /\ q = p /\ m = l /\ k \in y.batch
            /\ deliveries[k].claim = 0 /\ deliveries'[k].claim > 0 /\ deliveries[k].deliveredBy = "none"
<1>1. at(q, m)' = IF q = p /\ m = l THEN y ELSE at(q, m)
  BY Zenon DEF Effects, Moves
<1>2. k \in at(q, m)'.batch \/ at(q, m)'.cur = k
  BY Zenon DEF Busy
<1>3. CASE q = p /\ m = l
  <2>1. k \in y.batch \/ y.cur = k
    BY <1>1, <1>2, <1>3, Zenon
  <2>2. CASE k \in y.batch
    BY <1>3, <2>2, Zenon DEF Effects, Takes, Busy
  <2>3. CASE y.cur = k
    BY <1>3, <2>3, Kinds, Zenon DEF Effects, Takes, Busy
  <2> QED
    BY <2>1, <2>2, <2>3
<1>4. CASE ~(q = p /\ m = l)
  BY <1>1, <1>2, <1>4, Zenon DEF Busy
<1> QED
  BY <1>3, <1>4

(* What a loop shows it has in hand.                                       *)
LEMMA ShownBy ==
  ASSUME TypeOK, NEW p \in Process, NEW l \in Loop, NEW y \in LoopState, NEW u,
         Effects(p, l, y, u), LoopOK(l, at(p, l))
  PROVE  /\ \A q \in Key : Shown(q) => Shown(q)'
         /\ \A q \in Key : slack'[q].live = slack[q].live
         /\ \A q \in Key : slack'[q] = slack[q] \/ 
              /\ q = at(p, l).cur /\ In(p, l, "post") /\ slack'[q].copies = slack[q].copies + 1
              /\ slack'[q].keyed = (q \notin Note) /\ Shown(q)' /\ slack' # slack
<1>1. CASE slack' = slack
  BY <1>1, Zenon DEF Shown
<1>2. CASE slack' # slack
  <2>1. In(p, l, "post") /\ Show(at(p, l).cur)
    BY <1>2, Zenon DEF Effects, Posts, In
  <2>2. at(p, l).cur \in Key
    BY <2>1, Zenon DEF LoopOK, In, InHand
  <2> QED
    BY <1>2, <2>1, <2>2, StaysShown, Zenon
<1> QED
  BY <1>1, <1>2

(* A loop takes for shown only what is shown.                              *)
LEMMA EffectsShown ==
  ASSUME SlackIInv, NEW p \in Process, NEW l \in Loop, NEW y \in LoopState, NEW u,
         Effects(p, l, y, u)
  PROVE  /\ \A k \in Key : RowOK(k)' /\ ShownOK(k)'
         /\ \A q \in Process : PostedOK(q)' /\ \A m \in Loop : LoopOK(m, at(q, m))'
         /\ \A r \in Run : HandlerOK(r)'
<1>1. /\ TypeOK /\ \A q \in Process : PostedOK(q) /\ \A m \in Loop : LoopOK(m, at(q, m))
      /\ \A k \in Key : ShownOK(k)
      /\ \A r \in Run : HandlerOK(r)
  BY Zenon DEF SlackIInv
<1>2. /\ \A q \in Key : Shown(q) => Shown(q)'
      /\ \A q \in Key : slack'[q].live = slack[q].live
      /\ \A q \in Key : slack'[q] = slack[q] \/ 
              /\ q = at(p, l).cur /\ In(p, l, "post") /\ slack'[q].copies = slack[q].copies + 1
              /\ slack'[q].keyed = (q \notin Note) /\ Shown(q)' /\ slack' # slack
  BY <1>1, ShownBy, Zenon
<1>3. \A q \in Process, m \in Loop : at(q, m)' = IF q = p /\ m = l THEN y ELSE at(q, m)
  BY Zenon DEF Effects, Moves
<1>4. \A k \in Key : RowOK(k)'
  BY Zenon DEF Effects, Acks
<1>5. ASSUME NEW k \in Key PROVE ShownOK(k)'
  <2>1. acked'[k] \in {"ack", "recipientThread"} => Shown(k)'
    <3>1. acked'[k] = acked[k] \/ (k = at(p, l).cur /\ In(p, l, "ack"))
      BY <1>5, Zenon DEF Effects, Acks
    <3>2. k = at(p, l).cur /\ In(p, l, "ack") => Shown(k)
      BY <1>1, Zenon DEF PostedOK
    <3> QED
      BY <1>1, <1>2, <3>1, <3>2, Zenon DEF ShownOK
  <2>2. slack'[k].keyed => Shown(k)'
    BY <1>1, <1>2, Zenon DEF ShownOK
  <2>3. slack'[k].copies > 0 /\ k \notin Note => slack'[k].keyed
    BY <1>1, <1>2, Zenon DEF ShownOK
  <2> QED
    BY <2>1, <2>2, <2>3, Zenon DEF ShownOK
<1>6. ASSUME NEW q \in Process PROVE PostedOK(q)'
  <2>1. ASSUME NEW k \in Range(proc'[q].tracker.posted) PROVE Shown(k)'
    <3>1. k \in Range(proc[q].tracker.posted) \/ (y.pc = "ack" /\ y.cur = k)
      BY <2>1, Zenon DEF Effects, Moves, Remembers
    <3>2. Range(proc[q].tracker.posted) \subseteq Key
      <4>1. proc[q].tracker.posted \in Seq(Key)
        BY <1>1, Fields, TrackerFields, Zenon
      <4> QED
        BY <4>1 DEF Range
    <3> QED
      BY <1>1, <1>2, <3>1, <3>2, Zenon DEF PostedOK, Effects, Posts
  <2>2. ASSUME NEW m \in Loop, In(q, m, "ack")' PROVE Shown(at(q, m).cur)'
    <3>1. CASE q = p /\ m = l
      BY <1>3, <2>2, <3>1, Zenon DEF Effects, Posts, In, Shown
    <3>2. CASE ~(q = p /\ m = l)
      <4>1. at(q, m)' = at(q, m)
        BY <1>3, <3>2, Zenon
      <4>2. In(q, m, "ack") /\ at(q, m).cur \in Key
        BY <1>1, <2>2, <4>1, Zenon DEF In, LoopOK, InHand
      <4>3. Shown(at(q, m).cur)
        BY <1>1, <4>2, Zenon DEF PostedOK
      <4> QED
        BY <1>2, <4>1, <4>2, <4>3, Zenon DEF Shown
    <3> QED
      BY <3>1, <3>2
  <2> QED
    BY <2>1, <2>2, Zenon DEF PostedOK
<1>7. ASSUME NEW q \in Process, NEW m \in Loop PROVE LoopOK(m, at(q, m))'
  <2>1. LoopOK(m, at(q, m)) /\ LoopOK(l, y)
    BY <1>1, Zenon DEF Effects
  <2>2. (at(q, m)' = y /\ m = l) \/ at(q, m)' = at(q, m)
    BY <1>3, Zenon
  <2> QED
    BY <2>1, <2>2, Zenon DEF LoopOK
<1>8. ASSUME NEW r \in Run PROVE HandlerOK(r)'
  BY <1>1, <1>2, Kinds, Zenon DEF Effects, HandlerOK
<1> QED
  BY <1>4, <1>5, <1>6, <1>7, <1>8, Zenon

(* A loop does not post a recovery copy that was posted, nor take one that *)
(* another has.                                                            *)
LEMMA EffectsCopy ==
  ASSUME SlackIInv, NEW p \in Process, NEW l \in Loop, NEW y \in LoopState, NEW u,
         Effects(p, l, y, u), NEW r \in Run, r \notin was'.outlived
  PROVE  CopyOK(r)'
<1>1. /\ TypeOK /\ \A q \in Process, m \in Loop : LoopOK(m, at(q, m))
      /\ ShownOK(r) /\ CopyOK(r) /\ r \in Key /\ r \notin Note /\ r \notin Message
  BY Kinds, SlackAssumption, Zenon DEF SlackIInv, Effects, Remembers
<1>2. slack'[r] = slack[r] \/ (r = at(p, l).cur /\ In(p, l, "post")
                                /\ slack'[r].copies = slack[r].copies + 1 /\ slack' # slack)
  BY <1>1, ShownBy, Zenon
<1>3. \A q \in Process, m \in Loop : at(q, m)' = IF q = p /\ m = l THEN y ELSE at(q, m)
  BY Zenon DEF Effects, Moves
<1>4. slack[r].copies \in Nat
  BY <1>1, Fields, Zenon
<1>5. slack'[r].copies <= 1
  <2>1. CASE slack'[r] = slack[r]
    BY <1>1, <2>1, Zenon DEF CopyOK
  <2>2. CASE r = at(p, l).cur /\ In(p, l, "post") /\ slack'[r].copies = slack[r].copies + 1
    <3>1. slack[r].copies = 0
      BY <1>1, <2>2, Zenon DEF CopyOK, Busy
    <3> QED
      BY <2>2, <3>1
  <2> QED
    BY <1>2, <2>1, <2>2
<1>6. ASSUME NEW q \in Process, NEW m \in Loop, Busy(q, m, r)'
      PROVE  deliveries'[r].claim > 0
  <2>1. deliveries[r].claim > 0 => deliveries'[r].claim > 0
    BY <1>1, Zenon DEF Effects, Acks
  <2>2. Busy(q, m, r) \/ deliveries'[r].claim > 0
    BY <1>1, <1>6, BusyBefore, Zenon
  <2> QED
    BY <1>1, <2>1, <2>2, Zenon DEF CopyOK
<1>7. ASSUME NEW q \in Process, NEW m \in Loop, In(q, m, "post")', at(q, m)'.cur = r
      PROVE  slack'[r].copies = 0
  <2>1. CASE q = p /\ m = l
    <3>1. y.pc = "post" /\ y.cur = r
      BY <1>3, <1>7, <2>1, Zenon DEF In
    <3>2. r # None
      BY <1>1, Kinds, Zenon
    <3>3. at(p, l).cur = r
      BY <3>1, <3>2, Zenon DEF Effects, Takes
    <3>4. slack' = slack /\ (In(p, l, "post") \/ ~slack[r].keyed)
      BY <1>1, <3>1, <3>3, Zenon DEF Effects, Posts, In
    <3>5. ~slack[r].keyed => ~(slack[r].copies > 0)
      BY <1>1, Zenon DEF ShownOK
    <3>6. ~(slack[r].copies > 0) => slack[r].copies = 0
      BY <1>4
    <3> QED
      BY <1>1, <3>3, <3>4, <3>5, <3>6, Zenon DEF CopyOK, Busy
  <2>2. CASE ~(q = p /\ m = l)
    <3>1. at(q, m)' = at(q, m)
      BY <1>3, <2>2, Zenon
    <3>2. In(q, m, "post") /\ at(q, m).cur = r
      BY <1>7, <3>1, Zenon DEF In
    <3>3. at(p, l).cur # r
      BY <1>1, <2>2, <3>2, Zenon DEF CopyOK, Busy
    <3> QED
      BY <1>1, <1>2, <3>2, <3>3, Zenon DEF CopyOK, Busy
  <2> QED
    BY <2>1, <2>2
<1>8. ASSUME NEW q \in Process, NEW m \in Loop, Busy(q, m, r)'
      PROVE  Busy(q, m, r) \/ (q = p /\ m = l /\ deliveries[r].claim = 0)
  <2>1. \/ Busy(q, m, r)
        \/ /\ q = p /\ m = l /\ r \in y.batch
           /\ deliveries[r].claim = 0 /\ deliveries'[r].claim > 0 /\ deliveries[r].deliveredBy = "none"
    <3>1. TypeOK /\ r \in Key
      BY <1>1, Zenon
    <3> QED
      BY <1>8, <3>1, BusyBefore, Zenon
  <2> QED
    BY <2>1, Zenon
<1>9. ASSUME NEW q \in Process, NEW m \in Loop, NEW qq \in Process, NEW mm \in Loop,
             Busy(q, m, r)', Busy(qq, mm, r)'
      PROVE  q = qq /\ m = mm
  <2>1. deliveries[r].claim = 0 => ~(deliveries[r].claim > 0)
    OBVIOUS
  <2>2. Busy(q, m, r) \/ (q = p /\ m = l /\ deliveries[r].claim = 0)
    BY <1>9, <1>8, Zenon
  <2>3. Busy(qq, mm, r) \/ (qq = p /\ mm = l /\ deliveries[r].claim = 0)
    BY <1>9, <1>8, Zenon
  <2> QED
    BY <1>1, <2>1, <2>2, <2>3, Zenon DEF CopyOK
<1> QED
  BY <1>5, <1>6, <1>7, <1>9, Zenon DEF CopyOK

(* A delivery that no loop may take, no loop takes.                        *)
LEMMA StaysDelivered ==
  ASSUME TypeOK, NEW p \in Process, NEW l \in Loop, NEW y \in LoopState, NEW u, Effects(p, l, y, u),
         NEW k \in Key, Delivered(k)
  PROVE  Delivered(k)'
<1>1. deliveries[k].deliveredBy # "none"
  BY Zenon DEF Delivered
<1>2. ASSUME NEW q \in Process, NEW m \in Loop, Busy(q, m, k)' PROVE FALSE
  <2>1. \/ Busy(q, m, k)
        \/ /\ q = p /\ m = l /\ k \in y.batch
           /\ deliveries[k].claim = 0 /\ deliveries'[k].claim > 0 /\ deliveries[k].deliveredBy = "none"
    BY <1>2, BusyBefore, Zenon
  <2> QED
    BY <1>1, <1>2, <2>1, Zenon DEF Delivered
<1>3. deliveries'[k].deliveredBy # "none"
  BY <1>1, Zenon DEF Effects, Acks
<1> QED
  BY <1>2, <1>3, Zenon DEF Delivered

(* The only process does not show what its handler showed, or is about to  *)
(* show.                                                                   *)
LEMMA EffectsAnswer ==
  ASSUME SlackIInv, Alone, NEW p \in Process, NEW l \in Loop, NEW y \in LoopState, NEW u,
         Effects(p, l, y, u), NEW r \in Run, AnswerOK(r)
  PROVE  AnswerOK(r)'
<1>1. /\ TypeOK /\ \A q \in Process, m \in Loop : LoopOK(m, at(q, m))
      /\ HandlerOK(r) /\ r \in Key /\ r \notin Note /\ r \notin Message /\ r # None
  BY Kinds, SlackAssumption DEF SlackIInv
<1>2. /\ slack'[r].live = slack[r].live
      /\ \/ slack'[r] = slack[r]
         \/ /\ r = at(p, l).cur /\ In(p, l, "post") /\ slack'[r].keyed
  <2>1. LoopOK(l, at(p, l))
    BY <1>1, Zenon
  <2> QED
    BY <1>1, <2>1, ShownBy, Zenon
<1>3. \A q \in Process, m \in Loop : at(q, m)' = IF q = p /\ m = l THEN y ELSE at(q, m)
  BY Zenon DEF Effects, Moves
<1>4. /\ age' = age /\ handler' = handler
      /\ handler[r].pc # "none" => handler[r].home \in Process
      /\ \A q \in Process : proc'[q].pins = proc[q].pins
  BY <1>1, Zenon DEF Effects, Moves, HandlerOK
<1>5. y.cur = r => \/ at(p, l).cur = r
                   \/ ~LeftToHandler(p, r) /\ y.pc \in {"ack", "preflight"}
  BY <1>1, Zenon DEF Effects, Takes
<1>6. NotBegun(r) /\ (LeftToHandler(p, r) \/ y.cur # r) => NotBegun(r)'
  BY <1>3, <1>5, Zenon DEF NotBegun
<1>7. NotBegun(r) => slack'[r] = slack[r]
  BY <1>2, Zenon DEF NotBegun
<1>8. age'[r] < Grace => slack'[r].copies = 0 /\ NotBegun(r)'
  BY <1>4, <1>6, <1>7, Zenon DEF AnswerOK, LeftToHandler
<1>9. ASSUME handler'[r].pc \in {"waiting", "reply", "refuse"} \/ slack'[r].live > 0
      PROVE  slack'[r].copies = 0 /\ (Pinned(r)' \/ Delivered(r)' \/ Marked(r)')
  <2>1. slack[r].copies = 0 /\ (Pinned(r) \/ Delivered(r) \/ Marked(r))
    BY <1>2, <1>4, <1>9, Zenon DEF AnswerOK
  <2>2. CASE Pinned(r)
    <3>1. handler[r].home \in Process /\ handler[r].home = p
      <4>1. handler[r].pc # "none"
        BY <1>1, <2>2, Zenon DEF Pinned, HandlerOK
      <4> QED
        BY <1>4, <4>1, Zenon DEF Alone
    <3>2. LeftToHandler(p, r)
      BY <2>2, <3>1, Zenon DEF Pinned, LeftToHandler
    <3> QED
      BY <1>4, <1>6, <1>7, <2>1, <2>2, <3>1, <3>2, Zenon DEF Pinned
  <2>3. CASE Delivered(r)
    <3>1. Delivered(r)'
      BY <1>1, <2>3, StaysDelivered, Zenon
    <3>2. at(p, l).cur # r
      BY <2>3, Zenon DEF Delivered, Busy
    <3> QED
      BY <1>2, <2>1, <3>1, <3>2, Zenon
  <2>4. CASE Marked(r)
    <3>1. slack'[r] = slack[r]
      BY <1>2, <2>4, Zenon DEF Marked, In
    <3>2. ASSUME y.cur = r PROVE y.pc \notin {"post", "scan"}
      <4>1. CASE at(p, l).cur # r
        BY <1>5, <3>2, <4>1, Zenon
      <4>2. CASE at(p, l).cur = r
        <5>1. at(p, l).pc \notin {"post", "scan"} /\ slack[r].keyed
          BY <2>4, <4>2, Zenon DEF Marked
        <5> QED
          BY <1>1, <3>2, <4>2, <5>1, Zenon DEF Effects, Posts
      <4> QED
        BY <4>1, <4>2
    <3> QED
      BY <1>3, <1>4, <2>1, <2>4, <3>1, <3>2, Zenon DEF Marked
  <2> QED
    BY <2>1, <2>2, <2>3, <2>4
<1> QED
  BY <1>8, <1>9, Zenon DEF AnswerOK

(* The only process does not post a message again that it has not lost     *)
(* from sight.                                                             *)
LEMMA EffectsMessage ==
  ASSUME SlackIInv, Alone, NEW p \in Process, NEW l \in Loop, NEW y \in LoopState, NEW u,
         Effects(p, l, y, u), NEW k \in Message, MessageOK(k),
         k \notin was'.unconfirmed \cup was'.forgotten
  PROVE  MessageOK(k)'
<1>1. /\ TypeOK /\ \A q \in Process, m \in Loop : LoopOK(m, at(q, m))
      /\ ShownOK(k) /\ k \in Key /\ k \notin Note /\ k \notin Run /\ k # None
      /\ slack[k].copies \in Nat /\ \A q \in Process : q = p
  <2>1. slack[k].copies \in Nat
    BY Kinds, Fields, Zenon DEF SlackIInv
  <2>2. k \in Key /\ k \notin Note /\ k \notin Run /\ k # None
    BY Kinds, SlackAssumption
  <2> QED
    BY <2>1, <2>2, Zenon DEF SlackIInv, Alone
<1>2. \/ slack'[k] = slack[k]
      \/ /\ k = at(p, l).cur /\ In(p, l, "post") /\ slack'[k].copies = slack[k].copies + 1
         /\ slack' # slack
  <2>1. LoopOK(l, at(p, l))
    BY <1>1, Zenon
  <2> QED
    BY <1>1, <2>1, ShownBy, Zenon
<1>3. \A q \in Process, m \in Loop : at(q, m)' = IF q = p /\ m = l THEN y ELSE at(q, m)
  BY Zenon DEF Effects, Moves
<1>4. ~slack[k].keyed => slack[k].copies = 0
  <2>1. ~slack[k].keyed => ~(slack[k].copies > 0)
    BY <1>1, Zenon DEF ShownOK
  <2> QED
    BY <1>1, <2>1
<1>5. \A m, mm \in Loop : Busy(p, m, k) /\ Busy(p, mm, k) => m = mm
  BY <1>1, Zenon DEF LoopOK, Busy
<1>6. slack[k].copies = 0 => ~(slack[k].copies > 0)
  OBVIOUS
(* The loop that shows k had not yet.                                      *)
<1>7. slack'[k] = slack[k] \/ (slack[k].copies = 0 /\ slack'[k].copies = 1)
  <2>1. ASSUME slack'[k] # slack[k] PROVE slack[k].copies = 0
    BY <1>2, <2>1, Zenon DEF MessageOK, Unposted
  <2>2. ASSUME slack'[k] # slack[k] PROVE slack'[k].copies = slack[k].copies + 1
    BY <1>2, <2>2, Zenon
  <2> QED
    BY <2>1, <2>2
<1>8. slack'[k].copies <= 1
  <2>1. slack'[k] = slack[k] => slack'[k].copies <= 1
    BY Zenon DEF MessageOK
  <2> QED
    BY <1>7, <2>1
(* Acknowledged, k is in no loop's hands.                                  *)
<1>9. ASSUME deliveries'[k].deliveredBy # "none" PROVE Delivered(k)'
  <2>1. CASE deliveries[k].deliveredBy # "none"
    BY <1>1, <2>1, StaysDelivered, Zenon DEF MessageOK
  <2>2. CASE deliveries[k].deliveredBy = "none"
    <3>1. k = at(p, l).cur /\ y.cur = None
      BY <1>1, <1>9, <2>2, Zenon DEF Effects, Acks
    <3>2. k \notin y.batch
      BY <3>1, Zenon DEF Effects, Takes
    <3>3. ASSUME NEW m \in Loop PROVE ~Busy(p, m, k)'
      <4>1. CASE m = l
        BY <1>1, <1>3, <3>1, <3>2, <4>1, Zenon DEF Busy
      <4>2. CASE m # l
        BY <1>3, <1>5, <3>1, <4>2, Zenon DEF Busy
      <4> QED
        BY <4>1, <4>2
    <3> QED
      BY <1>1, <1>9, <3>3, Zenon DEF Delivered
  <2> QED
    BY <2>1, <2>2
<1>10. ASSUME NEW m \in Loop, at(p, m)'.cur = k, Unposted(p, m)'
       PROVE  slack'[k].copies = 0
  <2>1. CASE m # l
    <3>1. at(p, m)' = at(p, m)
      BY <1>3, <2>1, Zenon
    <3>2. at(p, m).cur = k /\ Unposted(p, m)
      BY <1>10, <3>1, Zenon DEF Unposted, In
    <3>3. at(p, l).cur # k
      BY <1>5, <2>1, <3>2, Zenon DEF Busy
    <3> QED
      BY <1>2, <3>2, <3>3, Zenon DEF MessageOK
  <2>2. CASE m = l
    <3>1. y.cur = k /\ (y.pc = "post" \/ (y.pc = "scan" /\ ~y.landed))
      BY <1>3, <1>10, <2>2, Zenon DEF Unposted, In
    <3>2. CASE at(p, l).cur = k
      <4>1. slack' = slack
        BY <3>1, <3>2, Zenon DEF Effects, Posts
      <4>2. \/ ~slack[k].keyed
            \/ Unposted(p, l)
        BY <3>1, <3>2, Zenon DEF Effects, Posts, Unposted, In
      <4> QED
        BY <1>4, <3>2, <4>1, <4>2, Zenon DEF MessageOK
    <3>3. CASE at(p, l).cur # k
      <4>1. /\ slack' = slack /\ k \in at(p, l).batch /\ k \notin Range(proc[p].tracker.posted)
            /\ k \notin Range(proc[p].tracker.dead)
        BY <1>1, <3>1, <3>3, Zenon DEF Effects, Takes, givenUp
      <4>2. ~Delivered(k)
        BY <4>1, Zenon DEF Delivered, Busy
      <4>3. \A mm \in Loop : at(p, mm).cur # k
        BY <1>5, <3>3, <4>1, Zenon DEF Busy
      <4>4. ~(slack[k].copies > 0)
        BY <1>1, <4>1, <4>2, <4>3, Zenon DEF MessageOK
      <4> QED
        BY <1>1, <4>1, <4>4
    <3> QED
      BY <3>2, <3>3
  <2> QED
    BY <2>1, <2>2
<1>11. ASSUME slack'[k].copies > 0
       PROVE  \/ deliveries'[k].deliveredBy # "none"
              \/ k \in Known(proc'[p].tracker)
              \/ \E m \in Loop : at(p, m)'.cur = k /\ Landed(p, m)'
  <2>1. proc'[p].tracker = u /\ at(p, l)' = y
    BY <1>3, Zenon DEF Effects, Moves
  <2>2. CASE slack'[k] # slack[k]
    BY <1>2, <2>1, <2>2, Zenon DEF Effects, Posts, Landed, In
  <2>3. CASE slack'[k] = slack[k]
    <3>1. \/ deliveries[k].deliveredBy # "none"
          \/ k \in Known(proc[p].tracker)
          \/ \E m \in Loop : at(p, m).cur = k /\ Landed(p, m)
      BY <1>1, <1>11, <2>3, Zenon DEF MessageOK, Known
    <3>2. CASE deliveries[k].deliveredBy # "none"
      BY <1>1, <3>2, Zenon DEF Effects, Acks
    <3>3. CASE k \in Known(proc[p].tracker)
      BY <2>1, <3>3, Zenon DEF Effects, Remembers, Known
    <3>4. ASSUME NEW m \in Loop, at(p, m).cur = k, Landed(p, m)
          PROVE  k \in Known(u) \/ \E n \in Loop : at(p, n)'.cur = k /\ Landed(p, n)'
      <4>1. CASE m = l
        <5>1. slack[k].keyed
          BY <1>4, <1>6, <1>11, <2>3, Zenon
        <5> QED
          BY <3>4, <4>1, <5>1, Zenon DEF Effects, Remembers, Landed, In
      <4>2. CASE m # l
        BY <1>3, <3>4, <4>2, Zenon DEF Landed, In
      <4> QED
        BY <4>1, <4>2
    <3> QED
      BY <2>1, <3>1, <3>2, <3>3, <3>4, Zenon
  <2> QED
    BY <2>2, <2>3
<1> QED
  BY <1>1, <1>8, <1>9, <1>10, <1>11, Zenon DEF MessageOK, Known

-----------------------------------------------------------------------------
(* What a step of a loop leaves behind, and the types of what it changes   *)
(* beside the process.                                                     *)
WasOK == was \in [outlived: SUBSET Key, exposed: SUBSET Key, unconfirmed: SUBSET Key,
                  forgotten: SUBSET Key]
HistoryOK ==
  /\ slack \in [Key -> [copies: Nat, live: Nat, keyed: BOOLEAN]]
  /\ WasOK
  /\ faults \in 0..MaxFaults

(* The faults stay within their bound.                                     *)
LEMMA FaultType ==
  ASSUME TypeOK, NEW kind, Fault(kind) \/ faults' = faults
  PROVE  faults' \in 0..MaxFaults
  BY Kinds DEF Fault, TypeOK

(* Posting a message adds to what Slack shows of it.                       *)
LEMMA ShowType ==
  ASSUME TypeOK, NEW k \in Key, slack' = slack \/ Show(k)
  PROVE  slack' \in [Key -> [copies: Nat, live: Nat, keyed: BOOLEAN]]
<1>1. slack \in [Key -> [copies: Nat, live: Nat, keyed: BOOLEAN]]
  BY Zenon DEF TypeOK
<1>2. CASE Show(k)
  <2>1. PICK b \in BOOLEAN : b = (k \notin Note)
    BY Zenon
  <2> DEFINE row == [slack[k] EXCEPT !.copies = slack[k].copies + 1, !.keyed = b]
  <2>2. slack' = [slack EXCEPT ![k] = row]
    BY <1>2, <2>1, Zenon DEF Show
  <2>3. slack[k] \in [copies: Nat, live: Nat, keyed: BOOLEAN] /\ slack[k].copies + 1 \in Nat
    BY <1>1
  <2>4. row \in [copies: Nat, live: Nat, keyed: BOOLEAN]
    BY <2>1, <2>3, Zenon
  <2> HIDE DEF row
  <2> QED
    BY <1>1, <2>2, <2>4, Zenon
<1> QED
  BY <1>1, <1>2, Zenon

(* What a step puts on record.                                             *)
Records(p, u, unconfirmed) ==
  /\ WasOK' /\ was'.exposed = was.exposed /\ was'.outlived = was.outlived
  /\ was'.unconfirmed = was.unconfirmed \cup unconfirmed
  /\ was'.forgotten = was.forgotten \cup (Range(proc[p].tracker.dead) \ Range(u.dead))

(* What Track records in the history.                                      *)
LEMMA TrackWas ==
  ASSUME TypeOK, NEW p \in Process, NEW l \in Loop, NEW y, NEW u \in Tracker,
         NEW unconfirmed \in SUBSET Key, Track(p, l, y, u, unconfirmed)
  PROVE  Records(p, u, unconfirmed)
<1>1. WasOK
  BY Zenon DEF TypeOK, WasOK
<1>2. PICK f \in SUBSET Key : f = Range(proc[p].tracker.dead) \ Range(u.dead)
  <2>1. proc[p].tracker \in Tracker
    BY Fields, Zenon
  <2>2. proc[p].tracker.dead \in Seq(Key)
    BY <2>1, TrackerFields, Zenon
  <2>3. Range(proc[p].tracker.dead) \subseteq Key
    BY <2>2 DEF Range
  <2> QED
    BY <2>3, Zenon
<1>3. was' = [was EXCEPT !.unconfirmed = was.unconfirmed \cup unconfirmed,
                         !.forgotten = was.forgotten \cup f]
  BY <1>2, Zenon DEF Track
<1> QED
  BY <1>1, <1>2, <1>3, Zenon DEF WasOK, Records

(* The outbox left alone.                                                  *)
LEMMA SameRows ==
  ASSUME UNCHANGED storeVars, \A k \in Key : RowOK(k), NEW p, NEW l, NEW y
  PROVE  Acks(p, l, y)
<1>1. deliveries' = deliveries /\ acked' = acked
  BY Zenon DEF storeVars
<1>2. \A k \in Key : RowOK(k)'
  BY <1>1, Zenon DEF RowOK
<1> QED
  BY <1>1, <1>2, Zenon DEF Acks

(* The loop between two deliveries, and at the end of one.                 *)
LEMMA ReadyLoop ==
  ASSUME NEW p, NEW l \in Loop, at(p, l) \in LoopState, LoopOK(l, at(p, l))
  PROVE  LET y == Ready(p, l)
         IN /\ y \in LoopState /\ LoopOK(l, y) /\ y.pc = "next" /\ y.cur = None
            /\ y.batch = at(p, l).batch /\ y.batch \subseteq Key
<1> DEFINE y == Ready(p, l)
<1>1. at(p, l).batch \subseteq Key /\ \A k \in at(p, l).batch : l = typeOf(k)
  BY DEF LoopState, LoopOK
<1>2. 0 \in 0..(PostAttempts - 1)
  BY Kinds
<1>3. y \in LoopState /\ y.pc = "next" /\ y.cur = None /\ y.batch = at(p, l).batch
  BY <1>1, <1>2, Zenon DEF LoopState, Ready, IdleLoop
<1>4. LoopOK(l, y)
  BY <1>1, <1>3, Kinds DEF LoopOK, InHand
<1> QED
  BY <1>1, <1>3, <1>4

(* A loop that turns to a row of its batch is well formed.                 *)
LEMMA WorkLoop ==
  ASSUME NEW p, NEW l \in Loop, at(p, l) \in LoopState, LoopOK(l, at(p, l)),
         NEW k \in Key, k = at(p, l).cur \/ k \in at(p, l).batch,
         NEW pc \in {"preflight", "post", "ack"}, pc = "preflight" => k \in Run
  PROVE  LET y == AtWork(p, l, k, pc)
         IN /\ y \in LoopState /\ LoopOK(l, y) /\ y.pc = pc /\ y.cur = k
            /\ y.batch = at(p, l).batch \ {k} /\ ~y.landed
<1> DEFINE y == AtWork(p, l, k, pc)
<1>1. /\ at(p, l).batch \subseteq Key /\ \A q \in at(p, l).batch : l = typeOf(q)
      /\ l = typeOf(k)
  BY DEF LoopState, LoopOK
<1>2. at(p, l).batch \ {k} \in SUBSET Key
  BY <1>1, Zenon
<1>3. 0 \in 0..(PostAttempts - 1)
  BY Kinds
<1>4. /\ y \in LoopState /\ y.pc = pc /\ y.cur = k /\ y.batch = at(p, l).batch \ {k}
      /\ ~y.landed
  BY <1>1, <1>2, <1>3, Zenon DEF LoopState, AtWork, IdleLoop
<1>5. LoopOK(l, y)
  BY <1>1, <1>4, Kinds DEF LoopOK, InHand
<1> QED
  BY <1>4, <1>5

(* post(), the scan or the acknowledgement failed: what the tracker knew   *)
(* to be posted it still knows, or has given up.                           *)
LEMMA FailedEffects ==
  ASSUME SlackIInv, NEW p \in Process, NEW l \in Loop, at(p, l).cur \in Key,
         NEW unconfirmed \in SUBSET Key, Failed(p, l, unconfirmed),
         Acks(p, l, Ready(p, l)), UNCHANGED <<age, run, handler>>,
         \/ slack' = slack
         \/ In(p, l, "post") /\ Show(at(p, l).cur) /\ at(p, l).cur \in unconfirmed,
         In(p, l, "scan") /\ at(p, l).landed =>
           at(p, l).cur \in unconfirmed \/ ~slack[at(p, l).cur].keyed
  PROVE  /\ Effects(p, l, Ready(p, l), recordFailure(proc[p].tracker, at(p, l).cur))
         /\ WasOK'
<1>1. PICK x, t, y, u : /\ x = at(p, l) /\ t = proc[p].tracker
                        /\ y = Ready(p, l) /\ u = recordFailure(t, x.cur)
  BY Zenon
<1>2. TypeOK /\ x \in LoopState /\ t \in Tracker /\ LoopOK(l, x)
  BY <1>1, Fields, Zenon DEF SlackIInv
<1>3. y \in LoopState /\ LoopOK(l, y) /\ y.pc = "next" /\ y.cur = None /\ y.batch = x.batch
  BY <1>1, <1>2, ReadyLoop, Zenon
<1>4. /\ u \in Tracker /\ Range(u.posted) \subseteq Range(t.posted)
      /\ Range(t.posted) \subseteq Range(u.posted) \cup Range(u.dead)
  BY <1>1, <1>2, Recorded, Zenon
<1>5. Track(p, l, y, u, unconfirmed)
  BY <1>1, Zenon DEF Failed
<1>6. Moves(p, l, y, u)
  BY <1>2, <1>3, <1>4, <1>5, TrackMoves, Zenon
<1>7. Records(p, u, unconfirmed)
  BY <1>2, <1>4, <1>5, TrackWas, Zenon
<1>8. Takes(p, l, y)
  BY <1>1, <1>2, <1>3, Zenon DEF Takes, LoopOK
<1>9. Posts(p, l, y, u)
  BY <1>1, <1>3, <1>7, Zenon DEF Records, Posts, In
<1>10. Remembers(p, l, y, u)
  BY <1>1, <1>4, <1>7, Zenon DEF Records, Remembers, Known, In
<1> QED
  BY <1>1, <1>3, <1>6, <1>7, <1>8, <1>9, <1>10, Zenon DEF Records, Effects

(* post() returned.                                                        *)
LEMMA PostedEffects ==
  ASSUME SlackIInv, NEW p \in Process, NEW l \in Loop, NEW k \in Key, k = at(p, l).cur,
         Posted(p, l), UNCHANGED <<storeVars, age, run, handler>>,
         \/ slack' = slack /\ slack[k].keyed
         \/ In(p, l, "post") /\ Show(k)
  PROVE  /\ AtWork(p, l, k, "ack") \in LoopState
         /\ Effects(p, l, AtWork(p, l, k, "ack"), markPosted(proc[p].tracker, k))
         /\ WasOK'
<1>1. PICK x, t, y, u : /\ x = at(p, l) /\ t = proc[p].tracker
                        /\ y = AtWork(p, l, k, "ack") /\ u = markPosted(t, k)
  BY Zenon
<1>2. TypeOK /\ x \in LoopState /\ t \in Tracker /\ LoopOK(l, x) /\ ShownOK(k)
  BY <1>1, Fields, Zenon DEF SlackIInv
<1>3. y \in LoopState /\ LoopOK(l, y) /\ y.pc = "ack" /\ y.cur = k /\ y.batch = x.batch \ {k}
  <2>1. /\ "ack" \in {"preflight", "post", "ack"} /\ ("ack" = "preflight" => k \in Run)
        /\ k = at(p, l).cur \/ k \in at(p, l).batch
    BY Zenon
  <2>2. at(p, l) \in LoopState /\ LoopOK(l, at(p, l))
    BY <1>1, <1>2, Zenon
  <2>3. LET z == AtWork(p, l, k, "ack")
        IN /\ z \in LoopState /\ LoopOK(l, z) /\ z.pc = "ack" /\ z.cur = k
           /\ z.batch = at(p, l).batch \ {k} /\ ~z.landed
    BY ONLY <2>1, <2>2, WorkLoop, k \in Key, l \in Loop, Zenon
  <2> QED
    BY <1>1, <2>3, Zenon
<1>4. /\ u \in Tracker /\ Range(u.posted) \subseteq Range(t.posted) \cup {k}
      /\ Range(t.posted) \cup {k} \subseteq Range(u.posted) \cup Range(u.dead)
  BY <1>1, <1>2, MarkedPosted, Zenon
<1>5. Track(p, l, y, u, {})
  BY <1>1, Zenon DEF Posted
<1>6. Moves(p, l, y, u)
  BY <1>2, <1>3, <1>4, <1>5, TrackMoves, Zenon
<1>7. Records(p, u, {})
  <2>1. {} \in SUBSET Key
    BY Zenon
  <2> QED
    BY <1>2, <1>4, <1>5, <2>1, TrackWas, Zenon
<1>8. Takes(p, l, y)
  BY <1>1, <1>2, <1>3, Zenon DEF Takes, LoopOK
<1>9. Shown(k)'
  <2>1. slack' = slack \/ Show(k)
    BY Zenon
  <2>2. /\ \A q \in Key : Shown(q) => Shown(q)'
        /\ Show(k) => Shown(k)'
    BY <1>2, <2>1, StaysShown, Zenon
  <2> QED
    BY <1>2, <2>2, Zenon DEF ShownOK
<1>10. Posts(p, l, y, u)
  BY <1>1, <1>3, <1>4, <1>9, Zenon DEF Posts, In, Known
<1>11. Remembers(p, l, y, u)
  BY <1>1, <1>3, <1>4, <1>7, Zenon DEF Records, Remembers, Known, In
<1>12. Acks(p, l, y)
  BY SameRows, Zenon DEF SlackIInv
<1> QED
  BY <1>1, <1>3, <1>6, <1>7, <1>8, <1>10, <1>11, <1>12, Zenon DEF Records, Effects

(* The loop goes on with the delivery at hand.                             *)
LEMMA WorksEffects ==
  ASSUME SlackIInv, NEW p \in Process, NEW l \in Loop, at(p, l).cur \in Key,
         NEW y \in LoopState, y.cur = at(p, l).cur, y.batch = at(p, l).batch,
         y.pc \in {"post", "scan"}, y.pc = "scan" => y.cur \notin Note,
         Put(p, l, y), Posts(p, l, y, proc[p].tracker),
         UNCHANGED <<storeVars, age, run, handler, was>>,
         In(p, l, "scan") /\ at(p, l).landed => ~slack[at(p, l).cur].keyed
  PROVE  Effects(p, l, y, proc[p].tracker)
<1>1. TypeOK /\ LoopOK(l, at(p, l))
  BY Zenon DEF SlackIInv
<1>2. Moves(p, l, y, proc[p].tracker)
  BY <1>1, PutMoves, Zenon
<1>3. LoopOK(l, y)
  BY <1>1, Zenon DEF LoopOK, InHand
<1>4. Takes(p, l, y)
  BY <1>1, Zenon DEF Takes, LoopOK
<1>5. Remembers(p, l, y, proc[p].tracker)
  BY Zenon DEF Remembers, Known, In
<1>6. Acks(p, l, y)
  BY SameRows, Zenon DEF SlackIInv
<1> QED
  BY <1>2, <1>3, <1>4, <1>5, <1>6, Zenon DEF Effects

LoopEffect(p, l) ==
  (\E y \in LoopState : \E u : Effects(p, l, y, u)) /\ HistoryOK'

(* What is left as it was keeps its type.                                  *)
LEMMA HistoryKept ==
  ASSUME TypeOK, NEW k \in Key, slack' = slack \/ Show(k), NEW kind,
         Fault(kind) \/ faults' = faults,
         WasOK' \/ was' = was
  PROVE  HistoryOK'
<1>1. slack' \in [Key -> [copies: Nat, live: Nat, keyed: BOOLEAN]]
  BY ShowType, Zenon
<1>2. faults' \in 0..MaxFaults
  BY FaultType, Zenon
<1> QED
  BY <1>1, <1>2, Zenon DEF HistoryOK, WasOK, TypeOK

(* The history is untouched by what shows nothing.                         *)
LEMMA HistorySame ==
  ASSUME TypeOK, slack' = slack, was' = was, NEW kind, Fault(kind) \/ faults' = faults
  PROVE  HistoryOK'
<1>1. faults' \in 0..MaxFaults
  BY FaultType, Zenon
<1> QED
  BY <1>1, Zenon DEF HistoryOK, WasOK, TypeOK

(* claimPending yields rows of the loop's type.                            *)
LEMMA FetchEffect ==
  ASSUME SlackIInv, NEW p \in Process, NEW l \in Loop, fetch(p, l)
  PROVE  LoopEffect(p, l)
<1>1. PICK ks \in SUBSET D!Claimable(l) :
        /\ D!claimPending(l, ks) /\ Put(p, l, [IdleLoop EXCEPT !.pc = "next", !.batch = ks])
        /\ faults' = faults \/ Fault("claim")
  BY Zenon DEF fetch
<1>2. /\ In(p, l, "fetch") /\ age' = age /\ run' = run /\ handler' = handler
      /\ slack' = slack /\ was' = was
  BY Zenon DEF fetch
<1>3. TypeOK /\ LoopOK(l, at(p, l)) /\ \A k \in Key : RowOK(k)
  BY Zenon DEF SlackIInv
<1>4. D!TypeOK
  BY <1>3, Zenon DEF TypeOK
<1>5. /\ acked' = acked /\ ks \subseteq Key
      /\ \A q \in Key :
           /\ deliveries'[q].present = deliveries[q].present
           /\ deliveries'[q].type = deliveries[q].type
           /\ deliveries'[q].deliveredBy = deliveries[q].deliveredBy
           /\ IF q \in ks
                THEN /\ deliveries[q].claim = 0 /\ deliveries'[q].claim = ClaimTtl
                     /\ deliveries[q].present /\ deliveries[q].type = l
                     /\ deliveries[q].deliveredBy = "none"
                ELSE deliveries'[q].claim = deliveries[q].claim
  <2>1. D!claimPending(l, ks)
    BY <1>1, Zenon
  <2> QED
    BY <1>4, <2>1, ClaimedRows
<1>6. ClaimTtl > 0
  BY Kinds
<1>7. PICK y \in LoopState : /\ y = [IdleLoop EXCEPT !.pc = "next", !.batch = ks]
                             /\ y.pc = "next" /\ y.cur = None /\ y.batch = ks
  <2>1. 0 \in 0..(PostAttempts - 1)
    BY Kinds
  <2> DEFINE z == [IdleLoop EXCEPT !.pc = "next", !.batch = ks]
  <2>2. z \in LoopState /\ z.pc = "next" /\ z.cur = None /\ z.batch = ks
    BY <1>5, <2>1, Zenon DEF LoopState, IdleLoop
  <2> QED
    BY <2>2, Zenon
<1>8. LoopOK(l, y)
  <2>1. \A k \in ks : l = typeOf(k)
    BY <1>3, <1>5, Zenon DEF RowOK, Loop
  <2>2. None \notin Key /\ y.cur \notin Key /\ y.cur \notin y.batch
    BY <1>5, <1>7, Kinds, Zenon
  <2> QED
    BY <1>7, <2>1, <2>2, Zenon DEF LoopOK, InHand
<1>9. Moves(p, l, y, proc[p].tracker)
  BY <1>1, <1>3, <1>7, PutMoves, Zenon
<1>10. Takes(p, l, y)
  <2>1. at(p, l).cur \notin Key
    BY <1>2, <1>3, Zenon DEF LoopOK, InHand, In
  <2> QED
    BY <1>5, <1>6, <1>7, <2>1, Zenon DEF Takes
<1>11. Acks(p, l, y)
  <2>1. \A k \in Key : RowOK(k)'
    BY <1>3, <1>5, Zenon DEF RowOK
  <2>2. \A k \in Key : deliveries[k].claim > 0 => deliveries'[k].claim > 0
    BY <1>5, <1>6, Zenon
  <2> QED
    BY <1>5, <2>1, <2>2, Zenon DEF Acks
<1>12. Posts(p, l, y, proc[p].tracker) /\ Remembers(p, l, y, proc[p].tracker)
  BY <1>2, <1>7, Zenon DEF Posts, Remembers, Known, In
<1>13. HistoryOK'
  BY <1>1, <1>2, <1>3, HistorySame, Zenon
<1> QED
  BY <1>2, <1>8, <1>9, <1>10, <1>11, <1>12, <1>13, Zenon DEF Effects, LoopEffect

(* The end of a poll leaves the loop with nothing in hand.                 *)
LEMMA EndEffect ==
  ASSUME SlackIInv, NEW p \in Process, NEW l \in Loop, endPoll(p, l)
  PROVE  LoopEffect(p, l)
<1>1. /\ In(p, l, "next") /\ at(p, l).batch = {} /\ Put(p, l, IdleLoop) /\ faults' = faults
      /\ UNCHANGED storeVars /\ UNCHANGED <<age, run, handler, slack, was>>
  BY Zenon DEF endPoll
<1>2. TypeOK /\ LoopOK(l, at(p, l)) /\ \A k \in Key : RowOK(k)
  BY Zenon DEF SlackIInv
<1>3. PICK y \in LoopState : y = IdleLoop /\ y.pc = "idle" /\ y.cur = None /\ y.batch = {}
  <2>1. 0 \in 0..(PostAttempts - 1)
    BY Kinds
  <2>2. /\ IdleLoop \in LoopState
        /\ IdleLoop.pc = "idle" /\ IdleLoop.cur = None /\ IdleLoop.batch = {}
    BY <2>1, Zenon DEF LoopState, IdleLoop
  <2> QED
    BY <2>2, Zenon
<1>4. LoopOK(l, y)
  BY <1>3, Kinds, Zenon DEF LoopOK, InHand
<1>5. Moves(p, l, y, proc[p].tracker)
  BY <1>1, <1>2, <1>3, PutMoves, Zenon
<1>6. Takes(p, l, y)
  BY <1>3, Zenon DEF Takes
<1>7. Acks(p, l, y)
  BY <1>1, <1>2, SameRows, Zenon
<1>8. Posts(p, l, y, proc[p].tracker) /\ Remembers(p, l, y, proc[p].tracker)
  BY <1>1, <1>3, Zenon DEF Posts, Remembers, Known, In
<1>9. HistoryOK'
  BY <1>1, <1>2, HistorySame, Zenon
<1> QED
  BY <1>1, <1>4, <1>5, <1>6, <1>7, <1>8, <1>9, Zenon DEF Effects, LoopEffect

(* A delivery is passed over.                                              *)
LEMMA SkipEffect ==
  ASSUME SlackIInv, NEW p \in Process, NEW l \in Loop, NEW k \in at(p, l).batch, In(p, l, "next"),
         Put(p, l, [Ready(p, l) EXCEPT !.batch = @ \ {k}]),
         UNCHANGED <<storeVars, age, run, handler, slack, was, faults>>
  PROVE  LoopEffect(p, l)
<1>1. UNCHANGED storeVars /\ UNCHANGED <<age, run, handler, slack, was, faults>>
  BY Zenon
<1>2. TypeOK /\ LoopOK(l, at(p, l)) /\ at(p, l) \in LoopState /\ \A q \in Key : RowOK(q)
  BY Fields, Zenon DEF SlackIInv
<1>3. /\ Ready(p, l) \in LoopState /\ Ready(p, l).pc = "next" /\ Ready(p, l).cur = None
      /\ Ready(p, l).batch = at(p, l).batch /\ Ready(p, l).batch \subseteq Key
  BY <1>2, ReadyLoop, Zenon
<1>4. PICK y \in LoopState : /\ y = [Ready(p, l) EXCEPT !.batch = @ \ {k}]
                             /\ y.pc = "next" /\ y.cur = None /\ y.batch = at(p, l).batch \ {k}
  <2> DEFINE z == [Ready(p, l) EXCEPT !.batch = Ready(p, l).batch \ {k}]
  <2>1. Ready(p, l).batch \ {k} \in SUBSET Key
    BY <1>3, Zenon
  <2>2. z \in LoopState /\ z.pc = "next" /\ z.cur = None /\ z.batch = at(p, l).batch \ {k}
    BY <1>3, <2>1, Zenon DEF LoopState
  <2> QED
    BY <2>2, Zenon
<1>5. LoopOK(l, y)
  <2>1. None \notin Key /\ y.batch \subseteq Key
    BY <1>3, <1>4, Kinds, Zenon
  <2> QED
    BY <1>2, <1>4, <2>1, Zenon DEF LoopOK, InHand
<1>6. Moves(p, l, y, proc[p].tracker)
  BY <1>2, <1>4, PutMoves, Zenon
<1>7. Takes(p, l, y)
  BY <1>2, <1>4, Zenon DEF Takes, LoopOK
<1>8. Acks(p, l, y)
  BY <1>1, <1>2, SameRows, Zenon
<1>9. Posts(p, l, y, proc[p].tracker) /\ Remembers(p, l, y, proc[p].tracker)
  BY <1>1, <1>4, Zenon DEF Posts, Remembers, Known, In
<1>10. HistoryOK'
  BY <1>1, <1>2, HistorySame, Zenon
<1> QED
  BY <1>1, <1>5, <1>6, <1>7, <1>8, <1>9, <1>10, Zenon DEF Effects, LoopEffect

(* A delivery is begun: with its acknowledgement, if the tracker knows it  *)
(* to be posted.                                                           *)
LEMMA BeginEffect ==
  ASSUME SlackIInv, NEW p \in Process, NEW l \in Loop, NEW k \in at(p, l).batch, In(p, l, "next"),
         ~LeftToHandler(p, k), ~givenUp(proc[p].tracker, k),
         NEW pc, pc = IF k \in Range(proc[p].tracker.posted) THEN "ack"
                      ELSE IF k \in Run THEN "preflight" ELSE "post",
         Put(p, l, AtWork(p, l, k, pc)),
         UNCHANGED <<storeVars, age, run, handler, slack, was, faults>>
  PROVE  LoopEffect(p, l)
<1>1. UNCHANGED storeVars /\ UNCHANGED <<age, run, handler, slack, was, faults>>
  BY Zenon
<1>2. /\ TypeOK /\ LoopOK(l, at(p, l)) /\ at(p, l) \in LoopState /\ \A q \in Key : RowOK(q)
      /\ PostedOK(p)
  BY Fields, Zenon DEF SlackIInv
<1>3. k \in Key /\ k # None /\ k # at(p, l).cur
  <2>1. at(p, l).batch \subseteq Key
    BY <1>2, Zenon DEF LoopState
  <2> QED
    BY <1>2, <2>1, Kinds, Zenon DEF LoopOK
<1>4. PICK y \in LoopState : /\ y = AtWork(p, l, k, pc) /\ LoopOK(l, y)
                             /\ y.pc = pc /\ y.cur = k /\ y.batch = at(p, l).batch \ {k}
  <2>1. /\ pc \in {"preflight", "post", "ack"} /\ (pc = "preflight" => k \in Run)
        /\ k = at(p, l).cur \/ k \in at(p, l).batch
    BY Zenon
  <2>2. at(p, l) \in LoopState /\ LoopOK(l, at(p, l)) /\ k \in Key
    BY <1>2, <1>3, Zenon
  <2>3. LET z == AtWork(p, l, k, pc)
        IN /\ z \in LoopState /\ LoopOK(l, z) /\ z.pc = pc /\ z.cur = k
           /\ z.batch = at(p, l).batch \ {k} /\ ~z.landed
    BY ONLY <2>1, <2>2, WorkLoop, l \in Loop, SMT
  <2> QED
    BY <2>3, Zenon
<1>5. Moves(p, l, y, proc[p].tracker)
  BY <1>2, <1>4, PutMoves, Zenon
<1>6. Takes(p, l, y)
  BY <1>1, <1>2, <1>3, <1>4, Zenon DEF Takes, LoopOK
<1>7. Acks(p, l, y)
  BY <1>1, <1>2, SameRows, Zenon
<1>8. y.pc = "ack" => Shown(k)'
  <2>1. y.pc = "ack" => Shown(k)
    BY <1>2, <1>4, Zenon DEF PostedOK
  <2> QED
    BY <1>1, <2>1, Zenon DEF Shown
<1>9. Posts(p, l, y, proc[p].tracker)
  BY <1>1, <1>3, <1>4, <1>8, Zenon DEF Posts, In
<1>10. Remembers(p, l, y, proc[p].tracker)
  BY <1>1, Zenon DEF Remembers, Known, In
<1>11. HistoryOK'
  BY <1>1, <1>2, HistorySame, Zenon
<1> QED
  BY <1>1, <1>4, <1>5, <1>6, <1>7, <1>9, <1>10, <1>11, Zenon DEF Effects, LoopEffect

(* The loop passes a row over or turns to it.                              *)
LEMMA NextEffect ==
  ASSUME SlackIInv, NEW p \in Process, NEW l \in Loop, NEW k \in at(p, l).batch, next(p, l, k)
  PROVE  LoopEffect(p, l)
<1>1. /\ In(p, l, "next") /\ UNCHANGED <<storeVars, age, run, handler, slack, was, faults>>
      /\ \/ Put(p, l, [Ready(p, l) EXCEPT !.batch = @ \ {k}])
         \/ /\ ~LeftToHandler(p, k) /\ ~givenUp(proc[p].tracker, k)
            /\ Put(p, l, AtWork(p, l, k, IF k \in Range(proc[p].tracker.posted) THEN "ack"
                                         ELSE IF k \in Run THEN "preflight" ELSE "post"))
  BY Zenon DEF next
<1>2. CASE Put(p, l, [Ready(p, l) EXCEPT !.batch = @ \ {k}])
  BY <1>1, <1>2, SkipEffect, Zenon
<1>3. CASE ~Put(p, l, [Ready(p, l) EXCEPT !.batch = @ \ {k}])
  BY <1>1, <1>3, BeginEffect, Zenon
<1> QED
  BY <1>2, <1>3

(* The verification before the post: found, not found, failed.             *)
LEMMA PreflightEffect ==
  ASSUME SlackIInv, NEW p \in Process, NEW l \in Loop, preflight(p, l)
  PROVE  LoopEffect(p, l)
<1>1. /\ In(p, l, "preflight") /\ UNCHANGED <<storeVars, age, run, handler>> /\ slack' = slack
      /\ UNCHANGED storeVars /\ UNCHANGED <<age, run, handler>>
  BY Zenon DEF preflight
<1>2. TypeOK /\ LoopOK(l, at(p, l)) /\ at(p, l) \in LoopState /\ \A q \in Key : RowOK(q)
  BY Fields, Zenon DEF SlackIInv
<1>3. at(p, l).cur \in Key
  BY <1>1, <1>2, Zenon DEF LoopOK, InHand, In
<1>4. CASE Scanned(at(p, l).cur) /\ Posted(p, l) /\ faults' = faults
  BY <1>1, <1>2, <1>3, <1>4, PostedEffects, HistoryKept, Zenon DEF Scanned, LoopEffect
<1>5. CASE Fault("scan") /\ Failed(p, l, {})
  <2>1. Acks(p, l, Ready(p, l)) /\ {} \in SUBSET Key /\ ~In(p, l, "scan")
    BY <1>1, <1>2, SameRows, Zenon DEF In
  <2>2. Ready(p, l) \in LoopState
    BY <1>2, ReadyLoop, Zenon
  <2>3. /\ Effects(p, l, Ready(p, l), recordFailure(proc[p].tracker, at(p, l).cur))
        /\ WasOK'
    BY <1>1, <1>3, <1>5, <2>1, FailedEffects, Zenon
  <2> QED
    BY <1>1, <1>2, <1>3, <1>5, <2>2, <2>3, HistoryKept, Zenon DEF LoopEffect
<1>6. CASE /\ ~Scanned(at(p, l).cur) /\ Put(p, l, [at(p, l) EXCEPT !.pc = "post"])
           /\ UNCHANGED <<was, faults>>
  <2>1. PICK y \in LoopState : /\ y = [at(p, l) EXCEPT !.pc = "post"] /\ y.pc = "post"
                               /\ y.cur = at(p, l).cur /\ y.batch = at(p, l).batch
    <3> DEFINE z == [at(p, l) EXCEPT !.pc = "post"]
    <3>1. z \in LoopState /\ z.pc = "post" /\ z.cur = at(p, l).cur /\ z.batch = at(p, l).batch
      BY <1>2, Zenon DEF LoopState
    <3> QED
      BY <3>1, Zenon
  <2>2. Posts(p, l, y, proc[p].tracker)
    BY <1>1, <1>6, <2>1, Zenon DEF Posts, Scanned
  <2>3. ~In(p, l, "scan") /\ Put(p, l, y) /\ UNCHANGED <<storeVars, age, run, handler, was>>
    BY <1>1, <1>6, <2>1, Zenon DEF In
  <2>4. Effects(p, l, y, proc[p].tracker)
    BY <1>3, <2>1, <2>2, <2>3, WorksEffects, Zenon
  <2> QED
    BY <1>1, <1>2, <1>6, <2>4, HistorySame, Zenon DEF LoopEffect
<1> QED
  BY <1>4, <1>5, <1>6, Zenon DEF preflight

(* The loop goes on or fails.                                              *)
LEMMA AgainEffect ==
  ASSUME SlackIInv, NEW p \in Process, NEW l \in Loop, at(p, l).cur \in Key, Again(p, l),
         UNCHANGED <<storeVars, age, run, handler>>, slack' = slack,
         \/ In(p, l, "post")
         \/ /\ In(p, l, "scan")
            /\ ~slack[at(p, l).cur].keyed \/ (at(p, l).cur \in Message /\ ~at(p, l).landed)
  PROVE  (\E y \in LoopState : \E u : Effects(p, l, y, u)) /\ WasOK'
<1>1. TypeOK /\ LoopOK(l, at(p, l)) /\ at(p, l) \in LoopState /\ \A q \in Key : RowOK(q)
  BY Fields, Zenon DEF SlackIInv
<1>2. /\ UNCHANGED storeVars /\ UNCHANGED <<age, run, handler>>
      /\ In(p, l, "scan") /\ at(p, l).landed => ~slack[at(p, l).cur].keyed
  BY Zenon DEF In
<1>3. CASE at(p, l).attempt + 1 >= PostAttempts
  <2>1. Acks(p, l, Ready(p, l)) /\ {} \in SUBSET Key /\ Failed(p, l, {})
    BY <1>1, <1>2, <1>3, SameRows, Zenon DEF Again
  <2>2. Ready(p, l) \in LoopState
    BY <1>1, ReadyLoop, Zenon
  <2>3. /\ Effects(p, l, Ready(p, l), recordFailure(proc[p].tracker, at(p, l).cur))
        /\ WasOK'
    BY <1>2, <2>1, FailedEffects, Zenon
  <2> QED
    BY <2>2, <2>3, Zenon
<1>4. CASE ~(at(p, l).attempt + 1 >= PostAttempts)
  <2>1. PICK n : n = at(p, l).attempt + 1
    BY Zenon
  <2>2. n \in 0..(PostAttempts - 1)
    <3>1. at(p, l).attempt \in 0..(PostAttempts - 1)
      BY <1>1, Zenon DEF LoopState
    <3> QED
      BY <1>4, <2>1, <3>1, Kinds
  <2>3. Put(p, l, [at(p, l) EXCEPT !.pc = "post", !.attempt = n]) /\ was' = was
    BY <1>4, <2>1, Zenon DEF Again
  <2>4. PICK y \in LoopState : /\ y = [at(p, l) EXCEPT !.pc = "post", !.attempt = n]
                               /\ y.pc = "post" /\ y.cur = at(p, l).cur /\ y.batch = at(p, l).batch
    <3> DEFINE z == [at(p, l) EXCEPT !.pc = "post", !.attempt = n]
    <3>1. z \in LoopState /\ z.pc = "post" /\ z.cur = at(p, l).cur /\ z.batch = at(p, l).batch
      BY <1>1, <2>2, Zenon DEF LoopState
    <3> QED
      BY <3>1, Zenon
  <2>5. Posts(p, l, y, proc[p].tracker)
    BY <2>4, Zenon DEF Posts, In
  <2>6. Put(p, l, y) /\ UNCHANGED <<storeVars, age, run, handler, was>>
    BY <2>3, <2>4, Zenon
  <2>7. Effects(p, l, y, proc[p].tracker)
    BY <1>2, <2>4, <2>5, <2>6, WorksEffects, Zenon
  <2> QED
    BY <1>1, <2>3, <2>7, Zenon DEF WasOK, TypeOK
<1> QED
  BY <1>3, <1>4

(* An error that leaves it open whether the message was shown.             *)
LEMMA UnknownEffect ==
  ASSUME SlackIInv, NEW p \in Process, NEW l \in Loop, at(p, l).cur \in Key, In(p, l, "post"),
         NEW landed \in BOOLEAN, Unknown(p, l, landed),
         UNCHANGED <<storeVars, age, run, handler>>, slack' = slack \/ (Show(at(p, l).cur) /\ landed)
  PROVE  (\E y \in LoopState : \E u : Effects(p, l, y, u)) /\ WasOK'
<1>1. TypeOK /\ LoopOK(l, at(p, l)) /\ at(p, l) \in LoopState /\ \A q \in Key : RowOK(q)
  BY Fields, Zenon DEF SlackIInv
<1>2. UNCHANGED storeVars /\ UNCHANGED <<age, run, handler>> /\ ~In(p, l, "scan")
  BY Zenon DEF In
<1>3. CASE at(p, l).cur \in Note
  <2>1. Acks(p, l, Ready(p, l)) /\ {at(p, l).cur} \in SUBSET Key /\ Failed(p, l, {at(p, l).cur})
    BY <1>1, <1>2, <1>3, SameRows, Zenon DEF Unknown
  <2>2. Ready(p, l) \in LoopState
    BY <1>1, ReadyLoop, Zenon
  <2>3. slack' = slack \/ (In(p, l, "post") /\ Show(at(p, l).cur) /\ at(p, l).cur \in {at(p, l).cur})
    BY Zenon
  <2>4. /\ Effects(p, l, Ready(p, l), recordFailure(proc[p].tracker, at(p, l).cur))
        /\ WasOK'
    BY <1>2, <2>1, <2>3, FailedEffects, Zenon
  <2> QED
    BY <2>2, <2>4, Zenon
<1>4. CASE at(p, l).cur \notin Note
  <2>1. PICK b \in BOOLEAN : b = (at(p, l).landed \/ landed)
    BY Zenon
  <2>2. Put(p, l, [at(p, l) EXCEPT !.pc = "scan", !.landed = b]) /\ was' = was
    BY <1>4, <2>1, Zenon DEF Unknown
  <2>3. PICK y \in LoopState : /\ y = [at(p, l) EXCEPT !.pc = "scan", !.landed = b]
                               /\ y.pc = "scan" /\ y.cur = at(p, l).cur /\ y.batch = at(p, l).batch
                               /\ y.landed = b
    <3> DEFINE z == [at(p, l) EXCEPT !.pc = "scan", !.landed = b]
    <3>1. /\ z \in LoopState /\ z.pc = "scan" /\ z.cur = at(p, l).cur /\ z.batch = at(p, l).batch
          /\ z.landed = b
      BY <1>1, <2>1, Zenon DEF LoopState
    <3> QED
      BY <3>1, Zenon
  <2>4. landed => y.landed
    BY <2>1, <2>3, Zenon
  <2>5. Posts(p, l, y, proc[p].tracker)
    BY <2>3, <2>4, Zenon DEF Posts, In
  <2>6. Put(p, l, y) /\ UNCHANGED <<storeVars, age, run, handler, was>>
    BY <2>2, <2>3, Zenon
  <2>7. Effects(p, l, y, proc[p].tracker)
    BY <1>2, <1>4, <2>3, <2>5, <2>6, WorksEffects, Zenon
  <2> QED
    BY <1>1, <2>2, <2>7, Zenon DEF WasOK, TypeOK
<1> QED
  BY <1>3, <1>4

(* chat.postMessage, in its five outcomes.                                 *)
LEMMA PostEffect ==
  ASSUME SlackIInv, NEW p \in Process, NEW l \in Loop, post(p, l)
  PROVE  LoopEffect(p, l)
<1> DEFINE k == at(p, l).cur
<1>1. /\ In(p, l, "post") /\ UNCHANGED <<storeVars, age, run, handler>>
      /\ UNCHANGED storeVars /\ UNCHANGED <<age, run, handler>>
  BY Zenon DEF post
<1>2. TypeOK /\ LoopOK(l, at(p, l)) /\ at(p, l) \in LoopState /\ \A q \in Key : RowOK(q)
  BY Fields, Zenon DEF SlackIInv
<1>3. k \in Key /\ ~In(p, l, "scan")
  BY <1>1, <1>2, Zenon DEF LoopOK, InHand, In
<1>4. CASE Show(k) /\ Posted(p, l) /\ faults' = faults
  BY <1>1, <1>2, <1>3, <1>4, PostedEffects, HistoryKept, Zenon DEF LoopEffect
<1>5. CASE Fault("post") /\ Failed(p, l, {}) /\ slack' = slack
  <2>1. Acks(p, l, Ready(p, l)) /\ {} \in SUBSET Key
    BY <1>1, <1>2, SameRows, Zenon
  <2>2. Ready(p, l) \in LoopState
    BY <1>2, ReadyLoop, Zenon
  <2>3. /\ Effects(p, l, Ready(p, l), recordFailure(proc[p].tracker, k))
        /\ WasOK'
    BY <1>1, <1>3, <1>5, <2>1, FailedEffects, Zenon
  <2> QED
    BY <1>2, <1>3, <1>5, <2>2, <2>3, HistoryKept, Zenon DEF LoopEffect
<1>6. CASE Fault("post") /\ Again(p, l) /\ slack' = slack
  <2>1. (\E y \in LoopState : \E u : Effects(p, l, y, u)) /\ WasOK'
    BY <1>1, <1>3, <1>6, AgainEffect, Zenon
  <2> QED
    BY <1>2, <1>3, <1>6, <2>1, HistoryKept, Zenon DEF LoopEffect
<1>7. ASSUME NEW landed \in BOOLEAN, Fault("post"), Unknown(p, l, landed),
             slack' = slack \/ (Show(k) /\ landed)
      PROVE  LoopEffect(p, l)
  <2>1. (\E y \in LoopState : \E u : Effects(p, l, y, u)) /\ WasOK'
    BY <1>1, <1>3, <1>7, UnknownEffect, Zenon
  <2> QED
    BY <1>2, <1>3, <1>7, <2>1, HistoryKept, Zenon DEF LoopEffect
<1>8. /\ Fault("post") /\ Show(k) /\ Unknown(p, l, TRUE) => LoopEffect(p, l)
      /\ Fault("post") /\ Unknown(p, l, FALSE) /\ slack' = slack => LoopEffect(p, l)
  BY <1>7, Zenon
<1> QED
  BY <1>4, <1>5, <1>6, <1>8, Zenon DEF post

(* findPostedByKey after such an error.                                    *)
LEMMA ScanEffect ==
  ASSUME SlackIInv, NEW p \in Process, NEW l \in Loop, scan(p, l)
  PROVE  LoopEffect(p, l)
<1> DEFINE k == at(p, l).cur
<1>1. /\ In(p, l, "scan") /\ UNCHANGED <<storeVars, age, run, handler>> /\ slack' = slack
      /\ UNCHANGED storeVars /\ UNCHANGED <<age, run, handler>>
  BY Zenon DEF scan
<1>2. TypeOK /\ LoopOK(l, at(p, l)) /\ at(p, l) \in LoopState /\ \A q \in Key : RowOK(q)
  BY Fields, Zenon DEF SlackIInv
<1>3. k \in Key
  BY <1>1, <1>2, Zenon DEF LoopOK, InHand, In
<1>4. CASE Scanned(k) /\ Posted(p, l) /\ faults' = faults
  BY <1>1, <1>2, <1>3, <1>4, PostedEffects, HistoryKept, Zenon DEF Scanned, LoopEffect
<1>5. CASE Fault("scan") /\ Failed(p, l, {k})
  <2>1. Acks(p, l, Ready(p, l)) /\ {k} \in SUBSET Key /\ k \in {k}
    BY <1>1, <1>2, <1>3, SameRows, Zenon
  <2>2. Ready(p, l) \in LoopState
    BY <1>2, ReadyLoop, Zenon
  <2>3. /\ Effects(p, l, Ready(p, l), recordFailure(proc[p].tracker, k))
        /\ WasOK'
    BY <1>1, <1>3, <1>5, <2>1, FailedEffects, Zenon
  <2> QED
    BY <1>1, <1>2, <1>3, <1>5, <2>2, <2>3, HistoryKept, Zenon DEF LoopEffect
<1>6. CASE /\ ~Scanned(k) \/ (k \in Message /\ ~at(p, l).landed)
           /\ Again(p, l) /\ faults' = faults
  <2>1. (\E y \in LoopState : \E u : Effects(p, l, y, u)) /\ WasOK'
    BY <1>1, <1>3, <1>6, AgainEffect, Zenon DEF Scanned
  <2> QED
    BY <1>1, <1>2, <1>3, <1>6, <2>1, HistoryKept, Zenon DEF LoopEffect
<1> QED
  BY <1>4, <1>5, <1>6, Zenon DEF scan

(* The statement of an acknowledgement.                                    *)
LEMMA AcknowledgeRows ==
  ASSUME TypeOK, \A q \in Key : RowOK(q), NEW k \in Key, acknowledge(k)
  PROVE  \A q \in Key :
           /\ RowOK(q)' /\ deliveries'[q].claim = deliveries[q].claim
           /\ q # k => deliveries'[q].deliveredBy = deliveries[q].deliveredBy /\ acked'[q] = acked[q]
           /\ q = k => deliveries'[q].deliveredBy # "none"
<1>1. PICK by \in {"ack", "recipientThread"} :
        (D!ack(k) /\ by = "ack") \/ (D!recordRecipientThread(k) /\ by = "recipientThread")
  BY Zenon DEF acknowledge
<1>2. D!TypeOK
  BY Zenon DEF TypeOK
<1>3. \A q \in Key :
        /\ deliveries'[q].present = deliveries[q].present
        /\ deliveries'[q].type = deliveries[q].type
        /\ deliveries'[q].claim = deliveries[q].claim
        /\ deliveries'[q].deliveredBy = IF q = k /\ deliveries[q].deliveredBy = "none"
                                          THEN by ELSE deliveries[q].deliveredBy
        /\ acked'[q] = IF q = k /\ acked[q] = "none" THEN by ELSE acked[q]
  BY <1>1, <1>2, AckedRows, Zenon
<1>4. deliveries[k].present
  BY <1>1, Zenon DEF D!ack, D!recordRecipientThread
<1>5. by # "none"
  BY Zenon
<1>6. ASSUME NEW q \in Key PROVE RowOK(q)'
  <2>1. CASE q = k
    BY <1>3, <1>4, <2>1, Zenon DEF RowOK
  <2>2. CASE q # k
    BY <1>3, <2>2, Zenon DEF RowOK
  <2> QED
    BY <2>1, <2>2
<1> QED
  BY <1>3, <1>5, <1>6, Zenon

(* The acknowledgement succeeds, or fails before or after its statement.   *)
LEMMA AckEffect ==
  ASSUME SlackIInv, NEW p \in Process, NEW l \in Loop, ack(p, l)
  PROVE  LoopEffect(p, l)
<1>1. PICK k, t, y : k = at(p, l).cur /\ t = proc[p].tracker /\ y = Ready(p, l)
  BY Zenon
<1>2. In(p, l, "ack") /\ UNCHANGED <<age, run, handler>> /\ slack' = slack
  BY Zenon DEF ack
<1>3. /\ TypeOK /\ LoopOK(l, at(p, l)) /\ at(p, l) \in LoopState /\ \A q \in Key : RowOK(q)
      /\ t \in Tracker
  BY <1>1, Fields, Zenon DEF SlackIInv
<1>4. k \in Key /\ ~In(p, l, "scan")
  BY <1>1, <1>2, <1>3, Zenon DEF LoopOK, InHand, In
<1>5. /\ y \in LoopState /\ LoopOK(l, y) /\ y.pc = "next" /\ y.cur = None
      /\ y.batch = at(p, l).batch
  BY <1>1, <1>3, ReadyLoop, Zenon
<1>6. ASSUME acknowledge(k)
      PROVE  Acks(p, l, y) /\ deliveries'[k].deliveredBy # "none"
  <2>1. \A q \in Key :
          /\ RowOK(q)' /\ deliveries'[q].claim = deliveries[q].claim
          /\ q # k => deliveries'[q].deliveredBy = deliveries[q].deliveredBy /\ acked'[q] = acked[q]
          /\ q = k => deliveries'[q].deliveredBy # "none"
    BY <1>3, <1>4, <1>6, AcknowledgeRows, Zenon
  <2> QED
    BY <1>1, <1>2, <1>4, <1>5, <2>1, Zenon DEF Acks
<1>7. CASE /\ acknowledge(k) /\ faults' = faults /\ Track(p, l, y, clear(t, k), {})
  <2>1. PICK u : u = clear(t, k)
    BY Zenon
  <2>2. /\ u \in Tracker /\ u.dead = t.dead /\ Range(u.posted) \subseteq Range(t.posted)
        /\ Range(t.posted) \ {k} \subseteq Range(u.posted)
    BY <1>3, <1>4, <2>1, Cleared, Zenon
  <2>3. Track(p, l, y, u, {})
    BY <1>7, <2>1, Zenon
  <2>4. Moves(p, l, y, u)
    BY <1>3, <1>5, <2>2, <2>3, TrackMoves, Zenon
  <2>5. Records(p, u, {})
    <3>1. TypeOK /\ u \in Tracker /\ {} \in SUBSET Key
      BY <1>3, <2>2, Zenon
    <3> QED
      BY <2>3, <3>1, TrackWas, Zenon
  <2>6. Takes(p, l, y)
    BY <1>3, <1>5, Zenon DEF Takes, LoopOK
  <2>7. Posts(p, l, y, u)
    BY <1>2, <1>5, Zenon DEF Posts
  <2>8. Remembers(p, l, y, u)
    BY <1>1, <1>4, <1>6, <1>7, <2>2, <2>5, Zenon DEF Records, Remembers, Known, In
  <2>9. HistoryOK'
    BY <1>2, <1>3, <1>4, <1>7, <2>5, HistoryKept, Zenon DEF Records
  <2> QED
    BY <1>2, <1>5, <1>6, <1>7, <2>4, <2>6, <2>7, <2>8, <2>9, Zenon DEF Effects, LoopEffect
<1>8. CASE Fault("ack") /\ Failed(p, l, {}) /\ (acknowledge(k) \/ UNCHANGED storeVars)
  <2>1. Acks(p, l, Ready(p, l)) /\ {} \in SUBSET Key
    BY <1>1, <1>3, <1>6, <1>8, SameRows, Zenon
  <2>2. /\ Effects(p, l, Ready(p, l), recordFailure(proc[p].tracker, at(p, l).cur))
        /\ WasOK'
    BY <1>1, <1>2, <1>4, <1>8, <2>1, FailedEffects, Zenon
  <2>3. HistoryOK'
    BY <1>2, <1>3, <1>4, <1>8, <2>2, HistoryKept, Zenon
  <2> QED
    BY <1>1, <1>5, <2>2, <2>3, Zenon DEF LoopEffect
<1> QED
  BY <1>1, <1>7, <1>8, Zenon DEF ack

(* Every step of a loop is of that form.                                   *)
LEMMA LoopStepEffect ==
  ASSUME SlackIInv, NEW p \in Process, NEW l \in Loop, loopStep(p, l)
  PROVE  LoopEffect(p, l)
  BY FetchEffect, EndEffect, PreflightEffect, PostEffect, ScanEffect, AckEffect, NextEffect, Zenon
     DEF loopStep

(* A step of a loop.                                                       *)
LEMMA LoopInv ==
  ASSUME SlackIInv, NEW p \in Process, NEW l \in Loop, LoopEffect(p, l), OutboxOK', D!TypeOK'
  PROVE  SlackIInv'
<1>1. PICK y \in LoopState : HistoryOK' /\ \E u : Effects(p, l, y, u)
  BY Zenon DEF LoopEffect
<1>2. PICK u : Effects(p, l, y, u) /\ HistoryOK'
  BY <1>1, Zenon
<1>3. TypeOK'
  BY <1>2, Zenon DEF Effects, Moves, ProcessState, HistoryOK, WasOK, SlackIInv, TypeOK
<1>4. /\ \A k \in Key : RowOK(k)' /\ ShownOK(k)'
      /\ \A q \in Process : PostedOK(q)' /\ \A m \in Loop : LoopOK(m, at(q, m))'
      /\ \A r \in Run : HandlerOK(r)'
  BY <1>2, EffectsShown, Zenon
<1>5. \A r \in Run : r \in was'.outlived \/ CopyOK(r)'
  BY <1>2, EffectsCopy, Zenon
<1>6. ASSUME Alone, NEW r \in Run PROVE r \in was'.exposed \/ AnswerOK(r)'
  <2>1. r \in was.exposed \/ AnswerOK(r)
    BY <1>6, Zenon DEF SlackIInv
  <2>2. was'.exposed = was.exposed
    BY <1>2, Zenon DEF Effects, Remembers
  <2> QED
    BY <1>2, <1>6, <2>1, <2>2, EffectsAnswer, Zenon
<1>7. ASSUME Steady, NEW k \in Message, k \notin was'.unconfirmed \cup was'.forgotten
      PROVE  MessageOK(k)'
  <2>1. Alone
    BY <1>7, Zenon DEF Steady
  <2>2. k \notin was.unconfirmed \cup was.forgotten
    BY <1>2, <1>7, Zenon DEF Effects, Remembers
  <2>3. MessageOK(k)
    BY <1>7, <2>2, Zenon DEF SlackIInv
  <2> QED
    BY <1>2, <1>7, <2>1, <2>3, EffectsMessage, Zenon
<1> QED
  BY <1>3, <1>4, <1>5, <1>6, <1>7, Zenon DEF SlackIInv, Steady, Alone

-----------------------------------------------------------------------------
(* The other steps.  They leave the loops alone or, at the start of a poll *)
(* or of a process, with nothing in hand.                                  *)
Resets(q, m) ==
  /\ at(q, m)'.pc \in {"idle", "fetch"} /\ at(q, m)'.batch = {} /\ at(q, m)'.cur = None
  /\ In(q, m, "idle") \/ "crash" \in Faults

LoopsKept ==
  /\ \A q \in Process, m \in Loop : at(q, m)' = at(q, m) \/ Resets(q, m)
  /\ \A q \in Process : \/ proc'[q].tracker = proc[q].tracker
                        \/ "crash" \in Faults /\ Range(proc'[q].tracker.posted) = {}

(* What such a step may do to a row, to what is shown and to the record.   *)
RowKept(k) ==
  /\ RowOK(k)' /\ acked'[k] \in {acked[k], "ackByKey"}
  /\ deliveries[k].deliveredBy # "none" => deliveries'[k].deliveredBy # "none"
  /\ k \in was'.outlived \/ (Working(k) /\ deliveries[k].claim > 0 => deliveries'[k].claim > 0)
  /\ slack'[k].copies = slack[k].copies
  /\ Shown(k) => Shown(k)'
  /\ slack'[k].keyed => Shown(k)'
  /\ slack[k].keyed => slack'[k].keyed
  /\ k \in Message => /\ slack'[k] = slack[k]
                      /\ deliveries'[k].deliveredBy = deliveries[k].deliveredBy

(* A loop has nothing in hand that it did not have before.                 *)
LEMMA BusyKept ==
  ASSUME LoopsKept, NEW q \in Process, NEW m \in Loop, NEW k \in Key, Busy(q, m, k)'
  PROVE  at(q, m)' = at(q, m) /\ Busy(q, m, k)
<1>1. k # None
  BY Kinds, Zenon
<1> QED
  BY <1>1, Zenon DEF LoopsKept, Resets, Busy

(* A step that keeps the rows and the loops leaves shown what was taken    *)
(* for shown.                                                              *)
LEMMA ShownKept ==
  ASSUME SlackIInv, LoopsKept, \A k \in Key : RowKept(k)
  PROVE  /\ \A k \in Key : RowOK(k)' /\ ShownOK(k)'
         /\ \A q \in Process : PostedOK(q)' /\ \A m \in Loop : LoopOK(m, at(q, m))'
<1>1. ASSUME NEW k \in Key PROVE RowOK(k)' /\ ShownOK(k)'
  <2>1. RowKept(k) /\ ShownOK(k)
    BY Zenon DEF SlackIInv
  <2>2. /\ slack'[k].copies = slack[k].copies /\ (Shown(k) => Shown(k)')
        /\ (slack'[k].keyed => Shown(k)') /\ (slack[k].keyed => slack'[k].keyed)
        /\ RowOK(k)' /\ acked'[k] \in {acked[k], "ackByKey"}
    BY <2>1, Zenon DEF RowKept
  <2> QED
    BY <2>1, <2>2, Zenon DEF ShownOK
<1>2. \A k \in Key : Shown(k) => Shown(k)'
  BY Zenon DEF RowKept
<1>3. ASSUME NEW q \in Process PROVE PostedOK(q)'
  <2>1. PostedOK(q) /\ \A m \in Loop : LoopOK(m, at(q, m))
    BY Zenon DEF SlackIInv
  <2>2. Range(proc[q].tracker.posted) \subseteq Key
    <3>1. proc[q].tracker.posted \in Seq(Key)
      BY Fields, TrackerFields, Zenon DEF SlackIInv
    <3> QED
      BY <3>1 DEF Range
  <2>3. \A k \in Range(proc'[q].tracker.posted) : Shown(k)'
    BY <1>2, <2>1, <2>2, Zenon DEF LoopsKept, PostedOK
  <2>4. ASSUME NEW m \in Loop, In(q, m, "ack")' PROVE Shown(at(q, m).cur)'
    <3>1. at(q, m)' = at(q, m)
      BY <2>4, Zenon DEF LoopsKept, Resets, In
    <3>2. In(q, m, "ack") /\ at(q, m).cur \in Key
      BY <2>1, <2>4, <3>1, Zenon DEF LoopOK, InHand, In
    <3>3. Shown(at(q, m).cur)
      BY <2>1, <3>2, Zenon DEF PostedOK
    <3>4. PICK k \in Key : k = at(q, m).cur
      BY <3>2, Zenon
    <3>5. Shown(k)'
      BY <1>2, <3>3, <3>4, Zenon
    <3> QED
      BY <3>1, <3>4, <3>5, Zenon DEF Shown
  <2> QED
    BY <2>3, <2>4, Zenon DEF PostedOK
<1>4. ASSUME NEW q \in Process, NEW m \in Loop PROVE LoopOK(m, at(q, m))'
  <2>1. CASE at(q, m)' = at(q, m)
    BY <2>1, Zenon DEF SlackIInv, LoopOK
  <2>2. CASE Resets(q, m)
    <3>1. None \notin Key
      BY Kinds
    <3> QED
      BY <2>2, <3>1, Zenon DEF Resets, LoopOK, InHand
  <2> QED
    BY <2>1, <2>2, Zenon DEF LoopsKept
<1> QED
  BY <1>1, <1>3, <1>4

(* Such a step posts no copy and hands none to a second loop.              *)
LEMMA CopyKept ==
  ASSUME SlackIInv, LoopsKept, NEW r \in Run, RowKept(r), r \notin was'.outlived,
         r \notin was.outlived
  PROVE  CopyOK(r)'
<1>1. r \in Key /\ r # None /\ CopyOK(r)
  BY Kinds, Zenon DEF SlackIInv
<1>2. /\ slack'[r].copies = slack[r].copies
      /\ Working(r) /\ deliveries[r].claim > 0 => deliveries'[r].claim > 0
  BY Zenon DEF RowKept
<1>3. ASSUME NEW q \in Process, NEW m \in Loop, Busy(q, m, r)'
      PROVE  /\ Busy(q, m, r) /\ deliveries'[r].claim > 0
             /\ In(q, m, "post")' /\ at(q, m)'.cur = r => slack'[r].copies = 0
  <2>1. at(q, m)' = at(q, m) /\ Busy(q, m, r)
    BY <1>1, <1>3, BusyKept, Zenon
  <2>2. Working(r)
    BY <2>1, Zenon DEF Working, Busy
  <2> QED
    BY <1>1, <1>2, <2>1, <2>2, Zenon DEF CopyOK, In
<1>4. slack'[r].copies <= 1
  BY <1>1, <1>2, Zenon DEF CopyOK
<1> QED
  BY <1>1, <1>3, <1>4, Zenon DEF CopyOK

(* Without restarts such a step loses no message from sight.               *)
LEMMA MessageKept ==
  ASSUME SlackIInv, LoopsKept, "crash" \notin Faults, NEW k \in Message, RowKept(k), MessageOK(k)
  PROVE  MessageOK(k)'
<1>1. k \in Key /\ k # None
  BY Kinds, Zenon
<1>2. slack'[k] = slack[k] /\ deliveries'[k].deliveredBy = deliveries[k].deliveredBy
  BY Zenon DEF RowKept
<1>3. \A q \in Process : proc'[q].tracker = proc[q].tracker
  BY Zenon DEF LoopsKept
<1>4. ASSUME NEW q \in Process, NEW m \in Loop
      PROVE  /\ Busy(q, m, k)' => Busy(q, m, k)
             /\ at(q, m)'.cur = k /\ Unposted(q, m)' => at(q, m).cur = k /\ Unposted(q, m)
             /\ at(q, m).cur = k /\ Landed(q, m) => at(q, m)'.cur = k /\ Landed(q, m)'
  BY <1>1, BusyKept, Zenon DEF LoopsKept, Resets, Unposted, Landed, In
<1>5. deliveries'[k].deliveredBy # "none" => Delivered(k)'
  BY <1>2, <1>4, Zenon DEF MessageOK, Delivered
<1>6. \A q \in Process, m \in Loop : at(q, m)'.cur = k /\ Unposted(q, m)' => slack'[k].copies = 0
  BY <1>2, <1>4, Zenon DEF MessageOK
<1>7. slack'[k].copies > 0 =>
        \/ deliveries'[k].deliveredBy # "none"
        \/ \E q \in Process :
             \/ k \in Range(proc'[q].tracker.posted) \cup Range(proc'[q].tracker.dead)
             \/ \E m \in Loop : at(q, m)'.cur = k /\ Landed(q, m)'
  BY <1>2, <1>3, <1>4, Zenon DEF MessageOK
<1>8. slack'[k].copies <= 1
  BY <1>2, Zenon DEF MessageOK
<1> QED
  BY <1>5, <1>6, <1>7, <1>8, Zenon DEF MessageOK

(* So the invariant is kept, if the handlers and their answers are.        *)
LEMMA KeptInv ==
  ASSUME SlackIInv, TypeOK', OutboxOK', LoopsKept, \A k \in Key : RowKept(k),
         was.outlived \subseteq was'.outlived, was'.unconfirmed = was.unconfirmed,
         was'.forgotten = was.forgotten, \A r \in Run : HandlerOK(r)',
         Alone => \A r \in Run : r \in was'.exposed \/ AnswerOK(r)'
  PROVE  SlackIInv'
<1>1. /\ \A k \in Key : RowOK(k)' /\ ShownOK(k)'
      /\ \A q \in Process : PostedOK(q)' /\ \A m \in Loop : LoopOK(m, at(q, m))'
  BY ShownKept, Zenon
<1>2. \A r \in Run : r \in was'.outlived \/ CopyOK(r)'
  BY CopyKept, Kinds, Zenon
<1>3. ASSUME Steady, NEW k \in Message PROVE k \in was'.unconfirmed \cup was'.forgotten \/ MessageOK(k)'
  <2>1. k \in was.unconfirmed \cup was.forgotten \/ MessageOK(k)
    BY <1>3, Zenon DEF SlackIInv
  <2>2. RowKept(k) /\ "crash" \notin Faults
    BY <1>3, Kinds, Zenon DEF Steady
  <2> QED
    BY <2>1, <2>2, MessageKept, Zenon
<1> QED
  BY <1>1, <1>2, <1>3, Zenon DEF SlackIInv, Steady, Alone

(* The answer of a run of which a step changes nothing.                    *)
LEMMA AnswerKept ==
  ASSUME LoopsKept, NEW r \in Run, AnswerOK(r),
         handler'[r] = handler[r], slack'[r] = slack[r],
         age'[r] < Grace => age[r] < Grace,
         deliveries[r].deliveredBy # "none" => deliveries'[r].deliveredBy # "none",
         Pinned(r) => r \in proc'[handler[r].home].pins
  PROVE  AnswerOK(r)'
<1>1. r \in Key /\ r # None
  BY Kinds, Zenon
<1>2. NotBegun(r) => NotBegun(r)'
  BY <1>1, Zenon DEF LoopsKept, Resets, NotBegun
<1>3. Pinned(r) => Pinned(r)'
  BY <1>2, Zenon DEF Pinned
<1>4. Delivered(r) => Delivered(r)'
  BY <1>1, BusyKept, Zenon DEF Delivered
<1>5. Marked(r) => Marked(r)'
  BY <1>1, Zenon DEF Marked, LoopsKept, Resets
<1> QED
  BY <1>2, <1>3, <1>4, <1>5, Zenon DEF AnswerOK

(* Steps that touch neither the processes nor Slack.                       *)
LEMMA SameProcesses ==
  ASSUME proc' = proc
  PROVE  LoopsKept
  BY Zenon DEF LoopsKept, at

(* A row that is not delivered by the step, nor freed under somebody's     *)
(* hands, is kept.                                                         *)
LEMMA RowsUntouched ==
  ASSUME SlackIInv, slack' = slack, NEW k \in Key, RowOK(k)', acked'[k] = acked[k],
         deliveries'[k].deliveredBy = deliveries[k].deliveredBy,
         k \in was'.outlived \/ (Working(k) /\ deliveries[k].claim > 0 => deliveries'[k].claim > 0)
  PROVE  RowKept(k)
<1>1. ShownOK(k)
  BY Zenon DEF SlackIInv
<1>2. Shown(k) => Shown(k)'
  BY Zenon DEF Shown
<1> QED
  BY <1>1, <1>2, Zenon DEF RowKept, ShownOK

(* A step that leaves the table alone keeps the rows.                      *)
LEMMA RowsSame ==
  ASSUME SlackIInv, UNCHANGED storeVars, slack' = slack
  PROVE  \A k \in Key : RowKept(k)
<1>1. deliveries' = deliveries /\ acked' = acked
  BY Zenon DEF storeVars
<1>2. \A k \in Key : RowOK(k)'
  BY <1>1, Zenon DEF SlackIInv, RowOK
<1> QED
  BY <1>1, <1>2, RowsUntouched, Zenon

(* An insert into the outbox.                                              *)
LEMMA RowsQueued ==
  ASSUME SlackIInv, slack' = slack, NEW k \in Key, D!enqueue(k, typeOf(k), FALSE, FALSE)
  PROVE  \A q \in Key : RowKept(q) /\ deliveries'[q].deliveredBy = deliveries[q].deliveredBy
<1>1. D!TypeOK /\ typeOf(k) \in Loop /\ \A q \in Key : RowOK(q)
  BY Kinds, Zenon DEF SlackIInv, TypeOK
<1>2. /\ acked' = acked
      /\ \A q \in Key :
           IF q = k /\ ~deliveries[q].present
             THEN /\ deliveries'[q].present /\ deliveries'[q].type = typeOf(k)
                  /\ deliveries'[q].claim = 0 /\ deliveries'[q].deliveredBy = "none"
             ELSE deliveries'[q] = deliveries[q]
  BY <1>1, EnqueuedRows, Zenon
<1>3. ASSUME NEW q \in Key
      PROVE  /\ RowOK(q)' /\ deliveries'[q].deliveredBy = deliveries[q].deliveredBy
             /\ deliveries'[q].claim = deliveries[q].claim
  <2>1. CASE q = k /\ ~deliveries[q].present
    BY <1>1, <1>2, <2>1, Zenon DEF RowOK
  <2>2. CASE ~(q = k /\ ~deliveries[q].present)
    BY <1>1, <1>2, <2>2, Zenon DEF RowOK
  <2> QED
    BY <2>1, <2>2
<1> QED
  BY <1>2, <1>3, RowsUntouched, Zenon

(* What a step that changes nothing but the outbox, the clock or the state *)
(* of the runs must still show.                                            *)
LEMMA QuietInv ==
  ASSUME SlackIInv, TypeOK', OutboxOK', proc' = proc, slack' = slack, \A k \in Key : RowKept(k),
         handler' = handler, \A r \in Run : run'[r].pc = "none" => run[r].pc = "none",
         was'.exposed = was.exposed, was.outlived \subseteq was'.outlived,
         was'.unconfirmed = was.unconfirmed, was'.forgotten = was.forgotten,
         \A r \in Run : age'[r] < Grace => age[r] < Grace
  PROVE  SlackIInv'
<1>1. LoopsKept
  BY SameProcesses, Zenon
<1>2. \A r \in Run : HandlerOK(r)'
  BY Zenon DEF SlackIInv, HandlerOK
<1>3. ASSUME Alone, NEW r \in Run PROVE r \in was'.exposed \/ AnswerOK(r)'
  <2>1. r \in was.exposed \/ AnswerOK(r)
    BY <1>3, Zenon DEF SlackIInv
  <2>2. r \in Key
    BY Kinds, Zenon
  <2>3. /\ deliveries[r].deliveredBy # "none" => deliveries'[r].deliveredBy # "none"
        /\ Pinned(r) => r \in proc'[handler[r].home].pins
    BY <2>2, Zenon DEF RowKept, Pinned
  <2> QED
    BY <1>1, <2>1, <2>3, AnswerKept, Zenon
<1> QED
  BY <1>1, <1>2, <1>3, KeptInv, Zenon

(* The server queues a message.                                            *)
LEMMA SendInv ==
  ASSUME SlackIInv, NEW k \in Key, send(k), OutboxOK', D!TypeOK'
  PROVE  SlackIInv'
<1>1. /\ D!enqueue(k, typeOf(k), FALSE, FALSE)
      /\ UNCHANGED <<age, run, handler, proc, slack, was, faults>>
  BY Zenon DEF send
<1>2. \A q \in Key : RowKept(q)
  BY <1>1, RowsQueued, Zenon
<1>3. TypeOK'
  BY <1>1, Zenon DEF TypeOK, SlackIInv
<1> QED
  BY <1>1, <1>2, <1>3, QuietInv, Zenon

(* A run settles.                                                          *)
LEMMA FinishInv ==
  ASSUME SlackIInv, NEW r \in Run, finishRun(r), OutboxOK', D!TypeOK'
  PROVE  SlackIInv'
<1>1. PICK result \in Result : run' = [run EXCEPT ![r] = [pc |-> "settling", result |-> result]]
  BY Zenon DEF finishRun
<1>2. UNCHANGED storeVars /\ UNCHANGED <<age, handler, proc, slack, was, faults>>
  BY Zenon DEF finishRun
<1>3. TypeOK
  BY Zenon DEF SlackIInv
<1>4. /\ run' \in [Run -> [pc: {"none", "running", "settling", "done"}, result: Result \cup {None}]]
      /\ \A q \in Run : run'[q].pc = "none" => run[q].pc = "none"
  <2>1. run \in [Run -> [pc: {"none", "running", "settling", "done"}, result: Result \cup {None}]]
    BY <1>3, Zenon DEF TypeOK
  <2> QED
    BY <1>1, <2>1
<1>5. TypeOK'
  BY <1>2, <1>3, <1>4, Zenon DEF TypeOK
<1>6. \A k \in Key : RowKept(k)
  BY <1>2, RowsSame, Zenon
<1> QED
  BY <1>2, <1>4, <1>5, <1>6, QuietInv, Zenon

(* The listener of a settled run queues the recovery copy.                 *)
LEMMA TerminalInv ==
  ASSUME SlackIInv, NEW r \in Run, onTerminal(r), OutboxOK', D!TypeOK'
  PROVE  SlackIInv'
<1>1. /\ run[r].pc = "settling" /\ run' = [run EXCEPT ![r].pc = "done"]
      /\ UNCHANGED <<age, handler, proc, slack, was>>
  BY Zenon DEF onTerminal
<1>2. TypeOK /\ r \in Key /\ typeOf(r) = "slack"
  BY Kinds, SlackAssumption DEF SlackIInv, typeOf
<1>3. /\ run' \in [Run -> [pc: {"none", "running", "settling", "done"}, result: Result \cup {None}]]
      /\ \A q \in Run : run'[q].pc = "none" => run[q].pc = "none"
  <2>1. run \in [Run -> [pc: {"none", "running", "settling", "done"}, result: Result \cup {None}]]
    BY <1>2, Zenon DEF TypeOK
  <2> QED
    BY <1>1, <2>1
<1>4. faults' \in 0..MaxFaults
  <2>1. Fault("listener") \/ faults' = faults
    BY Zenon DEF onTerminal
  <2> QED
    BY <1>2, <2>1, FaultType, Zenon
<1>5. TypeOK'
  BY <1>1, <1>2, <1>3, <1>4, Zenon DEF TypeOK
<1>6. \A k \in Key : RowKept(k)
  <2>1. D!enqueue(r, typeOf(r), FALSE, FALSE) \/ UNCHANGED storeVars
    BY <1>2, Zenon DEF onTerminal
  <2> QED
    BY <1>1, <1>2, <2>1, RowsQueued, RowsSame, Zenon
<1> QED
  BY <1>1, <1>3, <1>5, <1>6, QuietInv, Zenon

(* Time passes: a claim runs out, which goes on record if somebody is at   *)
(* work on the delivery.                                                   *)
LEMMA TickInv ==
  ASSUME SlackIInv, Tick, OutboxOK', D!TypeOK'
  PROVE  SlackIInv'
<1>1. TypeOK /\ D!TypeOK /\ \A k \in Key : RowOK(k)
  BY Zenon DEF SlackIInv, TypeOK
<1>2. PICK o \in SUBSET Key : o = {k \in Key : deliveries[k].claim = 1 /\ Working(k)}
  BY Zenon
<1>3. /\ D!Tick /\ was' = [was EXCEPT !.outlived = was.outlived \cup o]
      /\ UNCHANGED <<run, handler, proc, slack, faults>>
      /\ age' = [k \in Key |-> IF deliveries[k].present /\ age[k] < Grace THEN age[k] + 1 ELSE age[k]]
  BY <1>2, Zenon DEF Tick
<1>4. /\ WasOK' /\ was'.outlived = was.outlived \cup o /\ was'.exposed = was.exposed
      /\ was'.unconfirmed = was.unconfirmed /\ was'.forgotten = was.forgotten
  <2>1. WasOK
    BY <1>1, Zenon DEF TypeOK, WasOK
  <2> QED
    BY <1>3, <2>1 DEF WasOK
<1>5. age' \in [Key -> 0..Grace] /\ \A k \in Key : age'[k] < Grace => age[k] < Grace
  <2>1. age \in [Key -> 0..Grace]
    BY <1>1, Zenon DEF TypeOK
  <2> QED
    BY <1>3, <2>1, Kinds
<1>6. TypeOK'
  BY <1>1, <1>3, <1>4, <1>5, Zenon DEF TypeOK, WasOK
<1>7. ASSUME NEW k \in Key PROVE RowKept(k)
  <2>1. /\ acked' = acked
        /\ \A q \in Key :
             /\ deliveries'[q].present = deliveries[q].present
             /\ deliveries'[q].type = deliveries[q].type
             /\ deliveries'[q].deliveredBy = deliveries[q].deliveredBy
             /\ deliveries[q].claim > 1 => deliveries'[q].claim > 0
             /\ deliveries[q].claim = 0 => deliveries'[q].claim = 0
    BY <1>1, <1>3, TickedRows, Zenon
  <2>2. RowOK(k)'
    BY <1>1, <2>1, Zenon DEF RowOK
  <2>3. deliveries[k].claim \in Nat
    BY <1>1 DEF D!TypeOK, D!Delivery
  <2>4. deliveries[k].claim > 0 => deliveries[k].claim = 1 \/ deliveries[k].claim > 1
    BY <2>3
  <2>5. k \in was'.outlived \/ (Working(k) /\ deliveries[k].claim > 0 => deliveries'[k].claim > 0)
    BY <1>2, <1>4, <2>1, <2>4, Zenon
  <2> QED
    BY <1>3, <2>1, <2>2, <2>5, RowsUntouched, Zenon
<1>8. Run \subseteq Key
  BY Kinds, Zenon
<1>9. \A r \in Run : age'[r] < Grace => age[r] < Grace
  BY <1>5, <1>8, Zenon
<1>10. \A r \in Run : run'[r].pc = "none" => run[r].pc = "none"
  BY <1>3, Zenon
<1>11. was.outlived \subseteq was'.outlived
  BY <1>4, Zenon
<1> QED
  BY <1>3, <1>4, <1>6, <1>7, <1>9, <1>10, <1>11, QuietInv, Zenon

(* A process whose row becomes row.                                        *)
LEMMA ProcessMoves ==
  ASSUME TypeOK, NEW p \in Process, NEW row \in ProcessState, proc' = [proc EXCEPT ![p] = row]
  PROVE  /\ proc' \in [Process -> ProcessState]
         /\ \A q \in Process : proc'[q] = IF q = p THEN row ELSE proc[q]
<1>1. proc \in [Process -> ProcessState]
  BY Zenon DEF TypeOK, ProcessState
<1> QED
  BY <1>1, Zenon

(* A loop with nothing in hand.                                            *)
LEMMA EmptyLoop ==
  ASSUME NEW pc \in {"idle", "fetch"}
  PROVE  /\ [IdleLoop EXCEPT !.pc = pc] \in LoopState /\ [IdleLoop EXCEPT !.pc = pc].pc = pc
         /\ [IdleLoop EXCEPT !.pc = pc].batch = {} /\ [IdleLoop EXCEPT !.pc = pc].cur = None
         /\ IdleLoop \in LoopState /\ IdleLoop.pc = "idle"
         /\ IdleLoop.batch = {} /\ IdleLoop.cur = None
<1>1. 0 \in 0..(PostAttempts - 1)
  BY Kinds
<1> QED
  BY <1>1, Zenon DEF LoopState, IdleLoop

(* A poll starts.                                                          *)
LEMMA PollInv ==
  ASSUME SlackIInv, NEW p \in Process, pollDeliveries(p), OutboxOK', D!TypeOK'
  PROVE  SlackIInv'
<1> DEFINE x == [IdleLoop EXCEPT !.pc = "fetch"]
           h == [l \in Loop |-> x]
           row == [proc[p] EXCEPT !.loop = h]
<1>1. /\ \A l \in Loop : In(p, l, "idle")
      /\ proc' = [proc EXCEPT ![p] = row]
      /\ UNCHANGED storeVars /\ UNCHANGED <<age, run, handler, slack, was, faults>>
  BY Zenon DEF pollDeliveries
<1>2. TypeOK /\ x \in LoopState /\ x.pc = "fetch" /\ x.batch = {} /\ x.cur = None
  BY EmptyLoop, Zenon DEF SlackIInv
<1> HIDE DEF x
<1>3. h \in [Loop -> LoopState] /\ \A l \in Loop : h[l] = x
  BY <1>2, Zenon
<1> HIDE DEF h
<1>4. /\ proc[p] \in ProcessState /\ row \in ProcessState
      /\ row.loop = h /\ row.tracker = proc[p].tracker /\ row.pins = proc[p].pins
  <2>1. proc[p] \in ProcessState
    BY <1>2 DEF TypeOK, ProcessState
  <2> QED
    BY <1>3, <2>1, Zenon DEF ProcessState
<1> HIDE DEF row
<1>5. /\ proc' \in [Process -> ProcessState]
      /\ \A q \in Process : proc'[q] = IF q = p THEN row ELSE proc[q]
  BY <1>1, <1>2, <1>4, ProcessMoves, Zenon
<1>6. LoopsKept
  <2>1. ASSUME NEW q \in Process, NEW m \in Loop PROVE at(q, m)' = at(q, m) \/ Resets(q, m)
    <3>1. CASE q = p
      <4>1. at(q, m)' = x
        BY <1>3, <1>4, <1>5, <3>1, Zenon DEF at
      <4> QED
        BY <1>1, <1>2, <3>1, <4>1, Zenon DEF Resets
    <3>2. CASE q # p
      BY <1>5, <3>2, Zenon DEF at
    <3> QED
      BY <3>1, <3>2
  <2>2. \A q \in Process : proc'[q].tracker = proc[q].tracker
    BY <1>4, <1>5, Zenon
  <2> QED
    BY <2>1, <2>2, Zenon DEF LoopsKept
<1>7. TypeOK'
  BY <1>1, <1>2, <1>5, Zenon DEF TypeOK, ProcessState
<1>8. \A k \in Key : RowKept(k)
  BY <1>1, RowsSame, Zenon
<1>9. \A r \in Run : HandlerOK(r)'
  BY <1>1, Zenon DEF SlackIInv, HandlerOK
<1>10. ASSUME Alone, NEW r \in Run PROVE r \in was'.exposed \/ AnswerOK(r)'
  <2>1. HandlerOK(r) /\ (r \in was.exposed \/ AnswerOK(r))
    BY <1>10, Zenon DEF SlackIInv
  <2>2. \A q \in Process : proc'[q].pins = proc[q].pins
    BY <1>4, <1>5, Zenon
  <2>3. Pinned(r) => r \in proc'[handler[r].home].pins
    BY <2>1, <2>2, Zenon DEF Pinned, HandlerOK
  <2>4. deliveries' = deliveries
    BY <1>1, Zenon DEF storeVars
  <2> QED
    BY <1>1, <1>6, <2>1, <2>3, <2>4, AnswerKept, Zenon
<1>11. was.outlived \subseteq was'.outlived
  BY <1>1, Zenon
<1> QED
  BY <1>1, <1>6, <1>7, <1>8, <1>9, <1>10, <1>11, KeptInv, Zenon

(* A handler whose row becomes row.                                        *)
LEMMA HandlerMoves ==
  ASSUME TypeOK, NEW r \in Run, NEW row \in HandlerState, handler' = [handler EXCEPT ![r] = row]
  PROVE  /\ handler' \in [Run -> HandlerState]
         /\ \A q \in Run : handler'[q] = IF q = r THEN row ELSE handler[q]
<1>1. handler \in [Run -> HandlerState]
  BY Zenon DEF TypeOK
<1> QED
  BY <1>1, Zenon

(* A process takes a turn and pins its run.                                *)
LEMMA SubmitInv ==
  ASSUME SlackIInv, NEW r \in Run, NEW p \in Process, submitTurn(r, p), OutboxOK', D!TypeOK'
  PROVE  SlackIInv'
<1> DEFINE row == [pc |-> "submitted", home |-> p, acking |-> 0]
<1>1. /\ run[r].pc = "none" /\ run' = [run EXCEPT ![r].pc = "running"]
      /\ handler' = [handler EXCEPT ![r] = row]
      /\ UNCHANGED storeVars /\ UNCHANGED <<age, proc, slack, was, faults>>
  BY Zenon DEF submitTurn
<1>2. row \in HandlerState /\ row.pc = "submitted" /\ row.home = p /\ row.acking = 0
  <2>1. 0 \in 0..AckAttempts
    BY Kinds
  <2> QED
    BY <2>1, Zenon DEF HandlerState
<1> HIDE DEF row
<1>3. TypeOK /\ \A q \in Run : HandlerOK(q)
  BY Zenon DEF SlackIInv
<1>4. /\ handler' \in [Run -> HandlerState]
      /\ \A q \in Run : handler'[q] = IF q = r THEN row ELSE handler[q]
  BY <1>1, <1>2, <1>3, HandlerMoves, Zenon
<1>5. /\ run' \in [Run -> [pc: {"none", "running", "settling", "done"}, result: Result \cup {None}]]
      /\ \A q \in Run : run'[q].pc = "none" => run[q].pc = "none" /\ q # r
  <2>1. run \in [Run -> [pc: {"none", "running", "settling", "done"}, result: Result \cup {None}]]
    BY <1>3, Zenon DEF TypeOK
  <2> QED
    BY <1>1, <2>1
<1>6. TypeOK'
  BY <1>1, <1>3, <1>4, <1>5, Zenon DEF TypeOK
<1>7. LoopsKept /\ \A k \in Key : RowKept(k)
  BY <1>1, SameProcesses, RowsSame, Zenon
<1>8. slack[r].live = 0
  BY <1>1, <1>3, Zenon DEF HandlerOK
<1>9. ASSUME NEW q \in Run PROVE HandlerOK(q)'
  <2>1. CASE q = r
    <3>1. ~(0 > 0)
      OBVIOUS
    <3> QED
      BY <1>1, <1>2, <1>4, <1>5, <1>8, <2>1, <3>1, Zenon DEF HandlerOK
  <2>2. CASE q # r
    BY <1>1, <1>3, <1>4, <1>5, <2>2, Zenon DEF HandlerOK
  <2> QED
    BY <2>1, <2>2
<1>10. ASSUME Alone, NEW q \in Run PROVE q \in was'.exposed \/ AnswerOK(q)'
  <2>1. q \in was.exposed \/ AnswerOK(q)
    BY <1>10, Zenon DEF SlackIInv
  <2>2. deliveries' = deliveries
    BY <1>1, Zenon DEF storeVars
  <2>3. CASE q # r
    <3>1. Pinned(q) => q \in proc'[handler[q].home].pins
      BY <1>1, Zenon DEF Pinned
    <3> QED
      BY <1>1, <1>4, <1>7, <2>1, <2>2, <2>3, <3>1, AnswerKept, Zenon
  <2>4. CASE q = r
    <3>1. ~(slack'[r].live > 0)
      <4>1. slack'[r].live = 0
        BY <1>1, <1>8, Zenon
      <4> QED
        BY <4>1
    <3>2. NotBegun(r) => NotBegun(r)'
      BY <1>1, Zenon DEF NotBegun, at
    <3> QED
      BY <1>1, <1>2, <1>4, <2>1, <2>4, <3>1, <3>2, Zenon DEF AnswerOK
  <2> QED
    BY <2>3, <2>4
<1>11. was.outlived \subseteq was'.outlived
  BY <1>1, Zenon
<1> QED
  BY <1>1, <1>6, <1>7, <1>9, <1>10, <1>11, KeptInv, Zenon

-----------------------------------------------------------------------------
(* The outbox, whose types are those of the loops.                         *)
OutboxInv == D!TypeOK /\ OutboxOK

(* The outbox's own assumptions hold of what the surface gives it.         *)
LEMMA OutboxAssumptions == /\ ClaimTtl \in Nat \ {0}
                           /\ "principal" \in Loop /\ "ack-tombstone" \notin Loop
  BY SlackAssumption DEF Loop

(* What a step may do to the row of one key, given the acknowledgements.   *)
RowStays(k) ==
  /\ acked[k] # "none" => deliveries'[k].claim <= deliveries[k].claim
  /\ deliveries[k].present =>
       /\ deliveries'[k].present
       /\ deliveries'[k].type = deliveries[k].type
       /\ deliveries'[k].shadow = deliveries[k].shadow

(* The table starts empty.                                                 *)
LEMMA OutboxStarts == D!Init => OutboxInv
  BY DEF D!Init, OutboxInv, OutboxOK, D!TypeOK, D!AckSticks, D!NoDelivery, D!Delivery

(* An insert changes nothing, or creates the row of a key that nobody has  *)
(* acknowledged yet.                                                       *)
LEMMA OutboxEnqueues ==
  ASSUME OutboxInv, NEW k \in Key, NEW type \in Loop, NEW shadow \in BOOLEAN, NEW editRef \in BOOLEAN,
         D!enqueue(k, type, shadow, editRef)
  PROVE  OutboxInv' /\ \A q \in Key : RowStays(q)
<1>1. CASE deliveries[k].present
  BY <1>1 DEF D!enqueue, OutboxInv, OutboxOK, D!TypeOK, D!AckSticks, RowStays, D!Delivery
<1>2. CASE ~deliveries[k].present
  <2> DEFINE row == [D!NoDelivery EXCEPT !.present = TRUE, !.type = type, !.shadow = shadow,
                                         !.editRef = editRef]
  <2>1. deliveries' = [deliveries EXCEPT ![k] = row] /\ acked' = acked
    BY <1>2, Zenon DEF D!enqueue
  <2>2. row \in D!Delivery
    BY Zenon DEF D!NoDelivery, D!Delivery
  <2>3. acked[k] = "none"
    BY <1>2, Zenon DEF OutboxInv, OutboxOK, D!AckSticks
  <2> HIDE DEF row
  <2> QED
    BY <1>2, <2>1, <2>2, <2>3
    DEF OutboxInv, OutboxOK, D!TypeOK, D!AckSticks, RowStays, D!Delivery, D!NoDelivery, row
<1> QED
  BY <1>1, <1>2, Zenon

(* A claim touches only rows that are not delivered, hence not             *)
(* acknowledged.                                                           *)
LEMMA OutboxClaims ==
  ASSUME OutboxInv, NEW type \in Loop, NEW ks \in SUBSET D!Claimable(type), D!claimPending(type, ks)
  PROVE  OutboxInv' /\ \A q \in Key : RowStays(q)
<1>1. ClaimTtl \in Nat
  BY OutboxAssumptions, Zenon
<1>2. \A k \in ks : k \in Key /\ deliveries[k].deliveredBy = "none"
  BY Zenon DEF D!Claimable, D!pending
<1>3. \A k \in ks : acked[k] = "none"
  BY <1>2, Zenon DEF OutboxInv, OutboxOK, D!AckSticks
<1>4. D!TypeOK'
  BY <1>1, ZenonT(30) DEF D!claimPending, OutboxInv, OutboxOK, D!TypeOK, D!Delivery
<1>5. \A k \in Key : /\ deliveries'[k].deliveredBy = deliveries[k].deliveredBy
                     /\ deliveries'[k].present = deliveries[k].present
                     /\ deliveries'[k].type = deliveries[k].type
                     /\ deliveries'[k].shadow = deliveries[k].shadow
                     /\ k \notin ks => deliveries'[k] = deliveries[k]
  BY Zenon DEF D!claimPending, OutboxInv, OutboxOK, D!TypeOK, D!Delivery
<1>6. \A k \in Key : deliveries[k].claim <= deliveries[k].claim
  BY DEF OutboxInv, OutboxOK, D!TypeOK, D!Delivery
<1> QED
  BY <1>3, <1>4, <1>5, <1>6, ZenonT(30) DEF D!claimPending, OutboxInv, OutboxOK, D!AckSticks, RowStays

(* An acknowledgement writes the same call to the row and to the history,  *)
(* or to neither.                                                          *)
LEMMA OutboxAcks ==
  ASSUME OutboxInv, NEW k \in Key, D!ack(k) \/ D!ackByKey(k) \/ D!recordRecipientThread(k)
  PROVE  OutboxInv' /\ \A q \in Key : RowStays(q)
<1>1. PICK route \in {"ack", "ackByKey", "recipientThread"} : D!Acknowledge(k, route)
        /\ (deliveries[k].present =>
              \/ D!deliver(k, route)
              \/ deliveries' = [deliveries EXCEPT
                   ![k].recipientThread = TRUE,
                   ![k].deliveredBy = IF @ = "none" THEN route ELSE @])
        /\ (~deliveries[k].present =>
              deliveries' = [deliveries EXCEPT ![k] =
                [D!NoDelivery EXCEPT !.present = TRUE, !.deliveredBy = route]] /\ route = "ackByKey")
  BY Zenon DEF D!ack, D!ackByKey, D!recordRecipientThread
<1>2. acked' = [acked EXCEPT ![k] = IF acked[k] = "none" THEN route ELSE acked[k]]
  BY <1>1, Zenon DEF D!Acknowledge
<1>3. acked' \in [Key -> {"none", "ack", "ackByKey", "recipientThread"}]
  BY <1>2, Zenon DEF OutboxInv, OutboxOK, D!TypeOK
<1>4. \A q \in Key : deliveries[q].claim <= deliveries[q].claim
  BY DEF OutboxInv, OutboxOK, D!TypeOK, D!Delivery
<1>5. CASE deliveries[k].present
  <2>1. deliveries' \in [Key -> D!Delivery]
    <3>1. CASE D!deliver(k, route)
      BY <3>1 DEF D!deliver, OutboxInv, OutboxOK, D!TypeOK, D!Delivery
    <3>2. CASE ~D!deliver(k, route)
      <4> DEFINE by == IF deliveries[k].deliveredBy = "none" THEN route ELSE deliveries[k].deliveredBy
                 row == [deliveries[k] EXCEPT !.recipientThread = TRUE, !.deliveredBy = by]
      <4>1. deliveries[k] \in D!Delivery
        BY Zenon DEF OutboxInv, OutboxOK, D!TypeOK
      <4>2. by \in {"none", "ack", "ackByKey", "recipientThread"}
        BY <4>1, Zenon DEF D!Delivery
      <4>3. row \in D!Delivery
        <5> HIDE DEF by
        <5> QED
          BY <4>1, <4>2, Zenon DEF D!Delivery
      <4>4. deliveries' = [deliveries EXCEPT ![k] = row]
        BY <1>1, <1>5, <3>2, Zenon
      <4> HIDE DEF row
      <4> QED
        BY <4>3, <4>4, Zenon DEF OutboxInv, OutboxOK, D!TypeOK
    <3> QED
      BY <3>1, <3>2, Zenon
  <2>2. \A q \in Key : /\ deliveries'[q].claim = deliveries[q].claim
                       /\ deliveries'[q].present = deliveries[q].present
                       /\ deliveries'[q].type = deliveries[q].type
                       /\ deliveries'[q].shadow = deliveries[q].shadow
    BY <1>1, <1>5 DEF D!deliver, OutboxInv, OutboxOK, D!TypeOK, D!Delivery
  <2>3. \A q \in Key : deliveries'[q].deliveredBy =
          IF q = k /\ deliveries[q].deliveredBy = "none" THEN route ELSE deliveries[q].deliveredBy
    BY <1>1, <1>5 DEF D!deliver, OutboxInv, OutboxOK, D!TypeOK, D!Delivery
  <2>4. \A q \in Key : acked'[q] = IF q = k /\ acked[q] = "none" THEN route ELSE acked[q]
    BY <1>2, Zenon DEF OutboxInv, OutboxOK, D!TypeOK
  <2> QED
    BY <1>3, <1>4, <1>5, <2>1, <2>2, <2>3, <2>4, ZenonT(30)
    DEF OutboxInv, OutboxOK, D!TypeOK, D!AckSticks, RowStays
<1>6. CASE ~deliveries[k].present
  <2> DEFINE row == [D!NoDelivery EXCEPT !.present = TRUE, !.deliveredBy = route]
  <2>1. row \in D!Delivery /\ row.present /\ row.deliveredBy = route
    BY Zenon DEF D!NoDelivery, D!Delivery
  <2>2. deliveries' = [deliveries EXCEPT ![k] = row]
    BY <1>1, <1>6, Zenon
  <2>3. acked[k] = "none"
    BY <1>6, Zenon DEF OutboxInv, OutboxOK, D!AckSticks
  <2> HIDE DEF row
  <2> QED
    BY <1>2, <1>3, <1>4, <1>6, <2>1, <2>2, <2>3, Zenon DEF OutboxInv, OutboxOK, D!TypeOK, D!AckSticks, RowStays
<1> QED
  BY <1>5, <1>6, Zenon

(* A late edit reference patches nothing the invariant speaks of.          *)
LEMMA OutboxEdits ==
  ASSUME OutboxInv, NEW k \in Key, D!setEditRefByKey(k)
  PROVE  OutboxInv' /\ \A q \in Key : RowStays(q)
<1>1. \A q \in Key : deliveries[q].claim <= deliveries[q].claim
  BY DEF OutboxInv, OutboxOK, D!TypeOK, D!Delivery
<1>2. deliveries' \in [Key -> D!Delivery]
  <2>1. \A q \in Key : deliveries[q] \in D!Delivery
    BY Zenon DEF OutboxInv, D!TypeOK
  <2>2. \A q \in Key : [deliveries[q] EXCEPT !.editRef = TRUE] \in D!Delivery
    BY <2>1, Zenon DEF D!Delivery
  <2> QED
    BY <2>1, <2>2, Zenon DEF D!setEditRefByKey, OutboxInv, D!TypeOK
<1>3. \A q \in Key : /\ deliveries'[q].claim = deliveries[q].claim
                     /\ deliveries'[q].present = deliveries[q].present
                     /\ deliveries'[q].type = deliveries[q].type
                     /\ deliveries'[q].shadow = deliveries[q].shadow
                     /\ deliveries'[q].deliveredBy = deliveries[q].deliveredBy
  BY Zenon DEF D!setEditRefByKey, OutboxInv, OutboxOK, D!TypeOK, D!Delivery
<1> QED
  BY <1>1, <1>2, <1>3 DEF D!setEditRefByKey, OutboxInv, OutboxOK, D!TypeOK, D!AckSticks, RowStays

(* Time only shortens claims.                                              *)
LEMMA OutboxTicks ==
  ASSUME OutboxInv, D!Tick
  PROVE  OutboxInv' /\ \A q \in Key : RowStays(q)
  BY DEF D!Tick, OutboxInv, OutboxOK, D!TypeOK, D!AckSticks, RowStays, D!Delivery

(* Every step keeps the invariant and treats the rows as promised.         *)
LEMMA OutboxMoves == OutboxInv /\ [D!Next]_(D!vars) => OutboxInv' /\ \A q \in Key : RowStays(q)
<1> SUFFICES ASSUME OutboxInv, [D!Next]_(D!vars)
             PROVE  OutboxInv' /\ \A q \in Key : RowStays(q)
  BY Zenon
<1>1. ASSUME UNCHANGED D!vars PROVE OutboxInv' /\ \A q \in Key : RowStays(q)
  BY <1>1 DEF D!vars, OutboxInv, OutboxOK, D!TypeOK, D!AckSticks, RowStays, D!Delivery
<1> QED
  BY <1>1, OutboxEnqueues, OutboxClaims, OutboxAcks, OutboxEdits, OutboxTicks, Zenon DEF D!Next

=============================================================================
