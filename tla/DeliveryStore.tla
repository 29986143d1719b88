--------------------------- MODULE DeliveryStore ---------------------------
(***************************************************************************)
(* The outbox (delivery/postgres-delivery-store.ts): messages queued under *)
(* an idempotency key, claimed for a while by the pollers of a surface and *)
(* acknowledged once they are shown.  Each operation is one statement,     *)
(* hence one action; delivery-store.ts does the same in memory.            *)
(*                                                                         *)
(* The callers are open: anything may be enqueued, acknowledged or patched *)
(* at any time, in any order.  The id of a row (randomUUID) stands for its *)
(* key, of which there is one row at most; claim_expires_at is the time    *)
(* left of the claim.                                                      *)
(***************************************************************************)
EXTENDS Integers

CONSTANTS
  Key,        \* idempotency keys
  Type,       \* destination types the surfaces poll for
  ClaimTtl    \* duration of a claim, in ticks

ASSUME ClaimAssumption == ClaimTtl \in Nat \ {0}
ASSUME TypeAssumption == "principal" \in Type /\ "ack-tombstone" \notin Type

VARIABLES
  deliveries,   \* the deliveries table
  acked         \* history: [Key -> the call that acknowledged the key first]

vars == <<deliveries, acked>>

(* deliveredBy is the statement that set delivered_at.                     *)
Delivery == [present: BOOLEAN, type: Type \cup {"ack-tombstone"}, shadow: BOOLEAN,
             claim: Nat, editRef: BOOLEAN, recipientThread: BOOLEAN,
             deliveredBy: {"none", "ack", "ackByKey", "recipientThread"}]

TypeOK ==
  /\ deliveries \in [Key -> Delivery]
  /\ acked \in [Key -> {"none", "ack", "ackByKey", "recipientThread"}]

NoDelivery == [present |-> FALSE, type |-> "ack-tombstone", shadow |-> FALSE, claim |-> 0,
               editRef |-> FALSE, recipientThread |-> FALSE, deliveredBy |-> "none"]

Init ==
  /\ deliveries = [k \in Key |-> NoDelivery]
  /\ acked = [k \in Key |-> "none"]

-----------------------------------------------------------------------------
pending(k) == deliveries[k].present /\ deliveries[k].deliveredBy = "none"

(* An acknowledgement that found its row is the first one of its key, or   *)
(* comes too late to matter.                                               *)
Acknowledge(k, call) ==
  acked' = [acked EXCEPT ![k] = IF @ = "none" THEN call ELSE @]

(* The insert; a call whose key is taken returns the row found there.      *)
enqueue(k, type, shadow, editRef) ==
  /\ deliveries' = IF deliveries[k].present THEN deliveries ELSE
       [deliveries EXCEPT ![k] =
         [NoDelivery EXCEPT !.present = TRUE, !.type = type, !.shadow = shadow, !.editRef = editRef]]
  /\ UNCHANGED acked

(* Mutant: a row is claimed whether it is delivered or not.                *)
ClaimableAgain(type) ==
  {k \in Key : deliveries[k].present /\ ~deliveries[k].shadow /\ deliveries[k].type = type
               /\ deliveries[k].claim = 0}

(* The rows a poller may claim: not delivered, nor under a claim.          *)
Claimable(type) ==
  {k \in Key : pending(k) /\ ~deliveries[k].shadow /\ deliveries[k].type = type
               /\ deliveries[k].claim = 0}

(* The rows of one claim statement.  SKIP LOCKED passes over the rows that *)
(* a concurrent statement has locked, so it need not be all of them.       *)
claimPending(type, ks) ==
  /\ ks \subseteq Claimable(type)
  /\ deliveries' = [k \in Key |->
       IF k \in ks THEN [deliveries[k] EXCEPT !.claim = ClaimTtl] ELSE deliveries[k]]
  /\ UNCHANGED acked

deliver(k, call) ==
  deliveries' = [deliveries EXCEPT ![k].deliveredBy = IF @ = "none" THEN call ELSE @]

(* ack, by id: the row exists.                                             *)
ack(k) ==
  /\ deliveries[k].present
  /\ deliver(k, "ack")
  /\ Acknowledge(k, "ack")

(* Mutant: an update, which misses a row that is not there yet.            *)
ackByKeyUpdates(k) ==
  /\ deliveries' = IF deliveries[k].present
                     THEN [deliveries EXCEPT ![k].deliveredBy = IF @ = "none" THEN "ackByKey" ELSE @]
                     ELSE deliveries
  /\ Acknowledge(k, "ackByKey")

(* ackByKey leaves a tombstone if the row is not there yet.                *)
ackByKey(k) ==
  /\ IF deliveries[k].present
       THEN deliver(k, "ackByKey")
       ELSE deliveries' = [deliveries EXCEPT ![k] =
              [NoDelivery EXCEPT !.present = TRUE, !.deliveredBy = "ackByKey"]]
  /\ Acknowledge(k, "ackByKey")

setEditRefByKey(k) ==
  /\ deliveries' = IF pending(k) THEN [deliveries EXCEPT ![k].editRef = TRUE] ELSE deliveries
  /\ UNCHANGED acked

(* A message to a person was shown in the conversation named.              *)
recordRecipientThread(k) ==
  /\ deliveries[k].present /\ deliveries[k].type = "principal"
  /\ deliveries' = [deliveries EXCEPT
       ![k].recipientThread = TRUE,
       ![k].deliveredBy = IF @ = "none" THEN "recipientThread" ELSE @]
  /\ Acknowledge(k, "recipientThread")

Tick ==
  /\ deliveries' = [k \in Key |->
       IF deliveries[k].claim > 0 THEN [deliveries[k] EXCEPT !.claim = @ - 1] ELSE deliveries[k]]
  /\ UNCHANGED acked

Next ==
  \/ \E k \in Key, type \in Type, shadow, editRef \in BOOLEAN : enqueue(k, type, shadow, editRef)
  \/ \E type \in Type : \E ks \in SUBSET Claimable(type) : claimPending(type, ks)
  \/ \E k \in Key : ack(k) \/ ackByKey(k) \/ setEditRefByKey(k) \/ recordRecipientThread(k)
  \/ Tick

Spec == Init /\ [][Next]_vars

-----------------------------------------------------------------------------
(* An acknowledgement sticks, whichever comes first, it or the enqueueing: *)
(* the row is delivered for good, on the account of the first call.        *)
AckSticks ==
  \A k \in Key : acked[k] # "none" => /\ deliveries[k].present
                                      /\ deliveries[k].deliveredBy = acked[k]

(* No message is claimed after its key was acknowledged, and what is once  *)
(* queued under a key keeps its destination: a later enqueue() with the    *)
(* key, of a retry or of another instance, changes nothing.                *)
QueuedOnce ==
  [][\A k \in Key :
       /\ acked[k] # "none" => deliveries'[k].claim <= deliveries[k].claim
       /\ deliveries[k].present =>
            /\ deliveries'[k].present
            /\ deliveries'[k].type = deliveries[k].type
            /\ deliveries'[k].shadow = deliveries[k].shadow]_vars
=============================================================================
