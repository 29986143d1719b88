---------------------------- MODULE SessionStore ----------------------------
(***************************************************************************)
(* The session store (sessions/postgres-session-store.ts): the single      *)
(* writer lease of each session and the two append-only logs it protects,  *)
(* session_entries (the transcript) and session_tape (what the model was   *)
(* sent).  Each operation is one statement or one transaction that locks   *)
(* the lease row, hence one action.                                        *)
(*                                                                         *)
(* As in RunStore the callers are open: any lease ever handed out may be   *)
(* used at any time.  A token (randomUUID) is the number of the            *)
(* acquisition it came from, 0 no lease row; expiresAt is the time left.   *)
(***************************************************************************)
EXTENDS Integers, Sequences

CONSTANTS
  SessionId,     \* sessions
  Record,        \* what is appended
  SessionTtl,    \* lease duration, in ticks
  MaxLeases,     \* bound: acquisitions of one session that are explored
  MaxLog         \* bound: length of a session's logs

ASSUME SessionBounds == SessionTtl \in Nat \ {0} /\ MaxLeases \in Nat /\ MaxLog \in Nat

VARIABLES
  leases,   \* the session_leases table
  issued,   \* [SessionId -> acquisitions so far]
  log       \* [SessionId -> the writes committed to either log, in order]

sessionVars == <<leases, issued, log>>

Lease == [token: Nat, expiresAt: Nat]

(* The seq of a row is its position among the writes of its kind.          *)
Write == [token: Nat, kind: {"entry", "tape"}, record: Record]

SessionTypeOK ==
  /\ leases \in [SessionId -> Lease]
  /\ issued \in [SessionId -> Nat]
  /\ log \in [SessionId -> Seq(Write)]

NoLease == [token |-> 0, expiresAt |-> 0]

SessionInit ==
  /\ leases = [s \in SessionId |-> NoLease]
  /\ issued = [s \in SessionId |-> 0]
  /\ log = [s \in SessionId |-> <<>>]

-----------------------------------------------------------------------------
(* Would acquireLease succeed: no row, or a row that has expired.          *)
Acquirable(s) == leases[s].token = 0 \/ leases[s].expiresAt <= 0

(* Insert the lease row, or take over an expired one.  A call that finds   *)
(* the lease held changes nothing and tells its caller so.                 *)
acquireLease(s) ==
  /\ Acquirable(s) /\ issued[s] < MaxLeases
  /\ issued' = [issued EXCEPT ![s] = @ + 1]
  /\ leases' = [leases EXCEPT ![s] = [token |-> issued[s] + 1, expiresAt |-> SessionTtl]]
  /\ UNCHANGED log

(* releaseLease deletes the row if it still carries the token.             *)
releaseSessionLease(s, t) ==
  /\ t # 0
  /\ leases' = IF leases[s].token = t THEN [leases EXCEPT ![s] = NoLease] ELSE leases
  /\ UNCHANGED <<issued, log>>

forceReleaseLease(s) ==
  /\ leases' = [leases EXCEPT ![s] = NoLease]
  /\ UNCHANGED <<issued, log>>

(* Mutant: a holder whose row is gone may still write.                     *)
HoldsLeaseOrNone(s, t) == t # 0 /\ leases[s].token \in {0, t}

(* withLease lets a write through if the row carries the token, expired or *)
(* not, ...                                                                *)
HoldsLease(s, t) == t # 0 /\ leases[s].token = t

(* ... and renews it: append and appendTape.                               *)
append(s, t, kind, record) ==
  /\ HoldsLease(s, t) /\ Len(log[s]) < MaxLog
  /\ leases' = [leases EXCEPT ![s].expiresAt = SessionTtl]
  /\ log' = [log EXCEPT ![s] = Append(@, [token |-> t, kind |-> kind, record |-> record])]
  /\ UNCHANGED issued

(* deleteSession drops the logs and the lease.                             *)
deleteSession(s) ==
  /\ leases' = [leases EXCEPT ![s] = NoLease]
  /\ log' = [log EXCEPT ![s] = <<>>]
  /\ UNCHANGED issued

SessionTick ==
  /\ leases' = [s \in SessionId |->
                  IF leases[s].expiresAt > 0 THEN [leases[s] EXCEPT !.expiresAt = @ - 1]
                                             ELSE leases[s]]
  /\ UNCHANGED <<issued, log>>

SessionNext ==
  \/ \E s \in SessionId : acquireLease(s) \/ forceReleaseLease(s) \/ deleteSession(s)
  \/ \E s \in SessionId : \E t \in 1..issued[s] : releaseSessionLease(s, t)
  \/ \E s \in SessionId : \E t \in 1..issued[s], kind \in {"entry", "tape"}, rec \in Record :
       append(s, t, kind, rec)
  \/ SessionTick

SessionSpec == SessionInit /\ [][SessionNext]_sessionVars

-----------------------------------------------------------------------------
(* The writes of one lease holder are never interleaved with another's:    *)
(* once a later holder has written to either log, an earlier one, expired, *)
(* force-released or stalled, writes to neither.                           *)
WritersInTurn ==
  \A s \in SessionId : \A i, j \in 1..Len(log[s]) :
    i < j => log[s][i].token <= log[s][j].token

(* The strengthening: no token exceeds the ones issued, and every write of *)
(* a session was made under the token in its lease row or an earlier one.  *)
Fenced ==
  \A s \in SessionId :
    /\ leases[s].token <= issued[s]
    /\ \A i \in 1..Len(log[s]) :
         /\ log[s][i].token <= issued[s]
         /\ leases[s].token # 0 => log[s][i].token <= leases[s].token

SessionIInv == SessionTypeOK /\ Fenced /\ WritersInTurn
=============================================================================
