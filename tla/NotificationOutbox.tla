-------------------------- MODULE NotificationOutbox --------------------------
(***************************************************************************)
(* The notification outbox: rows of the table NotificationOutbox and the   *)
(* runs of dispatchNotificationOutboxBatch that deliver them.  A run is    *)
(* started by the cron route every minute, or inline after an auth message *)
(* is enqueued; any number of runs may overlap.                            *)
(*                                                                         *)
(* Time is relative.  The code compares timestamps only with one another,  *)
(* so a row keeps how long ago it was locked (lockAge) and how long until  *)
(* its next attempt (dueIn), and a run keeps how long ago it read the      *)
(* clock (batchAge): it reads it once, when it starts.                     *)
(***************************************************************************)
EXTENDS Naturals, FiniteSets

CONSTANTS
    Messages,       \* rows that may be enqueued
    Workers,        \* concurrent dispatch runs
    None,           \* "no worker" and "no message"
    ScopeOf,        \* tenantId, else userId, else the channel: the fairness partition
    MaxAttempts,    \* column maxAttempts
    LockStale,      \* LOCK_STALE_SECONDS, in ticks
    MaxBackoff,     \* MAX_BACKOFF_SECONDS, in ticks
    PartitionSize,  \* resolveScopePartitionSize(batchSize)
    BatchSize,      \* clampDispatchBatchSize(batchSize)
    MaxBatchAge,    \* bound: ticks a run may last
    MaxAborts,      \* bound: runs that may die half-way
    MaxSends        \* bound: no new run for a message with that many provider calls

ASSUME OutboxAssumption ==
    /\ None \notin Workers \cup Messages
    /\ IsFiniteSet(Workers)
    /\ MaxAttempts \in Nat \ {0}
    /\ LockStale \in Nat \ {0}
    /\ MaxBackoff \in Nat \ {0}
    /\ {PartitionSize, BatchSize} \subseteq Nat \ {0}
    /\ {MaxBatchAge, MaxAborts, MaxSends} \subseteq Nat

VARIABLES
    \* the table, one function per column
    status, attemptCount, dueIn, lockedBy, lockAge,
    \* the runs: control point, age of the clock reading, rows still to do,
    \* attemptCount of those rows as the run read it, row in hand
    pc, batchAge, batch, snapshot, current,
    \* what an observer counts: provider calls, messages the provider took,
    \* events that excuse a second delivery, audit lines, dead runs
    attempts, delivered, excused, audited, aborts

table == <<status, attemptCount, dueIn, lockedBy, lockAge>>
runs  == <<pc, batchAge, batch, snapshot, current>>
seen  == <<attempts, delivered, excused, audited, aborts>>
vars  == <<table, runs, seen>>

Statuses == {"NONE", "PENDING", "SENT", "FAILED"}
Points   == {"idle", "loop", "locked", "accepted", "failed", "audit"}
Running  == {w \in Workers : pc[w] # "idle"}

\* Ages above this cannot be told apart by any run.
MaxLockAge == MaxBatchAge + LockStale + 1

Least(a, b) == IF a <= b THEN a ELSE b

(***************************************************************************)
(* Enqueue                                                                 *)
(***************************************************************************)
Init ==
    /\ status = [m \in Messages |-> "NONE"]
    /\ attemptCount = [m \in Messages |-> 0]
    /\ dueIn = [m \in Messages |-> 0]
    /\ lockedBy = [m \in Messages |-> None]
    /\ lockAge = [m \in Messages |-> 0]
    /\ pc = [w \in Workers |-> "idle"]
    /\ batchAge = [w \in Workers |-> 0]
    /\ batch = [w \in Workers |-> {}]
    /\ snapshot = [w \in Workers |-> [m \in Messages |-> 0]]
    /\ current = [w \in Workers |-> None]
    /\ attempts = [m \in Messages |-> 0]
    /\ delivered = [m \in Messages |-> 0]
    /\ excused = [m \in Messages |-> 0]
    /\ audited = [m \in Messages |-> 0]
    /\ aborts = 0

\* enqueueEmailNotification, enqueueSmsNotification: insert a due PENDING row.
\* The inline dispatch they may trigger is one more run of StartBatch.
Enqueue(m) ==
    /\ status[m] = "NONE"
    /\ status' = [status EXCEPT ![m] = "PENDING"]
    /\ UNCHANGED <<attemptCount, dueIn, lockedBy, lockAge, runs, seen>>

(***************************************************************************)
(* The dispatch loop                                                       *)
(***************************************************************************)
Due == {m \in Messages : status[m] = "PENDING" /\ dueIn[m] = 0}

\* Faulty: a partition is full one row too early.
FitsOneLess(S) ==
    /\ Cardinality(S) <= BatchSize
    /\ \A m \in S : Cardinality({n \in S : ScopeOf[n] = ScopeOf[m]}) < PartitionSize

\* At most PartitionSize rows of a scope, at most BatchSize rows.
Fits(S) ==
    /\ Cardinality(S) <= BatchSize
    /\ \A m \in S : Cardinality({n \in S : ScopeOf[n] = ScopeOf[m]}) <= PartitionSize

\* findDueRecords: as many due rows as fit, locked ones included.  The code
\* breaks ties by priority and age; any choice that fits is allowed here.
IsDueBatch(S) ==
    /\ S \subseteq Due
    /\ Fits(S)
    /\ \A m \in Due \ S : ~Fits(S \cup {m})

\* The run reads the clock once and the due rows once.  A run that finds
\* nothing changes nothing and is left out.
StartBatch(w) ==
    /\ pc[w] = "idle"
    /\ \E S \in SUBSET Due :
        /\ S # {}
        /\ IsDueBatch(S)
        /\ \A m \in S : attempts[m] < MaxSends
        /\ batch' = [batch EXCEPT ![w] = S]
        /\ snapshot' = [snapshot EXCEPT ![w] =
                            [m \in Messages |-> IF m \in S THEN attemptCount[m] ELSE 0]]
    /\ pc' = [pc EXCEPT ![w] = "loop"]
    /\ batchAge' = [batchAge EXCEPT ![w] = 0]
    /\ UNCHANGED <<table, current, seen>>

\* lockedAt < staleBefore, which is taken from the clock reading of the run.
IsStale(w, m) == lockAge[m] > batchAge[w] + LockStale

\* Faulty: any PENDING row can be locked.
CanLockHeldRow(w, m) == status[m] = "PENDING"

\* Faulty: a stale lock is never taken over.
CanLockFreeRowOnly(w, m) == status[m] = "PENDING" /\ lockedBy[m] = None

\* acquireLock's WHERE clause, without a test of nextAttemptAt.
CanLock(w, m) ==
    /\ status[m] = "PENDING"
    /\ lockedBy[m] = None \/ IsStale(w, m)

\* A lock is stamped with the time the run started, not the time it is taken.
AcquireLock(w, m) ==
    /\ pc[w] = "loop"
    /\ m \in batch[w]
    /\ CanLock(w, m)
    /\ lockedBy' = [lockedBy EXCEPT ![m] = w]
    /\ lockAge' = [lockAge EXCEPT ![m] = batchAge[w]]
    /\ pc' = [pc EXCEPT ![w] = "locked"]
    /\ batch' = [batch EXCEPT ![w] = @ \ {m}]
    /\ current' = [current EXCEPT ![w] = m]
    /\ excused' = [excused EXCEPT ![m] = IF lockedBy[m] # None /\ IsStale(w, m) THEN @ + 1 ELSE @]
    /\ UNCHANGED <<status, attemptCount, dueIn, batchAge, snapshot,
                   attempts, delivered, audited, aborts>>

\* The row is locked by another run, or no longer PENDING: continue.
SkipRow(w, m) ==
    /\ pc[w] = "loop"
    /\ m \in batch[w]
    /\ ~CanLock(w, m)
    /\ batch' = [batch EXCEPT ![w] = @ \ {m}]
    /\ UNCHANGED <<table, pc, batchAge, snapshot, current, seen>>

\* Faulty: a call that throws counts as accepted.
SendIgnoringErrors(w) ==
    /\ pc[w] = "locked"
    /\ attempts' = [attempts EXCEPT ![current[w]] = @ + 1]
    /\ pc' = [pc EXCEPT ![w] = "accepted"]
    /\ \/ delivered' = [delivered EXCEPT ![current[w]] = @ + 1]
       \/ UNCHANGED delivered
    /\ UNCHANGED <<table, batchAge, batch, snapshot, current, excused, audited, aborts>>

\* sendEmail, sendSms.  The provider takes the message and says so, takes it
\* and the call still throws, or does not take it and the call throws.
Send(w) ==
    /\ pc[w] = "locked"
    /\ attempts' = [attempts EXCEPT ![current[w]] = @ + 1]
    /\ \/ /\ pc' = [pc EXCEPT ![w] = "accepted"]
          /\ delivered' = [delivered EXCEPT ![current[w]] = @ + 1]
          /\ UNCHANGED excused
       \/ /\ pc' = [pc EXCEPT ![w] = "failed"]
          /\ delivered' = [delivered EXCEPT ![current[w]] = @ + 1]
          /\ excused' = [excused EXCEPT ![current[w]] = @ + 1]
       \/ /\ pc' = [pc EXCEPT ![w] = "failed"]
          /\ UNCHANGED <<delivered, excused>>
    /\ UNCHANGED <<table, batchAge, batch, snapshot, current, audited, aborts>>

\* Faulty: updates by id alone.
OwnsRowAlways(w, m) == TRUE

\* WHERE id = ... AND lockedBy = lockOwner
OwnsRow(w, m) == lockedBy[m] = w

ClearLock(m) ==
    /\ lockedBy' = [lockedBy EXCEPT ![m] = None]
    /\ lockAge' = [lockAge EXCEPT ![m] = 0]

\* The UPDATE of markSent; a run that lost its lock updates no row.
UpdateSent(w) ==
    LET m == current[w] IN
    IF OwnsRow(w, m)
    THEN /\ status' = [status EXCEPT ![m] = "SENT"]
         /\ attemptCount' = [attemptCount EXCEPT ![m] = @ + 1]
         /\ ClearLock(m)
         /\ UNCHANGED dueIn
    ELSE UNCHANGED table

MarkSent(w) ==
    /\ pc[w] = "accepted"
    /\ UpdateSent(w)
    /\ pc' = [pc EXCEPT ![w] = "loop"]
    /\ current' = [current EXCEPT ![w] = None]
    /\ UNCHANGED <<batchAge, batch, snapshot, seen>>

\* markSent throws, its statement committed or not: the catch block below
\* runs although the provider took the message.
MarkSentThrows(w) ==
    /\ pc[w] = "accepted"
    /\ UpdateSent(w) \/ UNCHANGED table
    /\ pc' = [pc EXCEPT ![w] = "failed"]
    /\ excused' = [excused EXCEPT ![current[w]] = @ + 1]
    /\ UNCHANGED <<batchAge, batch, snapshot, current,
                   attempts, delivered, audited, aborts>>

\* computeRetryDelaySeconds: min(MAX_BACKOFF, 2 ** min(attemptCount, 8)).
PowersOfTwo == <<1, 2, 4, 8, 16, 32, 64, 128, 256>>
RetryDelay(n) == Least(MaxBackoff, PowersOfTwo[Least(n, 8) + 1])

\* The retry is charged to the count the run read when it started.
NextAttemptCount(w) == snapshot[w][current[w]] + 1
\* Faulty: gives up one attempt early.
ReachedMaxEarly(w) == NextAttemptCount(w) + 1 >= MaxAttempts
ReachedMax(w) == NextAttemptCount(w) >= MaxAttempts

\* nextAttemptAt counts from the clock reading of the run.
NextDueIn(w) ==
    LET delay == IF ReachedMax(w) THEN 0 ELSE RetryDelay(NextAttemptCount(w))
    IN IF delay > batchAge[w] THEN delay - batchAge[w] ELSE 0

\* markFailedAttempt; the audit follows even when no row was updated.
MarkFailedAttempt(w) ==
    LET m == current[w] IN
    /\ pc[w] = "failed"
    /\ IF OwnsRow(w, m)
       THEN /\ status' = [status EXCEPT ![m] = IF ReachedMax(w) THEN "FAILED" ELSE "PENDING"]
            /\ attemptCount' = [attemptCount EXCEPT ![m] = NextAttemptCount(w)]
            /\ dueIn' = [dueIn EXCEPT ![m] = NextDueIn(w)]
            /\ ClearLock(m)
       ELSE UNCHANGED table
    /\ IF ReachedMax(w)
       THEN /\ pc' = [pc EXCEPT ![w] = "audit"]
            /\ UNCHANGED current
       ELSE /\ pc' = [pc EXCEPT ![w] = "loop"]
            /\ current' = [current EXCEPT ![w] = None]
    /\ UNCHANGED <<batchAge, batch, snapshot, seen>>

AuditTerminalFailure(w) ==
    /\ pc[w] = "audit"
    /\ audited' = [audited EXCEPT ![current[w]] = @ + 1]
    /\ pc' = [pc EXCEPT ![w] = "loop"]
    /\ current' = [current EXCEPT ![w] = None]
    /\ UNCHANGED <<table, batchAge, batch, snapshot, attempts, delivered, excused, aborts>>

\* Faulty: the row in hand is not let go.
LeaveHolding(w) ==
    /\ pc' = [pc EXCEPT ![w] = "idle"]
    /\ batchAge' = [batchAge EXCEPT ![w] = 0]
    /\ batch' = [batch EXCEPT ![w] = {}]
    /\ snapshot' = [snapshot EXCEPT ![w] = [m \in Messages |-> 0]]
    /\ UNCHANGED current

Leave(w) ==
    /\ pc' = [pc EXCEPT ![w] = "idle"]
    /\ batchAge' = [batchAge EXCEPT ![w] = 0]
    /\ batch' = [batch EXCEPT ![w] = {}]
    /\ snapshot' = [snapshot EXCEPT ![w] = [m \in Messages |-> 0]]
    /\ current' = [current EXCEPT ![w] = None]

EndBatch(w) ==
    /\ pc[w] = "loop"
    /\ batch[w] = {}
    /\ Leave(w)
    /\ UNCHANGED <<table, seen>>

\* The process dies, or acquireLock or markFailedAttempt throws out of the
\* loop: the rest of the batch is dropped and a lock that is held stays.
\* The next run of w has a lock owner of its own; it never updates a row it
\* has not locked itself, so the name can be used again.
Abort(w) ==
    /\ pc[w] # "idle"
    /\ aborts < MaxAborts
    /\ aborts' = aborts + 1
    /\ Leave(w)
    /\ UNCHANGED <<table, attempts, delivered, excused, audited>>

\* Time passes.  MaxBatchAge bounds how long a run may last.
Tick ==
    /\ \A w \in Running : batchAge[w] < MaxBatchAge
    /\ batchAge' = [w \in Workers |-> IF pc[w] = "idle" THEN 0 ELSE batchAge[w] + 1]
    /\ dueIn' = [m \in Messages |-> IF dueIn[m] > 0 THEN dueIn[m] - 1 ELSE 0]
    /\ lockAge' = [m \in Messages |->
                      IF lockedBy[m] = None THEN 0 ELSE Least(lockAge[m] + 1, MaxLockAge)]
    /\ UNCHANGED <<status, attemptCount, lockedBy, pc, batch, snapshot, current, seen>>

\* The steps a started run takes until it returns.
RunStep(w) ==
    \/ \E m \in Messages : AcquireLock(w, m) \/ SkipRow(w, m)
    \/ Send(w)
    \/ MarkSent(w)
    \/ MarkSentThrows(w)
    \/ MarkFailedAttempt(w)
    \/ AuditTerminalFailure(w)
    \/ EndBatch(w)

Next ==
    \/ \E m \in Messages : Enqueue(m)
    \/ \E w \in Workers : StartBatch(w) \/ RunStep(w) \/ Abort(w)
    \/ Tick

Spec == Init /\ [][Next]_vars

\* Cron starts a run every minute, a started run keeps executing, time passes.
FairSpec ==
    /\ Spec
    /\ WF_vars(Tick)
    /\ \A w \in Workers : WF_vars(StartBatch(w)) /\ WF_vars(RunStep(w))
-------------------------------------------------------------------------------
(***************************************************************************)
(* Properties                                                              *)
(***************************************************************************)
TypeOK ==
    /\ status \in [Messages -> Statuses]
    /\ attemptCount \in [Messages -> Nat]
    /\ dueIn \in [Messages -> Nat]
    /\ lockedBy \in [Messages -> Workers \cup {None}]
    /\ lockAge \in [Messages -> Nat]
    /\ pc \in [Workers -> Points]
    /\ batchAge \in [Workers -> Nat]
    /\ batch \in [Workers -> SUBSET Messages]
    /\ snapshot \in [Workers -> [Messages -> Nat]]
    /\ current \in [Workers -> Messages \cup {None}]
    /\ \A w \in Workers : pc[w] \in {"idle", "loop"} <=> current[w] = None
    /\ attempts \in [Messages -> Nat]
    /\ delivered \in [Messages -> Nat]
    /\ excused \in [Messages -> Nat]
    /\ audited \in [Messages -> Nat]
    /\ aborts \in Nat

\* Overlapping runs overwrite attemptCount from stale reads, so the count can
\* fall behind the provider calls really made; it never runs ahead of them.
\* Hence no message is given up before maxAttempts real provider calls.
NoPrematureFailure ==
    \A m \in Messages :
        /\ attemptCount[m] <= attempts[m]
        /\ status[m] = "FAILED" => attempts[m] >= MaxAttempts

\* A row says SENT only if the provider took the message, whichever run, dead
\* or overtaken, wrote it.
SentWasDelivered == \A m \in Messages : status[m] = "SENT" => delivered[m] > 0

\* Every delivery beyond the first is paid for by a lock taken over from a
\* run that overstayed LOCK_STALE_SECONDS, by a provider call that threw
\* after the message was taken, or by a failed markSent.  Overlapping runs
\* by themselves never send twice.
DuplicatesExplained == \A m \in Messages : delivered[m] <= 1 + excused[m]

\* A row that is SENT or FAILED stays so: late answers of runs that lost
\* their lock cannot reopen it, nor turn one outcome into the other.
TerminalIsFinal ==
    [][\A m \in Messages :
          status[m] \in {"SENT", "FAILED"} => status'[m] = status[m]]_vars

\* Every enqueued message is eventually sent or given up, dead runs included.
EventuallySettled ==
    \A m \in Messages : status[m] = "PENDING" ~> status[m] \in {"SENT", "FAILED"}

\* "emits notification_delivery_terminal_failed audit events when a
\* notification reaches terminal FAILED status": every audited message failed.
AuditMeansFailed == \A m \in Messages : audited[m] > 0 => status[m] = "FAILED"
===============================================================================
