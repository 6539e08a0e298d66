--------------------------- MODULE RegistrationProofs ---------------------------
(***************************************************************************)
(* Proofs about NotificationOutbox, for any number of messages and of      *)
(* overlapping runs and any value of the limits, and about Registration,   *)
(* whose codes it carries, for any addresses, numbers and requests.        *)
(***************************************************************************)
EXTENDS NotificationOutbox, Registration, FiniteSetTheorems, TLAPS

(***************************************************************************)
(* The inductive invariant.  A lock is only ever held on a PENDING row; a  *)
(* count is below the limit while the row is PENDING; and what a run read  *)
(* when it started is at most the provider calls made since, its own call  *)
(* included once it is made.                                               *)
(***************************************************************************)
RowInv ==
    \A m \in Messages :
        /\ lockedBy[m] # None => status[m] = "PENDING"
        /\ status[m] = "NONE" => attemptCount[m] = 0
        /\ status[m] = "FAILED" => attemptCount[m] >= MaxAttempts
        /\ status[m] = "SENT" => delivered[m] > 0
        /\ attemptCount[m] <= attempts[m]

RunInv ==
    \A w \in Workers :
        /\ \A m \in batch[w] : snapshot[w][m] <= attempts[m]
        /\ pc[w] = "locked" => snapshot[w][current[w]] <= attempts[current[w]]
        /\ pc[w] \in {"accepted", "failed"} =>
               /\ snapshot[w][current[w]] + 1 <= attempts[current[w]]
               /\ OwnsRow(w, current[w]) =>
                      attemptCount[current[w]] + 1 <= attempts[current[w]]
        /\ pc[w] = "accepted" => delivered[current[w]] > 0

IInv == TypeOK /\ RowInv /\ RunInv
-------------------------------------------------------------------------------
LEMMA RetryDelayNat == \A n \in Nat : RetryDelay(n) \in Nat
<1> SUFFICES ASSUME NEW n \in Nat PROVE RetryDelay(n) \in Nat
  OBVIOUS
<1>1. Least(n, 8) \in 0..8
  BY DEF Least
<1>2. \A i \in 1..9 : PowersOfTwo[i] \in Nat
  BY DEF PowersOfTwo
<1>3. PowersOfTwo[Least(n, 8) + 1] \in Nat
  BY <1>1, <1>2
<1> QED
  BY <1>3, OutboxAssumption DEF RetryDelay, Least

\* Actions of a run keep every variable in its type.
LEMMA TypeStep == TypeOK /\ [Next]_vars => TypeOK'
<1> SUFFICES ASSUME TypeOK, [Next]_vars PROVE TypeOK'
  OBVIOUS
<1> USE OutboxAssumption DEF TypeOK, table, runs, seen
<1>1. ASSUME NEW m \in Messages, Enqueue(m) PROVE TypeOK'
  BY <1>1 DEF Enqueue, Statuses
<1>2. ASSUME NEW w \in Workers, StartBatch(w) PROVE TypeOK'
  <2>1. PICK S \in SUBSET Due :
          /\ batch' = [batch EXCEPT ![w] = S]
          /\ snapshot' = [snapshot EXCEPT ![w] =
                             [m \in Messages |-> IF m \in S THEN attemptCount[m] ELSE 0]]
    BY <1>2 DEF StartBatch
  <2>2. S \in SUBSET Messages
    BY DEF Due
  <2>3. [m \in Messages |-> IF m \in S THEN attemptCount[m] ELSE 0] \in [Messages -> Nat]
    OBVIOUS
  <2> QED
    BY <1>2, <2>1, <2>2, <2>3 DEF StartBatch, Points
<1>3. ASSUME NEW w \in Workers, NEW m \in Messages, AcquireLock(w, m) PROVE TypeOK'
  BY <1>3 DEF AcquireLock, Points
<1>4. ASSUME NEW w \in Workers, NEW m \in Messages, SkipRow(w, m) PROVE TypeOK'
  BY <1>4 DEF SkipRow
<1>5. ASSUME NEW w \in Workers, Send(w) PROVE TypeOK'
  <2>1. current[w] \in Messages
    BY <1>5 DEF Send
  <2>2. /\ attempts' \in [Messages -> Nat]
        /\ delivered' \in [Messages -> Nat]
        /\ excused' \in [Messages -> Nat]
    <3>1. attempts' \in [Messages -> Nat]
      BY <1>5, <2>1 DEF Send
    <3>2. delivered' \in [Messages -> Nat]
      <4>1. delivered' \in {delivered, [delivered EXCEPT ![current[w]] = @ + 1]}
        BY <1>5 DEF Send
      <4> QED
        BY <2>1, <4>1
    <3>3. excused' \in [Messages -> Nat]
      BY <1>5, <2>1 DEF Send
    <3> QED
      BY <3>1, <3>2, <3>3
  <2>3. pc' \in [Workers -> Points] /\ pc'[w] \in {"accepted", "failed"}
    BY <1>5 DEF Send, Points
  <2>4. \A v \in Workers : pc'[v] \in {"idle", "loop"} <=> current'[v] = None
    BY <1>5, <2>1, <2>3 DEF Send
  <2> QED
    BY <1>5, <2>2, <2>3, <2>4 DEF Send
<1>6. ASSUME NEW w \in Workers, UpdateSent(w) \/ UNCHANGED table, current[w] \in Messages
      PROVE  /\ status' \in [Messages -> Statuses]
             /\ attemptCount' \in [Messages -> Nat]
             /\ dueIn' \in [Messages -> Nat]
             /\ lockedBy' \in [Messages -> Workers \cup {None}]
             /\ lockAge' \in [Messages -> Nat]
  <2>1. CASE OwnsRow(w, current[w]) /\ UpdateSent(w)
    <3> DEFINE m == current[w]
    <3>1. /\ status' = [status EXCEPT ![m] = "SENT"]
          /\ attemptCount' = [attemptCount EXCEPT ![m] = @ + 1]
          /\ lockedBy' = [lockedBy EXCEPT ![m] = None]
          /\ lockAge' = [lockAge EXCEPT ![m] = 0]
          /\ dueIn' = dueIn
      BY <2>1 DEF UpdateSent, ClearLock
    <3>2. m \in Messages
      BY <1>6
    <3> HIDE DEF m
    <3>3. status' \in [Messages -> Statuses] /\ attemptCount' \in [Messages -> Nat]
      BY <3>1, <3>2 DEF Statuses
    <3> QED
      BY <3>1, <3>2, <3>3
  <2>2. CASE UNCHANGED table
    BY <2>2
  <2> QED
    BY <1>6, <2>1, <2>2 DEF UpdateSent
<1>7. ASSUME NEW w \in Workers, MarkSent(w) PROVE TypeOK'
  <2>1. current[w] \in Messages
    BY <1>7 DEF MarkSent
  <2> QED
    BY <1>6, <1>7, <2>1 DEF MarkSent, Points
<1>8. ASSUME NEW w \in Workers, MarkSentThrows(w) PROVE TypeOK'
  <2>1. current[w] \in Messages
    BY <1>8 DEF MarkSentThrows
  <2> QED
    BY <1>6, <1>8, <2>1 DEF MarkSentThrows, Points
<1>9. ASSUME NEW w \in Workers, MarkFailedAttempt(w) PROVE TypeOK'
  <2>1. current[w] \in Messages
    BY <1>9 DEF MarkFailedAttempt
  <2>2. NextAttemptCount(w) \in Nat
    BY <2>1 DEF NextAttemptCount
  <2>3. NextDueIn(w) \in Nat
    BY <2>2, RetryDelayNat DEF NextDueIn
  <2>4. /\ status' \in [Messages -> Statuses]
        /\ attemptCount' \in [Messages -> Nat]
        /\ dueIn' \in [Messages -> Nat]
        /\ lockedBy' \in [Messages -> Workers \cup {None}]
        /\ lockAge' \in [Messages -> Nat]
    <3>1. CASE OwnsRow(w, current[w])
      <4> DEFINE m == current[w]
      <4>1. /\ status' \in {[status EXCEPT ![m] = "FAILED"], [status EXCEPT ![m] = "PENDING"]}
            /\ attemptCount' = [attemptCount EXCEPT ![m] = NextAttemptCount(w)]
            /\ dueIn' = [dueIn EXCEPT ![m] = NextDueIn(w)]
            /\ lockedBy' = [lockedBy EXCEPT ![m] = None]
            /\ lockAge' = [lockAge EXCEPT ![m] = 0]
        BY <1>9, <3>1 DEF MarkFailedAttempt, ClearLock
      <4> HIDE DEF m
      <4>2. status' \in [Messages -> Statuses]
        BY <4>1 DEF Statuses
      <4> QED
        BY <2>2, <2>3, <4>1, <4>2
    <3>2. CASE ~OwnsRow(w, current[w])
      BY <1>9, <3>2 DEF MarkFailedAttempt
    <3> QED
      BY <3>1, <3>2
  <2>5. /\ pc' \in [Workers -> Points]
        /\ current' \in [Workers -> Messages \cup {None}]
        /\ \A v \in Workers : pc'[v] \in {"idle", "loop"} <=> current'[v] = None
    BY <1>9, <2>1 DEF MarkFailedAttempt, Points
  <2> QED
    BY <1>9, <2>4, <2>5 DEF MarkFailedAttempt
<1>10. ASSUME NEW w \in Workers, AuditTerminalFailure(w) PROVE TypeOK'
  BY <1>10 DEF AuditTerminalFailure, Points
<1>11. ASSUME NEW w \in Workers, EndBatch(w) PROVE TypeOK'
  BY <1>11 DEF EndBatch, Leave, Points
<1>12. ASSUME NEW w \in Workers, Abort(w) PROVE TypeOK'
  BY <1>12 DEF Abort, Leave, Points
<1>13. ASSUME Tick PROVE TypeOK'
  BY <1>13 DEF Tick, MaxLockAge, Least
<1>14. CASE UNCHANGED vars
  BY <1>14 DEF vars
<1> QED
  BY <1>1, <1>2, <1>3, <1>4, <1>5, <1>7, <1>8, <1>9, <1>10, <1>11, <1>12, <1>13, <1>14
  DEF Next, RunStep

\* Every variable keeps its type, whatever the runs do to one another.
THEOREM TypeCorrect == Spec => []TypeOK
<1>1. Init => TypeOK
  BY DEF Init, TypeOK, Statuses, Points
<1> QED
  BY <1>1, TypeStep, PTL DEF Spec
-------------------------------------------------------------------------------
\* What a completed provider call leaves behind.
LEMMA SendStep ==
    ASSUME TypeOK, RowInv, RunInv, NEW w \in Workers, Send(w)
    PROVE  RowInv' /\ RunInv'
<1> DEFINE m == current[w]
<1> USE DEF TypeOK
<1>1. m \in Messages
  BY DEF Send
<1>2. /\ attempts' = [attempts EXCEPT ![m] = @ + 1]
      /\ delivered' \in {delivered, [delivered EXCEPT ![m] = @ + 1]}
      /\ pc' \in {[pc EXCEPT ![w] = "accepted"], [pc EXCEPT ![w] = "failed"]}
      /\ pc'[w] = "accepted" => delivered' = [delivered EXCEPT ![m] = @ + 1]
      /\ UNCHANGED <<status, attemptCount, lockedBy, batch, snapshot, current>>
      /\ pc[w] = "locked"
  BY DEF Send, table
<1>3. \A n \in Messages :
        /\ attempts[n] <= attempts'[n]
        /\ delivered[n] <= delivered'[n]
        /\ attempts[n] \in Nat /\ attempts'[n] \in Nat
        /\ delivered[n] \in Nat /\ delivered'[n] \in Nat
        /\ attemptCount[n] \in Nat
  <2>1. CASE delivered' = delivered
    BY <1>1, <1>2, <2>1
  <2>2. CASE delivered' = [delivered EXCEPT ![m] = @ + 1]
    BY <1>1, <1>2, <2>2
  <2> QED
    BY <1>2, <2>1, <2>2
<1>4. RowInv'
  BY <1>2, <1>3 DEF RowInv
<1>5. ASSUME NEW v \in Workers
      PROVE  /\ \A n \in batch'[v] : snapshot'[v][n] <= attempts'[n]
             /\ pc'[v] = "locked" => snapshot'[v][current'[v]] <= attempts'[current'[v]]
             /\ pc'[v] \in {"accepted", "failed"} =>
                   /\ snapshot'[v][current'[v]] + 1 <= attempts'[current'[v]]
                   /\ OwnsRow(v, current[v])' =>
                         attemptCount'[current'[v]] + 1 <= attempts'[current'[v]]
             /\ pc'[v] = "accepted" => delivered'[current'[v]] > 0
  <2>1. \A n \in Messages : snapshot[v][n] \in Nat
    OBVIOUS
  <2>2. \A n \in batch'[v] : snapshot'[v][n] <= attempts'[n]
    <3>1. SUFFICES ASSUME NEW n \in batch[v] PROVE snapshot[v][n] <= attempts'[n]
      BY <1>2
    <3>2. n \in Messages
      OBVIOUS
    <3> QED
      BY <1>3, <2>1, <3>2 DEF RunInv
  <2>3. CASE v = w
    <3>1. /\ snapshot[w][m] <= attempts[m]
          /\ attemptCount[m] <= attempts[m]
          /\ attempts'[m] = attempts[m] + 1
      BY <1>1, <1>2 DEF RunInv, RowInv
    <3>2. pc'[w] = "accepted" => delivered'[m] > 0
      BY <1>1, <1>2, <1>3
    <3> HIDE DEF m
    <3>3. snapshot[w][m] + 1 <= attempts'[m] /\ attemptCount[m] + 1 <= attempts'[m]
      BY <1>1, <1>3, <2>1, <2>3, <3>1
    <3>4. pc'[w] # "locked"
      BY <1>2
    <3> QED
      BY <1>2, <2>2, <2>3, <3>2, <3>3, <3>4 DEF m
  <2>4. CASE v # w
    <3>1. pc'[v] = pc[v]
      BY <1>2, <2>4
    <3>2. pc[v] \in {"locked", "accepted", "failed"} => current[v] \in Messages
      OBVIOUS
    <3>3. OwnsRow(v, current[v])' <=> OwnsRow(v, current[v])
      BY <1>2 DEF OwnsRow
    <3>4. pc[v] = "locked" => snapshot[v][current[v]] <= attempts'[current[v]]
      BY <1>3, <2>1, <3>2 DEF RunInv
    <3>5. pc[v] \in {"accepted", "failed"} =>
            /\ snapshot[v][current[v]] + 1 <= attempts'[current[v]]
            /\ OwnsRow(v, current[v]) => attemptCount[current[v]] + 1 <= attempts'[current[v]]
      BY <1>3, <2>1, <3>2 DEF RunInv
    <3>6. pc[v] = "accepted" => delivered'[current[v]] > 0
      BY <1>3, <3>2 DEF RunInv
    <3> QED
      BY <1>2, <2>2, <3>1, <3>3, <3>4, <3>5, <3>6
  <2> QED
    BY <2>3, <2>4
<1>6. RunInv'
  BY <1>5 DEF RunInv
<1> QED
  BY <1>4, <1>6

\* A run other than the one that moves keeps its part of RunInv when counters
\* stand still and rows are released or left alone.
RunInvAt(v) ==
    /\ \A m \in batch[v] : snapshot[v][m] <= attempts[m]
    /\ pc[v] = "locked" => snapshot[v][current[v]] <= attempts[current[v]]
    /\ pc[v] \in {"accepted", "failed"} =>
           /\ snapshot[v][current[v]] + 1 <= attempts[current[v]]
           /\ OwnsRow(v, current[v]) =>
                  attemptCount[current[v]] + 1 <= attempts[current[v]]
    /\ pc[v] = "accepted" => delivered[current[v]] > 0

LEMMA RunInvSplit == RunInv <=> \A v \in Workers : RunInvAt(v)
BY DEF RunInv, RunInvAt

\* The UPDATE of markSent, by the lock owner or by a run that lost its lock.
LEMMA UpdateSentStep ==
    ASSUME TypeOK, RowInv, RunInv, NEW w \in Workers, pc[w] = "accepted",
           UpdateSent(w) \/ UNCHANGED table, UNCHANGED <<attempts, delivered>>
    PROVE  /\ RowInv'
           /\ \A v \in Workers : v # w /\ UNCHANGED <<pc[v], batch[v], snapshot[v], current[v]>>
                                  => RunInvAt(v)'
           /\ lockedBy'[current[w]] = w => UNCHANGED table
<1> DEFINE m == current[w]
<1> USE DEF TypeOK
<1>1. m \in Messages
  OBVIOUS
<1>2. CASE UNCHANGED table
  <2>1. RowInv'
    BY <1>2 DEF RowInv, table
  <2>2. \A v \in Workers : UNCHANGED <<pc[v], batch[v], snapshot[v], current[v]>>
                           => RunInvAt(v)'
    BY <1>2, RunInvSplit DEF RunInvAt, OwnsRow, table
  <2> QED
    BY <1>2, <2>1, <2>2
<1>3. CASE OwnsRow(w, m) /\ UpdateSent(w)
  <2>1. /\ status' = [status EXCEPT ![m] = "SENT"]
        /\ attemptCount' = [attemptCount EXCEPT ![m] = @ + 1]
        /\ lockedBy' = [lockedBy EXCEPT ![m] = None]
    BY <1>3 DEF UpdateSent, ClearLock
  <2>2. attemptCount[m] + 1 <= attempts[m] /\ delivered[m] > 0
    BY <1>3, RunInvSplit DEF RunInvAt
  <2> HIDE DEF m
  <2>3. RowInv'
    BY <1>1, <2>1, <2>2 DEF RowInv
  <2>4. ASSUME NEW v \in Workers, v # w, UNCHANGED <<pc[v], batch[v], snapshot[v], current[v]>>
        PROVE  RunInvAt(v)'
    <3>1. OwnsRow(v, current[v])' => OwnsRow(v, current[v]) /\ current[v] # m
      BY <1>1, <2>1, <2>4, OutboxAssumption DEF OwnsRow
    <3>2. pc[v] \in {"accepted", "failed"} => current[v] \in Messages
      OBVIOUS
    <3>3. pc[v] \in {"accepted", "failed"} /\ OwnsRow(v, current[v])'
            => attemptCount'[current[v]] = attemptCount[current[v]]
      BY <2>1, <3>1, <3>2
    <3> QED
      BY <2>4, <3>1, <3>3, RunInvSplit DEF RunInvAt
  <2>5. lockedBy'[m] # w
    BY <1>1, <2>1, OutboxAssumption
  <2> QED
    BY <2>3, <2>4, <2>5 DEF m
<1> QED
  BY <1>2, <1>3 DEF UpdateSent

\* The UPDATE of markFailedAttempt.
LEMMA MarkFailedStep ==
    ASSUME TypeOK, RowInv, RunInv, NEW w \in Workers, MarkFailedAttempt(w)
    PROVE  RowInv' /\ RunInv'
<1> DEFINE m == current[w]
<1> USE DEF TypeOK
<1>1. m \in Messages /\ pc[w] = "failed"
  BY DEF MarkFailedAttempt
<1>2. UNCHANGED <<attempts, delivered, batch, snapshot>>
  BY DEF MarkFailedAttempt, seen
<1>3. /\ pc'[w] \in {"audit", "loop"}
      /\ \A v \in Workers : v # w => UNCHANGED <<pc[v], current[v]>>
  BY DEF MarkFailedAttempt
<1>4. RunInvAt(w)'
  BY <1>2, <1>3, RunInvSplit DEF RunInvAt
<1>5. CASE OwnsRow(w, m)
  <2>1. /\ status' = [status EXCEPT ![m] = IF ReachedMax(w) THEN "FAILED" ELSE "PENDING"]
        /\ attemptCount' = [attemptCount EXCEPT ![m] = NextAttemptCount(w)]
        /\ lockedBy' = [lockedBy EXCEPT ![m] = None]
    BY <1>5 DEF MarkFailedAttempt, ClearLock
  <2>2. NextAttemptCount(w) <= attempts[m] /\ NextAttemptCount(w) \in Nat
    BY <1>1, RunInvSplit DEF RunInvAt, NextAttemptCount
  <2>3. ReachedMax(w) <=> NextAttemptCount(w) >= MaxAttempts
    BY DEF ReachedMax
  <2> HIDE DEF m
  <2>4. RowInv'
    BY <1>1, <1>2, <2>1, <2>2, <2>3 DEF RowInv
  <2>5. ASSUME NEW v \in Workers, v # w PROVE RunInvAt(v)'
    <3>1. OwnsRow(v, current[v])' => OwnsRow(v, current[v]) /\ current[v] # m
      BY <1>1, <1>3, <2>1, <2>5, OutboxAssumption DEF OwnsRow
    <3>2. pc[v] \in {"accepted", "failed"} => current[v] \in Messages
      OBVIOUS
    <3>3. pc[v] \in {"accepted", "failed"} /\ OwnsRow(v, current[v])'
            => attemptCount'[current[v]] = attemptCount[current[v]]
      BY <2>1, <3>1, <3>2
    <3> QED
      BY <1>2, <1>3, <2>5, <3>1, <3>3, RunInvSplit DEF RunInvAt
  <2>6. RunInv'
    BY <1>4, <2>5 DEF RunInv, RunInvAt
  <2> QED
    BY <2>4, <2>6
<1>6. CASE ~OwnsRow(w, m)
  <2>1. UNCHANGED table
    BY <1>6 DEF MarkFailedAttempt
  <2>2. RowInv'
    BY <1>2, <2>1 DEF RowInv, table
  <2>3. \A v \in Workers : v # w => RunInvAt(v)'
    BY <1>2, <1>3, <2>1, RunInvSplit DEF RunInvAt, OwnsRow, table
  <2>4. RunInv'
    BY <1>4, <2>3 DEF RunInv, RunInvAt
  <2> QED
    BY <2>2, <2>4
<1> QED
  BY <1>5, <1>6

LEMMA InvStep == IInv /\ [Next]_vars => IInv'
<1> SUFFICES ASSUME TypeOK, RowInv, RunInv, [Next]_vars PROVE IInv'
  BY DEF IInv
<1>0. TypeOK'
  BY TypeStep
<1> SUFFICES RowInv' /\ \A v \in Workers : RunInvAt(v)'
  BY <1>0 DEF IInv, RunInv, RunInvAt
<1> USE DEF TypeOK
<1>1. ASSUME NEW m \in Messages, Enqueue(m) PROVE RowInv' /\ \A v \in Workers : RunInvAt(v)'
  <2>1. RowInv'
    BY <1>1, OutboxAssumption DEF Enqueue, RowInv, seen, runs
  <2>2. \A v \in Workers : RunInvAt(v)'
    BY <1>1, RunInvSplit DEF Enqueue, RunInvAt, OwnsRow, seen, runs
  <2> QED
    BY <2>1, <2>2
<1>2. ASSUME NEW w \in Workers, StartBatch(w) PROVE RowInv' /\ \A v \in Workers : RunInvAt(v)'
  <2>1. PICK S \in SUBSET Due :
          /\ batch' = [batch EXCEPT ![w] = S]
          /\ snapshot' = [snapshot EXCEPT ![w] =
                             [m \in Messages |-> IF m \in S THEN attemptCount[m] ELSE 0]]
    BY <1>2 DEF StartBatch
  <2>2. /\ pc' = [pc EXCEPT ![w] = "loop"]
        /\ UNCHANGED <<status, attemptCount, lockedBy, current, attempts, delivered>>
    BY <1>2 DEF StartBatch, table, seen
  <2>3. RowInv'
    BY <2>2 DEF RowInv
  <2>4. S \subseteq Messages
    BY DEF Due
  <2>5. RunInvAt(w)'
    BY <2>1, <2>2, <2>4 DEF RunInvAt, RowInv
  <2>6. \A v \in Workers : v # w => RunInvAt(v)'
    BY <2>1, <2>2, RunInvSplit DEF RunInvAt, OwnsRow
  <2> QED
    BY <2>3, <2>5, <2>6
<1>3. ASSUME NEW w \in Workers, NEW m \in Messages, AcquireLock(w, m)
      PROVE  RowInv' /\ \A v \in Workers : RunInvAt(v)'
  <2>1. /\ pc[w] = "loop" /\ m \in batch[w] /\ status[m] = "PENDING"
        /\ lockedBy' = [lockedBy EXCEPT ![m] = w]
        /\ pc' = [pc EXCEPT ![w] = "locked"]
        /\ batch' = [batch EXCEPT ![w] = @ \ {m}]
        /\ current' = [current EXCEPT ![w] = m]
        /\ UNCHANGED <<status, attemptCount, snapshot, attempts, delivered>>
    BY <1>3 DEF AcquireLock, CanLock
  <2>2. RowInv'
    BY <2>1 DEF RowInv
  <2>3. RunInvAt(w)'
    BY <2>1, RunInvSplit DEF RunInvAt
  <2>4. ASSUME NEW v \in Workers, v # w PROVE RunInvAt(v)'
    <3>1. UNCHANGED <<pc[v], batch[v], current[v]>>
      BY <2>1, <2>4
    <3>2. pc[v] \in {"accepted", "failed"} => (OwnsRow(v, current[v])' => OwnsRow(v, current[v]))
      BY <2>1, <2>4, <3>1 DEF OwnsRow
    <3> QED
      BY <2>1, <3>1, <3>2, RunInvSplit DEF RunInvAt
  <2> QED
    BY <2>2, <2>3, <2>4
<1>4. ASSUME NEW w \in Workers, NEW m \in Messages, SkipRow(w, m)
      PROVE  RowInv' /\ \A v \in Workers : RunInvAt(v)'
  <2>1. /\ batch' = [batch EXCEPT ![w] = @ \ {m}]
        /\ UNCHANGED <<status, attemptCount, lockedBy, pc, snapshot, current, attempts, delivered>>
    BY <1>4 DEF SkipRow, table, seen
  <2>2. RowInv'
    BY <2>1 DEF RowInv
  <2>3. \A v \in Workers : RunInvAt(v)'
    BY <2>1, RunInvSplit DEF RunInvAt, OwnsRow
  <2> QED
    BY <2>2, <2>3
<1>5. ASSUME NEW w \in Workers, Send(w) PROVE RowInv' /\ \A v \in Workers : RunInvAt(v)'
  BY <1>5, SendStep DEF RunInv, RunInvAt
<1>6. ASSUME NEW w \in Workers, MarkSent(w) PROVE RowInv' /\ \A v \in Workers : RunInvAt(v)'
  <2>1. /\ pc[w] = "accepted"
        /\ UpdateSent(w) \/ UNCHANGED table
        /\ pc' = [pc EXCEPT ![w] = "loop"]
        /\ \A v \in Workers : v # w => UNCHANGED <<pc[v], batch[v], snapshot[v], current[v]>>
        /\ UNCHANGED <<batch, snapshot, attempts, delivered>>
    BY <1>6 DEF MarkSent, seen
  <2>2. RunInvAt(w)'
    BY <2>1, RunInvSplit DEF RunInvAt
  <2> QED
    BY <2>1, <2>2, UpdateSentStep
<1>7. ASSUME NEW w \in Workers, MarkSentThrows(w)
      PROVE  RowInv' /\ \A v \in Workers : RunInvAt(v)'
  <2>1. /\ pc[w] = "accepted"
        /\ UpdateSent(w) \/ UNCHANGED table
        /\ pc' = [pc EXCEPT ![w] = "failed"]
        /\ \A v \in Workers : v # w => UNCHANGED <<pc[v], batch[v], snapshot[v], current[v]>>
        /\ UNCHANGED <<batch, snapshot, current, attempts, delivered>>
    BY <1>7 DEF MarkSentThrows
  <2>2. lockedBy'[current[w]] = w => UNCHANGED table
    BY <2>1, UpdateSentStep
  <2>3. RunInvAt(w)'
    BY <2>1, <2>2, RunInvSplit DEF RunInvAt, OwnsRow, table
  <2> QED
    BY <2>1, <2>3, UpdateSentStep
<1>8. ASSUME NEW w \in Workers, MarkFailedAttempt(w)
      PROVE  RowInv' /\ \A v \in Workers : RunInvAt(v)'
  BY <1>8, MarkFailedStep DEF RunInv, RunInvAt
<1>9. ASSUME NEW w \in Workers,
             AuditTerminalFailure(w) \/ EndBatch(w) \/ Abort(w)
      PROVE  RowInv' /\ \A v \in Workers : RunInvAt(v)'
  <2>1. /\ pc'[w] \in {"loop", "idle"}
        /\ batch'[w] \subseteq batch[w]
        /\ batch'[w] # {} => snapshot'[w] = snapshot[w]
        /\ UNCHANGED <<status, attemptCount, lockedBy, attempts, delivered>>
        /\ \A v \in Workers : v # w => UNCHANGED <<pc[v], batch[v], snapshot[v], current[v]>>
    BY <1>9 DEF AuditTerminalFailure, EndBatch, Abort, Leave, table, seen
  <2>2. RowInv'
    BY <2>1 DEF RowInv
  <2>3. RunInvAt(w)'
    BY <2>1, RunInvSplit DEF RunInvAt
  <2>4. \A v \in Workers : v # w => RunInvAt(v)'
    BY <2>1, RunInvSplit DEF RunInvAt, OwnsRow
  <2> QED
    BY <2>2, <2>3, <2>4
<1>10. ASSUME Tick \/ UNCHANGED vars PROVE RowInv' /\ \A v \in Workers : RunInvAt(v)'
  <2>1. UNCHANGED <<status, attemptCount, lockedBy, pc, batch, snapshot, current,
                    attempts, delivered>>
    BY <1>10 DEF Tick, vars, table, runs, seen
  <2>2. RowInv'
    BY <2>1 DEF RowInv
  <2>3. \A v \in Workers : RunInvAt(v)'
    BY <2>1, RunInvSplit DEF RunInvAt, OwnsRow
  <2> QED
    BY <2>2, <2>3
<1> QED
  BY <1>1, <1>2, <1>3, <1>4, <1>5, <1>6, <1>7, <1>8, <1>9, <1>10 DEF Next, RunStep

LEMMA InductiveInvariant == Spec => []IInv
<1>1. Init => IInv
  BY OutboxAssumption DEF Init, IInv, TypeOK, RowInv, RunInv, Statuses, Points
<1> QED
  BY <1>1, InvStep, PTL DEF Spec

\* However runs overlap, die and overwrite each other's counts, no message is
\* given up before maxAttempts provider calls were made for it.
THEOREM GivenUpOnlyAfterMaxAttempts == Spec => []NoPrematureFailure
<1>1. IInv => NoPrematureFailure
  BY OutboxAssumption DEF IInv, TypeOK, RowInv, NoPrematureFailure
<1> QED
  BY <1>1, InductiveInvariant, PTL

\* A SENT row is a message some provider call delivered.
THEOREM SentIsDelivered == Spec => []SentWasDelivered
<1>1. IInv => SentWasDelivered
  BY DEF IInv, RowInv, SentWasDelivered
<1> QED
  BY <1>1, InductiveInvariant, PTL

\* No step changes the status of a SENT or FAILED row.
LEMMA FinalStep ==
    ASSUME IInv, [Next]_vars, NEW m \in Messages, status[m] \in {"SENT", "FAILED"}
    PROVE  status'[m] = status[m]
<1> USE DEF IInv, TypeOK
<1>1. lockedBy[m] = None
  BY DEF RowInv
<1>2. ASSUME NEW w \in Workers, UpdateSent(w) \/ UNCHANGED table, current[w] \in Messages
      PROVE  status'[m] = status[m]
  BY <1>1, <1>2, OutboxAssumption DEF UpdateSent, OwnsRow, table
<1>3. ASSUME NEW w \in Workers, MarkSent(w) \/ MarkSentThrows(w) PROVE status'[m] = status[m]
  BY <1>2, <1>3 DEF MarkSent, MarkSentThrows
<1>4. ASSUME NEW w \in Workers, MarkFailedAttempt(w) PROVE status'[m] = status[m]
  BY <1>1, <1>4, OutboxAssumption DEF MarkFailedAttempt, OwnsRow, table
<1>5. ASSUME NEW n \in Messages, Enqueue(n) PROVE status'[m] = status[m]
  BY <1>5 DEF Enqueue
<1>6. ASSUME NEW w \in Workers,
             \/ \E n \in Messages : AcquireLock(w, n) \/ SkipRow(w, n)
             \/ StartBatch(w) \/ Send(w) \/ AuditTerminalFailure(w) \/ EndBatch(w) \/ Abort(w)
      PROVE  status'[m] = status[m]
  BY <1>6 DEF AcquireLock, SkipRow, StartBatch, Send, AuditTerminalFailure, EndBatch, Abort, table
<1>7. ASSUME Tick \/ UNCHANGED vars PROVE status'[m] = status[m]
  BY <1>7 DEF Tick, vars, table
<1> QED
  BY <1>3, <1>4, <1>5, <1>6, <1>7 DEF Next, RunStep

\* An outcome once recorded is never replaced.
THEOREM OutcomesAreFinal == Spec => TerminalIsFinal
<1>1. IInv /\ [Next]_vars => [\A m \in Messages :
          status[m] \in {"SENT", "FAILED"} => status'[m] = status[m]]_vars
  BY FinalStep
<1> QED
  BY <1>1, InductiveInvariant, PTL DEF Spec, TerminalIsFinal
-------------------------------------------------------------------------------
(***************************************************************************)
(* Duplicates.  The invariant counts the provider calls that may still     *)
(* deliver: with those included, a message is one delivery ahead of its    *)
(* excuses at most, and not even one while its row waits for the next run  *)
(* or its lock owner has caught an error.                                  *)
(***************************************************************************)
InCall(m) == {w \in Workers : pc[w] = "locked" /\ current[w] = m}

Settling(m) ==
    \/ lockedBy[m] = None /\ status[m] \in {"NONE", "PENDING"}
    \/ \E w \in Workers : lockedBy[m] = w /\ pc[w] = "failed" /\ current[w] = m

DupInvAt(m) ==
    delivered[m] + Cardinality(InCall(m)) <= excused[m] + (IF Settling(m) THEN 0 ELSE 1)

DupInv == \A m \in Messages : DupInvAt(m)

LEMMA InCallFinite ==
    \A m : IsFiniteSet(InCall(m)) /\ Cardinality(InCall(m)) \in Nat
<1> SUFFICES ASSUME NEW m
             PROVE  IsFiniteSet(InCall(m)) /\ Cardinality(InCall(m)) \in Nat
  OBVIOUS
<1>1. InCall(m) \in SUBSET Workers
  BY DEF InCall
<1> QED
  BY <1>1, FS_Subset, FS_CardinalityType, OutboxAssumption

CountsAreNat(m) == delivered[m] \in Nat /\ excused[m] \in Nat

\* A step that starts no call, excuses nothing less, delivers nothing and
\* leaves a settling row only behind a settling row.
LEMMA QuietStep ==
    ASSUME NEW n \in Messages, DupInvAt(n), CountsAreNat(n), CountsAreNat(n)',
           InCall(n)' \subseteq InCall(n),
           delivered'[n] = delivered[n], excused[n] <= excused'[n],
           Settling(n)' => Settling(n) \/ excused[n] + 1 <= excused'[n]
    PROVE  DupInvAt(n)'
<1>1. Cardinality(InCall(n)') <= Cardinality(InCall(n))
  BY InCallFinite, FS_Subset
<1>2. Cardinality(InCall(n)') \in Nat /\ Cardinality(InCall(n)) \in Nat
  <2>1. InCall(n)' \in SUBSET InCall(n)
    OBVIOUS
  <2> QED
    BY <2>1, InCallFinite, FS_Subset, FS_CardinalityType
<1>3. /\ delivered[n] \in Nat /\ delivered'[n] \in Nat
      /\ excused[n] \in Nat /\ excused'[n] \in Nat
  BY DEF CountsAreNat
<1>4. delivered[n] + Cardinality(InCall(n)) <= excused[n] + (IF Settling(n) THEN 0 ELSE 1)
  BY DEF DupInvAt
<1>5. delivered'[n] + Cardinality(InCall(n)') <= excused'[n] + (IF Settling(n)' THEN 0 ELSE 1)
  BY <1>1, <1>2, <1>3, <1>4
<1> QED
  BY <1>5 DEF DupInvAt

\* Taking a lock opens a call: on a free row within the allowance, on a row
\* taken over from another run against one more excuse.
LEMMA AcquireDup ==
    ASSUME IInv, TypeOK', DupInv, NEW w \in Workers, NEW m \in Messages, AcquireLock(w, m)
    PROVE  DupInv'
<1> USE DEF IInv, TypeOK
<1>1. /\ pc[w] = "loop" /\ current[w] = None /\ status[m] = "PENDING"
      /\ lockedBy' = [lockedBy EXCEPT ![m] = w]
      /\ pc' = [pc EXCEPT ![w] = "locked"]
      /\ current' = [current EXCEPT ![w] = m]
      /\ excused' = [excused EXCEPT ![m] = IF lockedBy[m] = None THEN @ ELSE @ + 1]
      /\ UNCHANGED <<status, delivered>>
  BY DEF AcquireLock, CanLock
<1> SUFFICES ASSUME NEW n \in Messages PROVE DupInvAt(n)'
  BY DEF DupInv
<1>0. DupInvAt(n) /\ CountsAreNat(n) /\ CountsAreNat(n)'
  BY DEF DupInv, CountsAreNat
<1>2. CASE n # m
  <2>1. InCall(n)' = InCall(n)
    BY <1>1, <1>2 DEF InCall
  <2>2. Settling(n)' => Settling(n)
    BY <1>1, <1>2 DEF Settling
  <2> QED
    <3>1. delivered'[n] = delivered[n] /\ excused'[n] = excused[n]
      BY <1>1, <1>2
    <3>2. excused[n] <= excused'[n]
      BY <1>0, <3>1 DEF CountsAreNat
    <3> QED
      BY <1>0, <2>1, <2>2, <3>1, <3>2, QuietStep
<1>3. CASE n = m
  <2>1. InCall(m)' = InCall(m) \cup {w} /\ w \notin InCall(m)
    BY <1>1 DEF InCall
  <2>2. Cardinality(InCall(m)') = Cardinality(InCall(m)) + 1
    <3>1. Cardinality(InCall(m) \cup {w}) = Cardinality(InCall(m)) + 1
      BY <2>1, InCallFinite, FS_AddElement
    <3> QED
      BY <2>1, <3>1
  <2>3. ~Settling(m)'
    BY <1>1, OutboxAssumption DEF Settling
  <2>4. lockedBy[m] = None => Settling(m)
    BY <1>1 DEF Settling
  <2>5. delivered[m] + Cardinality(InCall(m)) <= excused[m] + (IF Settling(m) THEN 0 ELSE 1)
    BY DEF DupInv, DupInvAt
  <2>6. delivered[m] \in Nat /\ excused[m] \in Nat /\ Cardinality(InCall(m)) \in Nat
    BY InCallFinite
  <2>7. CASE lockedBy[m] = None
    <3>1. excused'[m] = excused[m]
      BY <1>1, <2>7
    <3> QED
      BY <1>1, <1>3, <2>2, <2>3, <2>4, <2>5, <2>6, <2>7, <3>1 DEF DupInvAt
  <2>8. CASE lockedBy[m] # None
    <3>1. excused'[m] = excused[m] + 1
      BY <1>1, <2>8
    <3> QED
      BY <1>1, <1>3, <2>2, <2>3, <2>5, <2>6, <3>1 DEF DupInvAt
  <2> QED
    BY <2>7, <2>8
<1> QED
  BY <1>2, <1>3

\* A call closes: delivered, delivered with an error, or refused.
LEMMA SendDup ==
    ASSUME IInv, TypeOK', DupInv, NEW w \in Workers, Send(w)
    PROVE  DupInv'
<1> DEFINE m == current[w]
<1> USE DEF IInv, TypeOK
<1>1. /\ m \in Messages /\ pc[w] = "locked"
      /\ UNCHANGED <<status, lockedBy, current>>
      /\ \/ /\ pc' = [pc EXCEPT ![w] = "accepted"]
            /\ delivered' = [delivered EXCEPT ![m] = @ + 1]
            /\ excused' = excused
         \/ /\ pc' = [pc EXCEPT ![w] = "failed"]
            /\ delivered' = [delivered EXCEPT ![m] = @ + 1]
            /\ excused' = [excused EXCEPT ![m] = @ + 1]
         \/ /\ pc' = [pc EXCEPT ![w] = "failed"]
            /\ UNCHANGED <<delivered, excused>>
  BY DEF Send, table
<1>2. pc' \in {[pc EXCEPT ![w] = "accepted"], [pc EXCEPT ![w] = "failed"]}
  BY <1>1
<1> SUFFICES ASSUME NEW n \in Messages PROVE DupInvAt(n)'
  BY DEF DupInv
<1>0. DupInvAt(n) /\ CountsAreNat(n) /\ CountsAreNat(n)'
  BY DEF DupInv, CountsAreNat
<1>3. CASE n # m
  <2>1. InCall(n)' = InCall(n)
    BY <1>1, <1>2, <1>3 DEF InCall
  <2>2. Settling(n)' => Settling(n)
    BY <1>1, <1>2, <1>3 DEF Settling
  <2>3. delivered'[n] = delivered[n] /\ excused'[n] = excused[n]
    BY <1>1, <1>3
  <2> QED
    <3>1. excused[n] <= excused'[n]
      BY <1>0, <2>3 DEF CountsAreNat
    <3> QED
      BY <1>0, <2>1, <2>2, <2>3, <3>1, QuietStep
<1>4. CASE n = m
  <2>1. InCall(n)' = InCall(n) \ {w} /\ w \in InCall(n)
    BY <1>1, <1>2, <1>4 DEF InCall
  <2>2. Cardinality(InCall(n)') = Cardinality(InCall(n)) - 1
    <3>1. Cardinality(InCall(n) \ {w}) = Cardinality(InCall(n)) - 1
      BY <2>1, InCallFinite, FS_RemoveElement
    <3> QED
      BY <2>1, <3>1
  <2>3. delivered[n] + Cardinality(InCall(n)) <= excused[n] + (IF Settling(n) THEN 0 ELSE 1)
    BY DEF DupInv, DupInvAt
  <2>4. delivered[n] \in Nat /\ excused[n] \in Nat /\ Cardinality(InCall(n)) \in Nat
    BY InCallFinite
  <2>5. CASE /\ pc' = [pc EXCEPT ![w] = "accepted"]
             /\ delivered' = [delivered EXCEPT ![m] = @ + 1]
             /\ excused' = excused
    <3>1. Settling(n)' => Settling(n)
      BY <1>1, <1>4, <2>5 DEF Settling
    <3>2. delivered'[n] = delivered[n] + 1
      BY <1>4, <2>5
    <3>3. delivered'[n] + Cardinality(InCall(n)') = delivered[n] + Cardinality(InCall(n))
      BY <2>2, <2>4, <3>2
    <3> QED
      BY <2>3, <2>4, <2>5, <3>1, <3>3 DEF DupInvAt
  <2>6. CASE /\ delivered' = [delivered EXCEPT ![m] = @ + 1]
             /\ excused' = [excused EXCEPT ![m] = @ + 1]
    <3>1. delivered'[n] = delivered[n] + 1 /\ excused'[n] = excused[n] + 1
      BY <1>4, <2>6
    <3>2. delivered'[n] + Cardinality(InCall(n)') <= excused'[n]
      BY <2>2, <2>3, <2>4, <3>1
    <3> QED
      BY <1>0, <2>2, <2>4, <3>1, <3>2 DEF DupInvAt, CountsAreNat
  <2>7. CASE UNCHANGED <<delivered, excused>>
    <3>1. delivered'[n] + Cardinality(InCall(n)') <= excused'[n]
      BY <2>2, <2>3, <2>4, <2>7
    <3> QED
      BY <1>0, <2>2, <2>4, <2>7, <3>1 DEF DupInvAt, CountsAreNat
  <2> QED
    BY <1>1, <2>5, <2>6, <2>7
<1> QED
  BY <1>3, <1>4

\* Recording an outcome.  Only the owner of a caught error releases a row to
\* the next run, and its row was settling already.
LEMMA MarkDup ==
    ASSUME IInv, TypeOK', DupInv, NEW w \in Workers,
           MarkSent(w) \/ MarkSentThrows(w) \/ MarkFailedAttempt(w)
    PROVE  DupInv'
<1> DEFINE m == current[w]
<1> USE DEF IInv, TypeOK
<1> SUFFICES ASSUME NEW n \in Messages PROVE DupInvAt(n)'
  BY DEF DupInv
<1>0. DupInvAt(n) /\ CountsAreNat(n) /\ CountsAreNat(n)'
  BY DEF DupInv, CountsAreNat
<1>1. /\ m \in Messages /\ pc[w] \in {"accepted", "failed"}
      /\ delivered' = delivered
      /\ \A v \in Workers : v # w => UNCHANGED <<pc[v], current[v]>>
  BY DEF MarkSent, MarkSentThrows, MarkFailedAttempt, seen
<1>2. CASE MarkSent(w) \/ MarkSentThrows(w)
  <2>1. /\ UpdateSent(w) \/ UNCHANGED table
        /\ pc'[w] \in {"loop", "failed"}
        /\ pc'[w] = "failed" => excused' = [excused EXCEPT ![m] = @ + 1] /\ current'[w] = m
        /\ excused' \in {excused, [excused EXCEPT ![m] = @ + 1]}
    BY <1>2 DEF MarkSent, MarkSentThrows, seen
  <2>2. InCall(n)' = InCall(n)
    BY <1>1, <2>1 DEF InCall
  <2>3. \/ UNCHANGED <<status, lockedBy>>
        \/ /\ status' = [status EXCEPT ![m] = "SENT"]
           /\ lockedBy' = [lockedBy EXCEPT ![m] = None]
    BY <2>1 DEF UpdateSent, ClearLock, table
  <2>4. excused[n] <= excused'[n]
    <3>1. CASE excused' = excused
      BY <1>0, <3>1 DEF CountsAreNat
    <3>2. CASE excused' = [excused EXCEPT ![m] = @ + 1]
      BY <1>0, <1>1, <3>2 DEF CountsAreNat
    <3> QED
      BY <2>1, <3>1, <3>2
  <2>5. Settling(n)' => Settling(n) \/ excused[n] + 1 <= excused'[n]
    <3>1. CASE n # m
      BY <1>1, <2>1, <2>3, <3>1 DEF Settling
    <3>2. CASE n = m /\ pc'[w] = "failed"
      BY <1>1, <2>1, <3>2
    <3>3. CASE n = m /\ pc'[w] = "loop"
      BY <1>1, <2>3, <3>3, OutboxAssumption DEF Settling
    <3> QED
      BY <2>1, <3>1, <3>2, <3>3
  <2> QED
    BY <1>0, <1>1, <2>2, <2>4, <2>5, QuietStep
<1>3. CASE MarkFailedAttempt(w)
  <2>1. /\ pc[w] = "failed" /\ pc'[w] \in {"audit", "loop"}
        /\ excused' = excused
        /\ \/ ~OwnsRow(w, m) /\ UNCHANGED <<status, lockedBy>>
           \/ /\ OwnsRow(w, m)
              /\ status' \in {[status EXCEPT ![m] = "FAILED"], [status EXCEPT ![m] = "PENDING"]}
              /\ lockedBy' = [lockedBy EXCEPT ![m] = None]
    BY <1>3 DEF MarkFailedAttempt, ClearLock, seen, table
  <2>2. InCall(n)' = InCall(n)
    BY <1>1, <2>1 DEF InCall
  <2>3. Settling(n)' => Settling(n)
    <3>1. CASE n # m
      BY <1>1, <2>1, <3>1 DEF Settling
    <3>2. CASE n = m /\ OwnsRow(w, m)
      BY <2>1, <3>2 DEF Settling, OwnsRow
    <3>3. CASE n = m /\ ~OwnsRow(w, m)
      BY <1>1, <2>1, <3>3 DEF Settling
    <3> QED
      BY <3>1, <3>2, <3>3
  <2>4. excused[n] <= excused'[n] /\ delivered'[n] = delivered[n]
    BY <1>0, <1>1, <2>1 DEF CountsAreNat
  <2> QED
    BY <1>0, <2>2, <2>3, <2>4, QuietStep
<1> QED
  BY <1>2, <1>3

LEMMA DupStep == IInv /\ DupInv /\ [Next]_vars => DupInv'
<1> SUFFICES ASSUME IInv, DupInv, [Next]_vars PROVE DupInv'
  OBVIOUS
<1>0. TypeOK' /\ \A n \in Messages : DupInvAt(n) /\ CountsAreNat(n) /\ CountsAreNat(n)'
  <2>1. TypeOK /\ TypeOK'
    BY TypeStep DEF IInv
  <2> QED
    BY <2>1 DEF TypeOK, DupInv, CountsAreNat
<1>1. ASSUME NEW n \in Messages, InCall(n)' \subseteq InCall(n),
             UNCHANGED <<delivered, excused>>, Settling(n)' => Settling(n)
      PROVE  DupInvAt(n)'
  BY <1>0, <1>1, QuietStep DEF CountsAreNat
<1> USE DEF IInv, TypeOK
<1>2. ASSUME NEW m \in Messages, Enqueue(m) PROVE DupInv'
  <2>1. /\ lockedBy[m] = None
        /\ status[m] = "NONE"
        /\ status' = [status EXCEPT ![m] = "PENDING"]
        /\ UNCHANGED <<lockedBy, pc, current, delivered, excused>>
    BY <1>2 DEF Enqueue, RowInv, runs, seen
  <2>2. \A n \in Messages : InCall(n)' = InCall(n) /\ (Settling(n)' => Settling(n))
    BY <2>1 DEF InCall, Settling
  <2> QED
    BY <1>1, <2>1, <2>2 DEF DupInv
<1>3. ASSUME NEW w \in Workers,
             \/ StartBatch(w) \/ (\E m \in Messages : SkipRow(w, m))
             \/ AuditTerminalFailure(w) \/ EndBatch(w) \/ Abort(w)
      PROVE  DupInv'
  <2>1. /\ UNCHANGED <<status, lockedBy, delivered, excused>>
        /\ \/ UNCHANGED <<pc, current>>
           \/ /\ pc'[w] \in {"idle", "loop"}
              /\ \A v \in Workers : v # w => UNCHANGED <<pc[v], current[v]>>
    BY <1>3 DEF StartBatch, SkipRow, AuditTerminalFailure, EndBatch, Abort, Leave, table, seen
  <2>2. \A n \in Messages : InCall(n)' \subseteq InCall(n) /\ (Settling(n)' => Settling(n))
    BY <2>1 DEF InCall, Settling
  <2> QED
    BY <1>1, <2>1, <2>2 DEF DupInv
<1>4. ASSUME Tick \/ UNCHANGED vars PROVE DupInv'
  <2>1. UNCHANGED <<status, lockedBy, pc, current, delivered, excused>>
    BY <1>4 DEF Tick, vars, table, runs, seen
  <2>2. \A n \in Messages : InCall(n)' = InCall(n) /\ Settling(n)' = Settling(n)
    BY <2>1 DEF InCall, Settling
  <2> QED
    BY <1>1, <2>1, <2>2 DEF DupInv
<1>5. ASSUME NEW w \in Workers, NEW m \in Messages, AcquireLock(w, m) PROVE DupInv'
  BY <1>0, <1>5, AcquireDup
<1>6. ASSUME NEW w \in Workers, Send(w) PROVE DupInv'
  BY <1>0, <1>6, SendDup
<1>7. ASSUME NEW w \in Workers, MarkSent(w) \/ MarkSentThrows(w) \/ MarkFailedAttempt(w)
      PROVE  DupInv'
  BY <1>0, <1>7, MarkDup
<1> QED
  BY <1>2, <1>3, <1>4, <1>5, <1>6, <1>7 DEF Next, RunStep

\* A message is delivered more than once only when a lock was taken over from
\* a run that overstayed, or a provider call or markSent threw after the
\* delivery; overlapping runs alone never send twice.
THEOREM DeliveredOnceUnlessExcused == Spec => []DuplicatesExplained
<1>1. Init => DupInv
  <2> SUFFICES ASSUME Init, NEW m \in Messages PROVE DupInvAt(m)
    BY DEF DupInv
  <2>1. InCall(m) = {}
    BY DEF Init, InCall
  <2>2. Settling(m) /\ delivered[m] = 0 /\ excused[m] = 0
    BY DEF Init, Settling
  <2> QED
    BY <2>1, <2>2, FS_EmptySet DEF DupInvAt
<1>2. IInv /\ DupInv => DuplicatesExplained
  <2> SUFFICES ASSUME IInv, DupInv, NEW m \in Messages PROVE delivered[m] <= 1 + excused[m]
    BY DEF DuplicatesExplained
  <2>1. delivered[m] \in Nat /\ excused[m] \in Nat /\ Cardinality(InCall(m)) \in Nat
    BY InCallFinite DEF IInv, TypeOK
  <2>2. delivered[m] + Cardinality(InCall(m)) <= excused[m] + (IF Settling(m) THEN 0 ELSE 1)
    BY DEF DupInv, DupInvAt
  <2> QED
    BY <2>1, <2>2
<1> QED
  BY <1>1, <1>2, DupStep, InductiveInvariant, PTL DEF Spec
-------------------------------------------------------------------------------
(***************************************************************************)
(* Registration.  The inductive invariant: beside the types, a row that is *)
(* there has an address and a number, and a request that has read one      *)
(* knows a row that was inserted, and the address and number of that row   *)
(* as long as it is there.                                                 *)
(***************************************************************************)
RowSet ==
    [stage : Stages, email : Emails \cup {Unset}, phone : Phones \cup {Unset},
     expired : BOOLEAN, sent : BOOLEAN,
     emailCodeAttempts : 0..RegisterMaxAttempts, smsCodeAttempts : 0..RegisterMaxAttempts]

RequestSet ==
    [step : Steps, email : Emails \cup {Unset}, phone : Phones \cup {Unset}, chal : 0..MaxChallenges]

RowsKnown ==
    \A c \in Challenges : Exists(c) => rows[c].email \in Emails /\ rows[c].phone \in Phones

Asking    == {"email", "phone", "replace", "rightSms"}
Answering == {"sendMail", "wrongMail", "rightMail", "sendSms", "wrongSms", "rightSms"}

RequestKnows(r) ==
    /\ req[r].step \in Asking => req[r].email \in Emails /\ req[r].phone \in Phones
    /\ req[r].step \in Answering =>
          req[r].chal \in Challenges /\ rows[req[r].chal].stage # "absent"
    /\ req[r].step = "rightSms" /\ Exists(req[r].chal) =>
          rows[req[r].chal].email = req[r].email /\ rows[req[r].chal].phone = req[r].phone

RegistrationInv == RegistrationTypeOK /\ RowsKnown /\ \A r \in Requests : RequestKnows(r)

LEMMA RegistrationTypes ==
    RegistrationTypeOK <=>
        /\ user \in [Emails -> Phones \cup {Unset}]
        /\ rows \in [Challenges -> RowSet]
        /\ req \in [Requests -> RequestSet]
        /\ trouble \in 0..MaxTrouble
  BY DEF RegistrationTypeOK, RowSet, RequestSet

LEMMA NoRowTypes ==
    ASSUME NEW stage \in Stages
    PROVE  /\ NoRow(stage) \in RowSet
           /\ NoRow(stage).stage = stage
  BY RegistrationAssumption DEF NoRow, RowSet

LEMMA IdleTypes ==
    /\ Idle \in RequestSet
    /\ Idle.step = "idle" /\ Idle.chal = 0 /\ Idle.email = Unset /\ Idle.phone = Unset
  BY RegistrationAssumption DEF Idle, RequestSet, Steps

(***************************************************************************)
(* What the requests do to the rows                                        *)
(***************************************************************************)
\* What a step may do to a row: the address and number of one that is there stay
\* as they are, and one that was removed stays away.
RowKept(c) ==
    /\ rows'[c].stage = "absent" => rows[c].stage = "absent"
    /\ rows'[c].stage \in {"mail", "sms"} /\ rows[c].stage # "absent" =>
          /\ Exists(c)
          /\ rows'[c].email = rows[c].email /\ rows'[c].phone = rows[c].phone

\* A row as it was, apart from what the grant does not see.
SameRow(c) ==
    /\ rows'[c].stage = rows[c].stage
    /\ rows'[c].email = rows[c].email /\ rows'[c].phone = rows[c].phone

Quiet == user' = user /\ \A c \in Challenges : SameRow(c)

Applied(c, e, p) ==
    /\ rows[c].stage = "absent"
    /\ e \in Emails /\ p \in Phones
    /\ rows' = [Without(RowsOf(e)) EXCEPT ![c] = [NoRow("mail") EXCEPT !.email = e, !.phone = p]]
    /\ user' = user

MailProved(c) ==
    /\ rows[c].stage = "mail" /\ rows'[c].stage = "sms"
    /\ rows'[c].email = rows[c].email /\ rows'[c].phone = rows[c].phone
    /\ \A d \in Challenges \ {c} : rows'[d] = rows[d]
    /\ user' = user

Opened(c) ==
    /\ rows[c].stage = "sms"
    /\ user[rows[c].email] = Unset /\ ~Taken(rows[c].phone)
    /\ user' = [user EXCEPT ![rows[c].email] = rows[c].phone]
    /\ rows' = Without(RowsOf(rows[c].email))

Withdrawn(c) ==
    /\ Exists(c)
    /\ rows' = Without({c})
    /\ user' = user

RegistrationShape ==
    \/ Quiet
    \/ \E c \in Challenges, e \in Emails, p \in Phones : Applied(c, e, p)
    \/ \E c \in Challenges : MailProved(c) \/ Opened(c) \/ Withdrawn(c)
    \/ /\ rows' = rows
       /\ \E e \in Emails : SoftDeleteUser(e) \/ \E p \in Phones : ChangePhone(e, p)

\* A request that stays as it was still knows its row.
LEMMA OthersKnow ==
    ASSUME RegistrationInv, \A c \in Challenges : RowKept(c),
           NEW s \in Requests, req'[s] = req[s]
    PROVE  RequestKnows(s)'
<1>1. RequestKnows(s)
  BY DEF RegistrationInv
<1>2. ASSUME req[s].step \in Answering
      PROVE  /\ req[s].chal \in Challenges
             /\ rows'[req[s].chal].stage # "absent"
             /\ Exists(req[s].chal)' =>
                   /\ Exists(req[s].chal)
                   /\ rows'[req[s].chal].email = rows[req[s].chal].email
                   /\ rows'[req[s].chal].phone = rows[req[s].chal].phone
  BY <1>1, <1>2 DEF RequestKnows, RowKept, Exists
<1>3. req[s].step = "rightSms" => req[s].step \in Answering
  BY DEF Answering
<1> QED
  BY <1>1, <1>2, <1>3 DEF RequestKnows, Exists

\* The request r goes on as q; the others stay.
LEMMA RequestMoves ==
    ASSUME RegistrationInv, NEW r \in Requests, NEW q \in RequestSet,
           req' = [req EXCEPT ![r] = q], \A c \in Challenges : RowKept(c),
           q.step \in Asking => q.email \in Emails /\ q.phone \in Phones,
           q.step \in Answering => q.chal \in Challenges /\ rows'[q.chal].stage # "absent",
           q.step = "rightSms" /\ Exists(q.chal)' =>
               rows'[q.chal].email = q.email /\ rows'[q.chal].phone = q.phone
    PROVE  req' \in [Requests -> RequestSet] /\ \A s \in Requests : RequestKnows(s)'
<1>1. req \in [Requests -> RequestSet]
  BY RegistrationTypes DEF RegistrationInv
<1>2. /\ req' \in [Requests -> RequestSet] /\ req'[r] = q
      /\ \A s \in Requests \ {r} : req'[s] = req[s]
  BY <1>1
<1>3. RequestKnows(r)'
  BY <1>2 DEF RequestKnows
<1> QED
  BY <1>2, <1>3, OthersKnow

LEMMA RequestReturns ==
    ASSUME RegistrationInv, NEW r \in Requests, Return(r), \A c \in Challenges : RowKept(c)
    PROVE  req' \in [Requests -> RequestSet] /\ \A s \in Requests : RequestKnows(s)'
<1>1. Idle.step \notin Asking \cup Answering /\ Idle.step # "rightSms"
  BY IdleTypes DEF Asking, Answering
<1> QED
  BY <1>1, RequestMoves, IdleTypes DEF Return

\* Rows that stay, or change only in what the grant does not see.
LEMMA SameRowsKept ==
    ASSUME RegistrationInv, \A c \in Challenges : SameRow(c)
    PROVE  RowsKnown' /\ \A c \in Challenges : RowKept(c)
  BY DEF RegistrationInv, RowsKnown, Exists, SameRow, RowKept

LEMMA SameRowsAll == rows' = rows => \A c \in Challenges : SameRow(c)
  BY DEF SameRow

LEMMA InvParts ==
    ASSUME RegistrationInv
    PROVE  /\ user \in [Emails -> Phones \cup {Unset}]
           /\ rows \in [Challenges -> RowSet]
           /\ req \in [Requests -> RequestSet]
           /\ trouble \in 0..MaxTrouble
           /\ RowsKnown
           /\ \A r \in Requests : RequestKnows(r)
  BY RegistrationTypes DEF RegistrationInv

LEMMA InvNext ==
    ASSUME user' \in [Emails -> Phones \cup {Unset}], rows' \in [Challenges -> RowSet],
           req' \in [Requests -> RequestSet], trouble' \in 0..MaxTrouble, RowsKnown',
           \A r \in Requests : RequestKnows(r)'
    PROVE  RegistrationInv'
  BY DEF RegistrationInv, RegistrationTypeOK, RowSet, RequestSet

\* A row in which one field that the grant does not see is set.
LEMMA FieldSet ==
    ASSUME RegistrationInv, NEW c \in Challenges,
           \/ \E b \in BOOLEAN : rows' = [rows EXCEPT ![c].sent = b]
           \/ \E b \in BOOLEAN : rows' = [rows EXCEPT ![c].expired = b]
           \/ \E n \in 0..RegisterMaxAttempts : rows' = [rows EXCEPT ![c].emailCodeAttempts = n]
           \/ \E n \in 0..RegisterMaxAttempts : rows' = [rows EXCEPT ![c].smsCodeAttempts = n]
    PROVE  rows' \in [Challenges -> RowSet] /\ \A d \in Challenges : SameRow(d)
<1>1. rows \in [Challenges -> RowSet]
  BY InvParts
<1>2. \A d \in Challenges : rows[d] \in RowSet
  BY <1>1
<1>3. CASE \E b \in BOOLEAN : rows' = [rows EXCEPT ![c].sent = b]
  BY <1>1, <1>2, <1>3 DEF RowSet, SameRow
<1>4. CASE \E b \in BOOLEAN : rows' = [rows EXCEPT ![c].expired = b]
  BY <1>1, <1>2, <1>4 DEF RowSet, SameRow
<1>5. CASE \E n \in 0..RegisterMaxAttempts : rows' = [rows EXCEPT ![c].emailCodeAttempts = n]
  BY <1>1, <1>2, <1>5 DEF RowSet, SameRow
<1>6. CASE \E n \in 0..RegisterMaxAttempts : rows' = [rows EXCEPT ![c].smsCodeAttempts = n]
  BY <1>1, <1>2, <1>6 DEF RowSet, SameRow
<1> QED
  BY <1>3, <1>4, <1>5, <1>6

LEMMA RemovedRows ==
    ASSUME RegistrationInv, NEW S \in SUBSET {c \in Challenges : Exists(c)}, rows' = Without(S)
    PROVE  rows' \in [Challenges -> RowSet] /\ RowsKnown' /\ \A c \in Challenges : RowKept(c)
<1>1. rows \in [Challenges -> RowSet] /\ RowsKnown
  BY InvParts
<1>2. NoRow("gone") \in RowSet /\ NoRow("gone").stage = "gone"
  BY NoRowTypes DEF Stages
<1>3. /\ rows' \in [Challenges -> RowSet]
      /\ \A c \in Challenges : rows'[c] = IF c \in S THEN NoRow("gone") ELSE rows[c]
  BY <1>1, <1>2 DEF Without
<1>4. RowsKnown'
  BY <1>1, <1>2, <1>3 DEF RowsKnown, Exists
<1>5. \A c \in Challenges : RowKept(c)
  BY <1>1, <1>2, <1>3 DEF RowKept, Exists
<1> QED
  BY <1>3, <1>4, <1>5

LEMMA TroubleTypes == RegistrationInv /\ Trouble => trouble' \in 0..MaxTrouble
  BY InvParts, RegistrationAssumption DEF Trouble

LEMMA ChallengeIds == Challenges \subseteq 0..MaxChallenges /\ Challenges \subseteq Nat \ {0}
  BY RegistrationAssumption DEF Challenges

(***************************************************************************)
(* The steps, one by one                                                   *)
(***************************************************************************)
\* A request begins: the rows stay.
LEMMA BeginStep ==
    ASSUME RegistrationInv, NEW r \in Requests, NEW q \in RequestSet,
           req' = [req EXCEPT ![r] = q], UNCHANGED <<user, rows>>, trouble' \in 0..MaxTrouble,
           q.step \in Asking => q.email \in Emails /\ q.phone \in Phones,
           q.step \in Answering => q.chal \in Challenges /\ rows[q.chal].stage # "absent",
           q.step = "rightSms" => rows[q.chal].email = q.email /\ rows[q.chal].phone = q.phone
    PROVE  RegistrationInv' /\ RegistrationShape
<1>1. \A c \in Challenges : SameRow(c)
  BY SameRowsAll
<1>2. RowsKnown' /\ \A c \in Challenges : RowKept(c)
  BY <1>1, SameRowsKept
<1>3. req' \in [Requests -> RequestSet] /\ \A s \in Requests : RequestKnows(s)'
  BY <1>2, RequestMoves
<1>4. RegistrationInv'
  BY <1>2, <1>3, InvParts, InvNext
<1> QED
  BY <1>1, <1>4 DEF RegistrationShape, Quiet

LEMMA StartStep ==
    ASSUME RegistrationInv, trouble' \in 0..MaxTrouble,
           NEW r \in Requests, NEW e \in Emails, NEW p \in Phones, StartRegister(r, e, p)
    PROVE  RegistrationInv' /\ RegistrationShape
<1> DEFINE q == [Idle EXCEPT !.step = "email", !.email = e, !.phone = p]
<1>1. q \in RequestSet /\ q.step = "email" /\ q.email = e /\ q.phone = p
  BY IdleTypes DEF RequestSet, Steps
<1>2. req' = [req EXCEPT ![r] = q] /\ UNCHANGED <<user, rows>>
  BY DEF StartRegister
<1> HIDE DEF q
<1> QED
  BY <1>1, <1>2, BeginStep DEF Answering

LEMMA RestartStep ==
    ASSUME RegistrationInv, trouble' \in 0..MaxTrouble,
           NEW r \in Requests, NEW c \in Challenges, RestartRegister(r, c)
    PROVE  RegistrationInv' /\ RegistrationShape
<1> DEFINE q == [Idle EXCEPT !.step = "email", !.email = rows[c].email, !.phone = rows[c].phone]
<1>1. rows[c].email \in Emails /\ rows[c].phone \in Phones
  BY InvParts DEF RowsKnown, RestartRegister
<1>2. /\ q \in RequestSet /\ q.step = "email"
      /\ q.email = rows[c].email /\ q.phone = rows[c].phone
  BY <1>1, IdleTypes DEF RequestSet, Steps
<1>3. req' = [req EXCEPT ![r] = q] /\ UNCHANGED <<user, rows>>
  BY DEF RestartRegister
<1> HIDE DEF q
<1> QED
  BY <1>1, <1>2, <1>3, BeginStep DEF Answering

LEMMA EnterMailStep ==
    ASSUME RegistrationInv, trouble' \in 0..MaxTrouble,
           NEW r \in Requests, NEW c \in Challenges, NEW right \in BOOLEAN,
           VerifyEmailCode(r, c, right)
    PROVE  RegistrationInv' /\ RegistrationShape
<1> DEFINE q == [Idle EXCEPT !.chal = c, !.step = IF right THEN "rightMail" ELSE "wrongMail"]
<1>1. q \in RequestSet /\ q.step \in {"rightMail", "wrongMail"} /\ q.chal = c
  <2>1. c \in 0..MaxChallenges
    BY ChallengeIds
  <2>2. (IF right THEN "rightMail" ELSE "wrongMail") \in {"rightMail", "wrongMail"}
    OBVIOUS
  <2>3. {"rightMail", "wrongMail"} \subseteq Steps
    BY DEF Steps
  <2> QED
    BY <2>1, <2>2, <2>3, IdleTypes DEF RequestSet
<1>2. req' = [req EXCEPT ![r] = q] /\ UNCHANGED <<user, rows>> /\ rows[c].stage = "mail"
  BY DEF VerifyEmailCode
<1> HIDE DEF q
<1> QED
  BY <1>1, <1>2, BeginStep DEF Asking

LEMMA EnterSmsStep ==
    ASSUME RegistrationInv, trouble' \in 0..MaxTrouble,
           NEW r \in Requests, NEW c \in Challenges, NEW right \in BOOLEAN,
           VerifySmsCode(r, c, right)
    PROVE  RegistrationInv' /\ RegistrationShape
<1>1. rows[c].stage = "sms" /\ UNCHANGED <<user, rows>>
  BY DEF VerifySmsCode
<1>2. CASE right
  <2> DEFINE q == [step |-> "rightSms", chal |-> c, email |-> rows[c].email, phone |-> rows[c].phone]
  <2>1. rows[c].email \in Emails /\ rows[c].phone \in Phones
    BY <1>1, InvParts DEF RowsKnown, Exists
  <2>2. q \in RequestSet
    BY <2>1, ChallengeIds DEF RequestSet, Steps
  <2>3. /\ q.step = "rightSms" /\ q.chal = c
        /\ q.email = rows[c].email /\ q.phone = rows[c].phone
    OBVIOUS
  <2>4. req' = [req EXCEPT ![r] = q]
    BY <1>2 DEF VerifySmsCode
  <2> HIDE DEF q
  <2> QED
    BY <1>1, <2>1, <2>2, <2>3, <2>4, BeginStep
<1>3. CASE ~right
  <2> DEFINE q == [Idle EXCEPT !.step = "wrongSms", !.chal = c]
  <2>1. q \in RequestSet /\ q.step = "wrongSms" /\ q.chal = c
    BY IdleTypes, ChallengeIds DEF RequestSet, Steps
  <2>2. req' = [req EXCEPT ![r] = q]
    BY <1>3 DEF VerifySmsCode
  <2> HIDE DEF q
  <2> QED
    BY <1>1, <2>1, <2>2, BeginStep DEF Asking
<1> QED
  BY <1>2, <1>3

\* A request ends, and the rows change in nothing the grant sees.
LEMMA EndStep ==
    ASSUME RegistrationInv, NEW r \in Requests, Return(r), user' = user, trouble' \in 0..MaxTrouble,
           rows' \in [Challenges -> RowSet], \A c \in Challenges : SameRow(c)
    PROVE  RegistrationInv' /\ RegistrationShape
<1>1. RowsKnown' /\ \A c \in Challenges : RowKept(c)
  BY SameRowsKept
<1>2. req' \in [Requests -> RequestSet] /\ \A s \in Requests : RequestKnows(s)'
  BY <1>1, RequestReturns
<1>3. RegistrationInv'
  BY <1>1, <1>2, InvParts, InvNext
<1> QED
  BY <1>3 DEF RegistrationShape, Quiet

\* A request goes on with what it was asked for.
LEMMA AskStep ==
    ASSUME RegistrationInv, NEW r \in Requests, req[r].step \in {"email", "phone"},
           NEW step \in {"phone", "replace"}, Goto(r, step), UNCHANGED <<user, rows, trouble>>
    PROVE  RegistrationInv' /\ RegistrationShape
<1> DEFINE q == [req[r] EXCEPT !.step = step]
<1>1. req[r] \in RequestSet /\ RequestKnows(r)
  BY InvParts
<1>2. q \in RequestSet /\ q.step = step /\ q.email = req[r].email /\ q.phone = req[r].phone
  BY <1>1 DEF RequestSet, Steps
<1>3. req[r].email \in Emails /\ req[r].phone \in Phones
  BY <1>1 DEF RequestKnows, Asking
<1>4. req' = [req EXCEPT ![r] = q] /\ trouble' \in 0..MaxTrouble
  BY InvParts DEF Goto
<1> HIDE DEF q
<1> QED
  BY <1>2, <1>3, <1>4, BeginStep DEF Answering

LEMMA ReturnStep ==
    ASSUME RegistrationInv, NEW r \in Requests, Return(r), UNCHANGED <<user, rows>>,
           trouble' \in 0..MaxTrouble
    PROVE  RegistrationInv' /\ RegistrationShape
  BY EndStep, SameRowsAll, InvParts

LEMMA LookUpStep ==
    ASSUME RegistrationInv, NEW r \in Requests,
           FindActiveUserIdByEmail(r) \/ FindActiveUserIdByPhone(r)
    PROVE  RegistrationInv' /\ RegistrationShape
<1>1. \/ Return(r)
      \/ \E step \in {"phone", "replace"} : Goto(r, step)
  BY DEF FindActiveUserIdByEmail, FindActiveUserIdByPhone
<1>2. req[r].step \in {"email", "phone"} /\ UNCHANGED <<user, rows, trouble>>
  BY DEF FindActiveUserIdByEmail, FindActiveUserIdByPhone
<1> QED
  BY <1>1, <1>2, AskStep, ReturnStep, InvParts

LEMMA ReplaceStep ==
    ASSUME RegistrationInv, NEW r \in Requests, ReplaceRegistrationChallenge(r)
    PROVE  RegistrationInv' /\ RegistrationShape
<1> DEFINE e == req[r].email
           p == req[r].phone
<1>1. e \in Emails /\ p \in Phones
  BY InvParts DEF ReplaceRegistrationChallenge, RequestKnows, Asking
<1> HIDE DEF e, p
<1>2. PICK c \in Challenges :
          /\ rows[c].stage = "absent"
          /\ rows' = [Without(RowsOf(e)) EXCEPT ![c] = [NoRow("mail") EXCEPT !.email = e, !.phone = p]]
          /\ req' = [req EXCEPT ![r] = [Idle EXCEPT !.step = "sendMail", !.chal = c]]
  BY DEF ReplaceRegistrationChallenge, e, p
<1> DEFINE new == [NoRow("mail") EXCEPT !.email = e, !.phone = p]
<1>3. new \in RowSet /\ new.stage = "mail" /\ new.email = e /\ new.phone = p
  BY <1>1, NoRowTypes DEF RowSet, Stages
<1> HIDE DEF new
<1>4. NoRow("gone") \in RowSet /\ NoRow("gone").stage = "gone"
  BY NoRowTypes DEF Stages
<1>5. /\ rows' \in [Challenges -> RowSet]
      /\ \A d \in Challenges :
            rows'[d] = IF d = c THEN new ELSE IF d \in RowsOf(e) THEN NoRow("gone") ELSE rows[d]
  <2>1. Without(RowsOf(e)) \in [Challenges -> RowSet]
    BY <1>4, InvParts DEF Without
  <2>2. rows' = [Without(RowsOf(e)) EXCEPT ![c] = new]
    BY <1>2 DEF new
  <2> QED
    BY <1>3, <2>1, <2>2 DEF Without
<1>6. RowsKnown'
  BY <1>1, <1>3, <1>4, <1>5, InvParts DEF RowsKnown, Exists
<1>7. \A d \in Challenges : RowKept(d)
  BY <1>2, <1>3, <1>4, <1>5 DEF RowKept, Exists, RowsOf
<1> DEFINE q == [Idle EXCEPT !.step = "sendMail", !.chal = c]
<1>8. q \in RequestSet /\ q.step = "sendMail" /\ q.chal = c
  BY IdleTypes, ChallengeIds DEF RequestSet, Steps
<1>9. req' = [req EXCEPT ![r] = q]
  BY <1>2
<1> HIDE DEF q
<1>10. rows'[q.chal].stage # "absent"
  BY <1>3, <1>5, <1>8
<1>11. req' \in [Requests -> RequestSet] /\ \A s \in Requests : RequestKnows(s)'
  BY <1>7, <1>8, <1>9, <1>10, RequestMoves DEF Asking
<1>12. UNCHANGED <<user, trouble>>
  BY DEF ReplaceRegistrationChallenge
<1>13. RegistrationInv'
  BY <1>5, <1>6, <1>11, <1>12, InvParts, InvNext
<1>14. Applied(c, e, p)
  BY <1>1, <1>2, <1>12 DEF Applied
<1> QED
  BY <1>1, <1>13, <1>14 DEF RegistrationShape

\* The request holds a row that was inserted.
LEMMA InHand ==
    ASSUME RegistrationInv, NEW r \in Requests, req[r].step \in Answering
    PROVE  /\ req[r].chal \in Challenges
           /\ rows[req[r].chal] \in RowSet
           /\ rows[req[r].chal].stage # "absent"
  BY InvParts DEF RequestKnows

LEMMA CodeSentStep ==
    ASSUME RegistrationInv, NEW r \in Requests, SendEmailCode(r) \/ SendSmsCode(r)
    PROVE  RegistrationInv' /\ RegistrationShape
<1>1. req[r].step \in Answering /\ Return(r) /\ UNCHANGED <<user, trouble>>
  BY DEF SendEmailCode, SendSmsCode, Answering
<1>2. \E b \in BOOLEAN : rows' = [rows EXCEPT ![req[r].chal].sent = b]
  BY DEF SendEmailCode, SendSmsCode
<1>3. rows' \in [Challenges -> RowSet] /\ \A d \in Challenges : SameRow(d)
  BY <1>1, <1>2, InHand, FieldSet
<1> QED
  BY <1>1, <1>3, EndStep, InvParts

LEMMA CountStep ==
    ASSUME RegistrationInv, NEW r \in Requests, IncrementEmailAttempts(r) \/ IncrementSmsAttempts(r)
    PROVE  RegistrationInv' /\ RegistrationShape
<1> DEFINE c == req[r].chal
<1>1. req[r].step \in Answering /\ Return(r) /\ UNCHANGED <<user, trouble>>
  BY DEF IncrementEmailAttempts, IncrementSmsAttempts, Answering
<1>2. c \in Challenges /\ rows[c] \in RowSet
  BY <1>1, InHand
<1> HIDE DEF c
<1>3. \/ rows' = rows
      \/ /\ rows[c].emailCodeAttempts < RegisterMaxAttempts
         /\ rows' = [rows EXCEPT ![c].emailCodeAttempts = @ + 1]
      \/ /\ rows[c].smsCodeAttempts < RegisterMaxAttempts
         /\ rows' = [rows EXCEPT ![c].smsCodeAttempts = @ + 1]
  BY DEF IncrementEmailAttempts, IncrementSmsAttempts, c
<1>4. rows' \in [Challenges -> RowSet] /\ \A d \in Challenges : SameRow(d)
  <2>1. CASE rows' = rows
    BY <2>1, SameRowsAll, InvParts
  <2>2. CASE /\ rows[c].emailCodeAttempts < RegisterMaxAttempts
             /\ rows' = [rows EXCEPT ![c].emailCodeAttempts = @ + 1]
    <3>1. rows[c].emailCodeAttempts + 1 \in 0..RegisterMaxAttempts
      BY <1>2, <2>2, RegistrationAssumption DEF RowSet
    <3>2. rows' = [rows EXCEPT ![c].emailCodeAttempts = rows[c].emailCodeAttempts + 1]
      BY <1>2, <2>2, InvParts
    <3> QED
      BY <1>2, <3>1, <3>2, FieldSet
  <2>3. CASE /\ rows[c].smsCodeAttempts < RegisterMaxAttempts
             /\ rows' = [rows EXCEPT ![c].smsCodeAttempts = @ + 1]
    <3>1. rows[c].smsCodeAttempts + 1 \in 0..RegisterMaxAttempts
      BY <1>2, <2>3, RegistrationAssumption DEF RowSet
    <3>2. rows' = [rows EXCEPT ![c].smsCodeAttempts = rows[c].smsCodeAttempts + 1]
      BY <1>2, <2>3, InvParts
    <3> QED
      BY <1>2, <3>1, <3>2, FieldSet
  <2> QED
    BY <1>3, <2>1, <2>2, <2>3
<1> QED
  BY <1>1, <1>4, EndStep, InvParts

\* The right mail code turns a row into one that waits for its SMS code.
LEMMA RowToSms ==
    ASSUME NEW row \in RowSet
    PROVE  LET new == [row EXCEPT !.stage = "sms", !.sent = FALSE,
                                  !.expired = FALSE, !.smsCodeAttempts = 0]
           IN  /\ new \in RowSet
               /\ new.stage = "sms" /\ new.email = row.email /\ new.phone = row.phone
<1> DEFINE a == [row EXCEPT !.stage = "sms"]
           b == [a EXCEPT !.sent = FALSE]
           d == [b EXCEPT !.expired = FALSE]
           f == [d EXCEPT !.smsCodeAttempts = 0]
<1>1. a \in RowSet /\ a.stage = "sms" /\ a.email = row.email /\ a.phone = row.phone
  BY DEF RowSet, Stages
<1> HIDE DEF a
<1>2. b \in RowSet /\ b.stage = a.stage /\ b.email = a.email /\ b.phone = a.phone
  BY <1>1 DEF RowSet
<1> HIDE DEF b
<1>3. d \in RowSet /\ d.stage = b.stage /\ d.email = b.email /\ d.phone = b.phone
  BY <1>2 DEF RowSet
<1> HIDE DEF d
<1>4. f \in RowSet /\ f.stage = d.stage /\ f.email = d.email /\ f.phone = d.phone
  BY <1>3, RegistrationAssumption DEF RowSet
<1>5. f = [row EXCEPT !.stage = "sms", !.sent = FALSE, !.expired = FALSE, !.smsCodeAttempts = 0]
  BY Zenon DEF a, b, d, f
<1> QED
  BY <1>1, <1>2, <1>3, <1>4, <1>5

LEMMA MarkStep ==
    ASSUME RegistrationInv, NEW r \in Requests, MarkEmailVerified(r)
    PROVE  RegistrationInv' /\ RegistrationShape
<1> DEFINE c == req[r].chal
<1>1. req[r].step = "rightMail" /\ UNCHANGED <<user, trouble>>
  BY DEF MarkEmailVerified
<1>2. c \in Challenges /\ rows[c] \in RowSet
  BY <1>1, InHand DEF Answering
<1>3. CASE Return(r) /\ UNCHANGED rows
  BY <1>1, <1>3, ReturnStep, InvParts
<1>4. CASE /\ rows[c].stage = "mail" /\ Goto(r, "sendSms")
           /\ rows' = [rows EXCEPT ![c].stage = "sms", ![c].sent = FALSE,
                                   ![c].expired = FALSE, ![c].smsCodeAttempts = 0]
  <2> DEFINE new == [rows[c] EXCEPT !.stage = "sms", !.sent = FALSE,
                                    !.expired = FALSE, !.smsCodeAttempts = 0]
  <2>1. /\ new \in RowSet
        /\ new.stage = "sms" /\ new.email = rows[c].email /\ new.phone = rows[c].phone
    BY <1>2, RowToSms
  <2>2. rows' = [rows EXCEPT ![c] = new]
    BY <1>2, <1>4, InvParts, Zenon
  <2> HIDE DEF new
  <2>3. /\ rows' \in [Challenges -> RowSet] /\ rows'[c] = new
        /\ \A d \in Challenges \ {c} : rows'[d] = rows[d]
    BY <1>2, <2>1, <2>2, InvParts
  <2>4. RowsKnown'
    BY <1>2, <1>4, <2>1, <2>3, InvParts DEF RowsKnown, Exists
  <2>5. \A d \in Challenges : RowKept(d)
    BY <1>2, <1>4, <2>1, <2>3 DEF RowKept, Exists
  <2> DEFINE q == [req[r] EXCEPT !.step = "sendSms"]
  <2>6. q \in RequestSet /\ q.step = "sendSms" /\ q.chal = c
    BY InvParts DEF RequestSet, Steps
  <2>7. req' = [req EXCEPT ![r] = q]
    BY <1>4, InvParts DEF Goto
  <2> HIDE DEF q, c
  <2>8. req' \in [Requests -> RequestSet] /\ \A s \in Requests : RequestKnows(s)'
    BY <1>2, <2>1, <2>3, <2>5, <2>6, <2>7, RequestMoves DEF Asking
  <2>9. RegistrationInv'
    BY <1>1, <2>3, <2>4, <2>8, InvParts, InvNext
  <2>10. MailProved(c)
    BY <1>1, <1>4, <2>1, <2>3 DEF MailProved
  <2> QED
    BY <1>2, <2>9, <2>10 DEF RegistrationShape
<1> QED
  BY <1>3, <1>4 DEF MarkEmailVerified

LEMMA CompleteStep ==
    ASSUME RegistrationInv, NEW r \in Requests, CompleteRegistration(r)
    PROVE  RegistrationInv' /\ RegistrationShape
<1> DEFINE c == req[r].chal
<1>1. req[r].step = "rightSms" /\ Return(r) /\ UNCHANGED trouble
  BY DEF CompleteRegistration
<1>2. c \in Challenges /\ req[r].email \in Emails /\ req[r].phone \in Phones
  BY <1>1, InHand, InvParts DEF Answering, Asking, RequestKnows
<1>3. CASE UNCHANGED <<user, rows>>
  BY <1>1, <1>3, ReturnStep, InvParts
<1>4. CASE /\ CanConsume(c) /\ user[req[r].email] = Unset /\ ~Taken(req[r].phone)
           /\ user' = [user EXCEPT ![req[r].email] = req[r].phone]
           /\ rows' = Without(RowsOf(req[r].email))
  <2>1. rows[c].stage = "sms"
    BY <1>4 DEF CanConsume
  <2>2. rows[c].email = req[r].email /\ rows[c].phone = req[r].phone
    BY <1>1, <2>1, InvParts DEF RequestKnows, Exists
  <2>3. Opened(c)
    BY <1>4, <2>1, <2>2 DEF Opened
  <2>4. RowsOf(req[r].email) \in SUBSET {d \in Challenges : Exists(d)}
    BY DEF RowsOf
  <2>5. rows' \in [Challenges -> RowSet] /\ RowsKnown' /\ \A d \in Challenges : RowKept(d)
    BY <1>4, <2>4, RemovedRows
  <2>6. req' \in [Requests -> RequestSet] /\ \A s \in Requests : RequestKnows(s)'
    BY <1>1, <2>5, RequestReturns
  <2>7. user' \in [Emails -> Phones \cup {Unset}]
    BY <1>2, <1>4, InvParts
  <2>8. RegistrationInv'
    BY <1>1, <2>5, <2>6, <2>7, InvParts, InvNext
  <2> QED
    BY <1>2, <2>3, <2>8 DEF RegistrationShape
<1> QED
  BY <1>3, <1>4 DEF CompleteRegistration

\* The requests stay as they are.
LEMMA RequestsStay ==
    ASSUME RegistrationInv, req' = req, \A c \in Challenges : RowKept(c)
    PROVE  req' \in [Requests -> RequestSet] /\ \A s \in Requests : RequestKnows(s)'
  BY OthersKnow, InvParts

LEMMA ExpireStep ==
    ASSUME RegistrationInv, NEW c \in Challenges, Expire(c)
    PROVE  RegistrationInv' /\ RegistrationShape
<1>1. rows' \in [Challenges -> RowSet] /\ \A d \in Challenges : SameRow(d)
  BY FieldSet DEF Expire
<1>2. RowsKnown' /\ \A d \in Challenges : RowKept(d)
  BY <1>1, SameRowsKept
<1>3. UNCHANGED <<user, req>> /\ trouble' \in 0..MaxTrouble
  BY TroubleTypes DEF Expire
<1>4. RegistrationInv'
  BY <1>1, <1>2, <1>3, RequestsStay, InvParts, InvNext
<1> QED
  BY <1>1, <1>3, <1>4 DEF RegistrationShape, Quiet

LEMMA CleanUpStep ==
    ASSUME RegistrationInv, NEW c \in Challenges, CleanUp(c)
    PROVE  RegistrationInv' /\ RegistrationShape
<1>1. Exists(c) /\ rows' = Without({c}) /\ UNCHANGED <<user, req>> /\ trouble' \in 0..MaxTrouble
  BY TroubleTypes DEF CleanUp
<1>2. rows' \in [Challenges -> RowSet] /\ RowsKnown' /\ \A d \in Challenges : RowKept(d)
  BY <1>1, RemovedRows
<1>3. RegistrationInv'
  BY <1>1, <1>2, RequestsStay, InvParts, InvNext
<1>4. Withdrawn(c)
  BY <1>1 DEF Withdrawn
<1> QED
  BY <1>3, <1>4 DEF RegistrationShape

LEMMA AccountStep ==
    ASSUME RegistrationInv, NEW e \in Emails, SoftDeleteUser(e) \/ \E p \in Phones : ChangePhone(e, p)
    PROVE  RegistrationInv' /\ RegistrationShape
<1>1. UNCHANGED <<rows, req>> /\ trouble' \in 0..MaxTrouble
  BY TroubleTypes DEF SoftDeleteUser, ChangePhone
<1>2. user' \in [Emails -> Phones \cup {Unset}]
  BY InvParts DEF SoftDeleteUser, ChangePhone
<1>3. RowsKnown' /\ \A d \in Challenges : RowKept(d)
  BY <1>1, SameRowsAll, SameRowsKept
<1>4. RegistrationInv'
  BY <1>1, <1>2, <1>3, RequestsStay, InvParts, InvNext
<1> QED
  BY <1>1, <1>4 DEF RegistrationShape

LEMMA RegistrationStep ==
    ASSUME RegistrationInv, [RegistrationNext]_registrationVars
    PROVE  RegistrationInv' /\ RegistrationShape
<1>1. ASSUME NEW r \in Requests, Step(r) PROVE RegistrationInv' /\ RegistrationShape
  BY <1>1, LookUpStep, ReplaceStep, CodeSentStep, CountStep, MarkStep, CompleteStep DEF Step
<1>2. ASSUME NEW r \in Requests, AnyoneActs(r) PROVE RegistrationInv' /\ RegistrationShape
  <2>1. trouble' \in 0..MaxTrouble
    BY <1>2, TroubleTypes DEF AnyoneActs
  <2> QED
    BY <1>2, <2>1, StartStep, RestartStep, EnterMailStep, EnterSmsStep DEF AnyoneActs
<1>3. ASSUME NEW r \in Requests, Fail(r) PROVE RegistrationInv' /\ RegistrationShape
  BY <1>3, ReturnStep, TroubleTypes DEF Fail
<1>4. ASSUME NEW e \in Emails, OwnerActs(e) PROVE RegistrationInv' /\ RegistrationShape
  <2>1. trouble' \in 0..MaxTrouble
    BY <1>4, InvParts DEF OwnerActs
  <2>2. PICK r \in Requests :
          \/ StartRegister(r, e, Wants[e])
          \/ \E c \in RowsOf(e) :
                RestartRegister(r, c) \/ VerifyEmailCode(r, c, TRUE) \/ VerifySmsCode(r, c, TRUE)
    BY <1>4 DEF OwnerActs
  <2>3. Wants[e] \in Phones /\ RowsOf(e) \subseteq Challenges
    BY RegistrationAssumption DEF RowsOf
  <2> QED
    BY <2>1, <2>2, <2>3, StartStep, RestartStep, EnterMailStep, EnterSmsStep
<1>5. ASSUME NEW e \in Emails, SoftDeleteUser(e) \/ \E p \in Phones : ChangePhone(e, p)
      PROVE  RegistrationInv' /\ RegistrationShape
  BY <1>5, AccountStep
<1>6. ASSUME NEW c \in Challenges, Expire(c) \/ CleanUp(c)
      PROVE  RegistrationInv' /\ RegistrationShape
  BY <1>6, ExpireStep, CleanUpStep
<1>7. ASSUME UNCHANGED registrationVars PROVE RegistrationInv' /\ RegistrationShape
  <2>1. UNCHANGED <<user, rows, req, trouble>>
    BY <1>7 DEF registrationVars
  <2>2. RowsKnown' /\ \A d \in Challenges : SameRow(d) /\ RowKept(d)
    BY <2>1, SameRowsAll, SameRowsKept
  <2>3. RegistrationInv'
    BY <2>1, <2>2, RequestsStay, InvParts, InvNext
  <2> QED
    BY <2>1, <2>2, <2>3 DEF RegistrationShape, Quiet
<1> QED
  BY <1>1, <1>2, <1>3, <1>4, <1>5, <1>6, <1>7 DEF RegistrationNext

LEMMA RegistrationBegins == RegistrationInit => RegistrationInv
<1> SUFFICES ASSUME RegistrationInit PROVE RegistrationInv
  OBVIOUS
<1>1. /\ user \in [Emails -> Phones \cup {Unset}]
      /\ rows \in [Challenges -> RowSet]
      /\ req \in [Requests -> RequestSet]
      /\ trouble \in 0..MaxTrouble
  BY NoRowTypes, IdleTypes, RegistrationAssumption DEF RegistrationInit, Stages
<1>2. RowsKnown
  BY NoRowTypes DEF RegistrationInit, RowsKnown, Exists, Stages
<1>3. \A r \in Requests : RequestKnows(r)
  BY IdleTypes DEF RegistrationInit, RequestKnows, Asking, Answering
<1> QED
  BY <1>1, <1>2, <1>3, RegistrationTypes DEF RegistrationInv

LEMMA RegistrationInvariance == RegistrationSpec => []RegistrationInv
  BY RegistrationBegins, RegistrationStep, PTL DEF RegistrationSpec

\* The types of the variables, for any number of addresses, numbers and requests.
THEOREM RegistrationTypeCorrect == RegistrationSpec => []RegistrationTypeOK
<1>1. RegistrationInv => RegistrationTypeOK
  BY DEF RegistrationInv
<1> QED
  BY <1>1, RegistrationInvariance, PTL

(***************************************************************************)
(* Registration implements RegistrationGrant: the mapping, and the step of *)
(* the grant that each shape of step is.                                   *)
(***************************************************************************)
StateOf(c) ==
    CASE rows[c].stage = "mail" -> "asked"
      [] rows[c].stage = "sms"  -> "mailProved"
      [] OTHER                  -> rows[c].stage

ClaimOf(c) == IF Exists(c) THEN <<rows[c].email, rows[c].phone>> ELSE Unset

GrantState == [c \in Challenges |-> StateOf(c)]
GrantClaim == [c \in Challenges |-> ClaimOf(c)]

LEMMA StateOfStage ==
    ASSUME NEW c, rows[c].stage \in Stages
    PROVE  /\ rows[c].stage = "mail" => StateOf(c) = "asked"
           /\ rows[c].stage = "sms" => StateOf(c) = "mailProved"
           /\ rows[c].stage \in {"absent", "gone"} => StateOf(c) = rows[c].stage
           /\ Exists(c) <=> StateOf(c) \in {"asked", "mailProved"}
  BY DEF StateOf, Exists, Stages

LEMMA StateOfStageNext ==
    ASSUME NEW c, rows'[c].stage \in Stages
    PROVE  /\ rows'[c].stage = "mail" => StateOf(c)' = "asked"
           /\ rows'[c].stage = "sms" => StateOf(c)' = "mailProved"
           /\ rows'[c].stage \in {"absent", "gone"} => StateOf(c)' = rows'[c].stage
           /\ Exists(c)' <=> StateOf(c)' \in {"asked", "mailProved"}
  BY DEF StateOf, Exists, Stages

LEMMA StageTypes ==
    ASSUME RegistrationInv, NEW c \in Challenges
    PROVE  rows[c].stage \in Stages
<1>1. rows[c] \in RowSet
  BY InvParts
<1> QED
  BY <1>1 DEF RowSet

LEMMA SameGrant ==
    ASSUME NEW c, SameRow(c)
    PROVE  StateOf(c)' = StateOf(c) /\ ClaimOf(c)' = ClaimOf(c)
  BY DEF SameRow, StateOf, ClaimOf, Exists

LEMMA RemovedGrant ==
    ASSUME RegistrationInv, NEW S \in SUBSET {d \in Challenges : Exists(d)}, NEW d \in Challenges,
           rows'[d] = IF d \in S THEN NoRow("gone") ELSE rows[d]
    PROVE  /\ StateOf(d)' = IF d \in S THEN "gone" ELSE StateOf(d)
           /\ ClaimOf(d)' = IF d \in S THEN Unset ELSE ClaimOf(d)
<1>1. CASE d \in S
  <2>1. rows'[d].stage = "gone"
    BY <1>1, NoRowTypes DEF Stages
  <2> QED
    BY <1>1, <2>1, StateOfStageNext DEF ClaimOf, Exists, Stages
<1>2. CASE d \notin S
  BY <1>2, SameGrant DEF SameRow
<1> QED
  BY <1>1, <1>2

\* The applications that the grant sees as those of an address are its rows.
LEMMA SameOf ==
    ASSUME RegistrationInv, NEW e
    PROVE  Grant!Of(e) = RowsOf(e) /\ Grant!Pending = {c \in Challenges : Exists(c)}
<1>1. ASSUME NEW c \in Challenges
      PROVE  /\ GrantState[c] \in {"asked", "mailProved"} <=> Exists(c)
             /\ Exists(c) => GrantClaim[c][1] = rows[c].email
  BY StageTypes, StateOfStage DEF GrantState, GrantClaim, ClaimOf
<1>2. {c \in Challenges : GrantState[c] \in {"asked", "mailProved"}} = {c \in Challenges : Exists(c)}
  BY <1>1
<1>3. Grant!Pending = {c \in Challenges : Exists(c)}
  BY <1>2 DEF Grant!Pending, GrantState, StateOf
<1>4. {c \in {d \in Challenges : Exists(d)} : GrantClaim[c][1] = e} = RowsOf(e)
  BY <1>1 DEF RowsOf
<1>5. Grant!Of(e) = RowsOf(e)
  BY <1>3, <1>4 DEF Grant!Of, GrantClaim, ClaimOf
<1> QED
  BY <1>3, <1>5

LEMMA InitGrants == RegistrationInit => Grant!Init
<1> SUFFICES ASSUME RegistrationInit PROVE Grant!Init
  OBVIOUS
<1>1. \A c \in Challenges : rows[c].stage = "absent"
  BY NoRowTypes DEF RegistrationInit, Stages
<1>2. \A c \in Challenges : StateOf(c) = "absent" /\ ClaimOf(c) = Unset
  BY <1>1, StateOfStage DEF ClaimOf, Exists, Stages
<1>3. /\ GrantState = [c \in Challenges |-> "absent"]
      /\ GrantClaim = [c \in Challenges |-> Unset]
  BY <1>2 DEF GrantState, GrantClaim
<1> QED
  BY <1>3 DEF RegistrationInit, Grant!Init, GrantState, GrantClaim, StateOf, ClaimOf

LEMMA SameRowsStutter ==
    ASSUME \A c \in Challenges : SameRow(c)
    PROVE  GrantState' = GrantState /\ GrantClaim' = GrantClaim
  BY SameGrant DEF GrantState, GrantClaim

LEMMA AppliedApplies ==
    ASSUME RegistrationInv, NEW c \in Challenges, NEW e \in Emails, NEW p \in Phones, Applied(c, e, p)
    PROVE  Grant!Apply(c, e, p)
<1> DEFINE S == RowsOf(e)
           new == [NoRow("mail") EXCEPT !.email = e, !.phone = p]
<1>1. new.stage = "mail" /\ new.email = e /\ new.phone = p
  BY NoRowTypes DEF RowSet, Stages
<1>2. \A d \in Challenges :
          rows'[d] = IF d = c THEN new ELSE IF d \in S THEN NoRow("gone") ELSE rows[d]
  BY DEF Applied, Without
<1> HIDE DEF new
<1>3. c \notin S /\ S \in SUBSET {d \in Challenges : Exists(d)}
  BY DEF Applied, RowsOf, Exists
<1> HIDE DEF S
<1>4. StateOf(c) = "absent"
  BY StateOfStage DEF Applied, Stages
<1>5. StateOf(c)' = "asked" /\ ClaimOf(c)' = <<e, p>>
  BY <1>1, <1>2, StateOfStageNext DEF ClaimOf, Exists, Stages
<1>6. ASSUME NEW d \in Challenges \ {c}
      PROVE  /\ StateOf(d)' = IF d \in S THEN "gone" ELSE StateOf(d)
             /\ ClaimOf(d)' = IF d \in S THEN Unset ELSE ClaimOf(d)
  BY <1>2, <1>3, <1>6, RemovedGrant
<1>7. /\ GrantState[c] = "absent"
      /\ GrantState' = [d \in Challenges |->
            IF d \in S THEN "gone" ELSE [GrantState EXCEPT ![c] = "asked"][d]]
      /\ GrantClaim' = [[d \in Challenges |-> IF d \in S THEN Unset ELSE GrantClaim[d]]
            EXCEPT ![c] = <<e, p>>]
  BY <1>3, <1>4, <1>5, <1>6 DEF GrantState, GrantClaim
<1>8. Grant!Of(e) = S
  BY SameOf DEF S
<1>9. user' = user
  BY DEF Applied
<1> QED
  BY <1>7, <1>8, <1>9 DEF Grant!Apply, Grant!Drop, Grant!Forget, GrantState, GrantClaim, StateOf, ClaimOf

LEMMA ProvedProves ==
    ASSUME RegistrationInv, NEW c \in Challenges, MailProved(c)
    PROVE  Grant!ProveMail(c)
<1>1. StateOf(c) = "asked" /\ StateOf(c)' = "mailProved"
  BY StateOfStage, StateOfStageNext DEF MailProved, Stages
<1>2. ClaimOf(c)' = ClaimOf(c)
  BY DEF MailProved, ClaimOf, Exists
<1>3. \A d \in Challenges \ {c} : StateOf(d)' = StateOf(d) /\ ClaimOf(d)' = ClaimOf(d)
  BY SameGrant DEF MailProved, SameRow
<1>4. /\ GrantState[c] = "asked"
      /\ GrantState' = [GrantState EXCEPT ![c] = "mailProved"]
      /\ GrantClaim' = GrantClaim
  BY <1>1, <1>2, <1>3 DEF GrantState, GrantClaim
<1>5. user' = user
  BY DEF MailProved
<1> QED
  BY <1>4, <1>5 DEF Grant!ProveMail, GrantState, GrantClaim, StateOf, ClaimOf

LEMMA RowsGone ==
    ASSUME RegistrationInv, NEW S \in SUBSET {d \in Challenges : Exists(d)}, rows' = Without(S)
    PROVE  /\ GrantState' = [d \in Challenges |-> IF d \in S THEN "gone" ELSE GrantState[d]]
           /\ GrantClaim' = [d \in Challenges |-> IF d \in S THEN Unset ELSE GrantClaim[d]]
<1>1. ASSUME NEW d \in Challenges
      PROVE  /\ StateOf(d)' = IF d \in S THEN "gone" ELSE StateOf(d)
             /\ ClaimOf(d)' = IF d \in S THEN Unset ELSE ClaimOf(d)
  <2>1. rows'[d] = IF d \in S THEN NoRow("gone") ELSE rows[d]
    BY DEF Without
  <2> QED
    BY <2>1, RemovedGrant
<1> QED
  BY <1>1 DEF GrantState, GrantClaim

LEMMA OpenedOpens ==
    ASSUME RegistrationInv, NEW c \in Challenges, Opened(c)
    PROVE  Grant!Open(c)
<1> DEFINE e == rows[c].email
           p == rows[c].phone
<1>1. StateOf(c) = "mailProved" /\ ClaimOf(c) = <<e, p>>
  BY StateOfStage DEF Opened, ClaimOf, Exists, Stages
<1> HIDE DEF e, p
<1>2. GrantState[c] = "mailProved" /\ GrantClaim[c][1] = e /\ GrantClaim[c][2] = p
  BY <1>1 DEF GrantState, GrantClaim
<1>3. user[e] = Unset /\ Grant!Free(p) /\ user' = [user EXCEPT ![e] = p]
  BY DEF Opened, Taken, Grant!Free, e, p
<1>4. Grant!Of(e) = RowsOf(e)
  BY SameOf
<1>5. /\ GrantState' = [d \in Challenges |-> IF d \in RowsOf(e) THEN "gone" ELSE GrantState[d]]
      /\ GrantClaim' = [d \in Challenges |-> IF d \in RowsOf(e) THEN Unset ELSE GrantClaim[d]]
  BY RowsGone DEF Opened, RowsOf, e
<1>6. /\ user[GrantClaim[c][1]] = Unset /\ Grant!Free(GrantClaim[c][2])
      /\ user' = [user EXCEPT ![GrantClaim[c][1]] = GrantClaim[c][2]]
      /\ GrantState' = [d \in Challenges |->
            IF d \in Grant!Of(GrantClaim[c][1]) THEN "gone" ELSE GrantState[d]]
      /\ GrantClaim' = [d \in Challenges |->
            IF d \in Grant!Of(GrantClaim[c][1]) THEN Unset ELSE GrantClaim[d]]
  BY <1>2, <1>3, <1>4, <1>5
<1> QED
  BY <1>2, <1>6
  DEF Grant!Open, Grant!Drop, Grant!Forget, GrantState, GrantClaim, StateOf, ClaimOf

LEMMA WithdrawnWithdraws ==
    ASSUME RegistrationInv, NEW c \in Challenges, Withdrawn(c)
    PROVE  Grant!Withdraw(c)
<1>1. c \in Grant!Pending
  BY SameOf DEF Withdrawn
<1>2. /\ GrantState' = [d \in Challenges |-> IF d \in {c} THEN "gone" ELSE GrantState[d]]
      /\ GrantClaim' = [d \in Challenges |-> IF d \in {c} THEN Unset ELSE GrantClaim[d]]
  BY RowsGone DEF Withdrawn
<1>3. user' = user
  BY DEF Withdrawn
<1> QED
  BY <1>1, <1>2, <1>3
  DEF Grant!Withdraw, Grant!Drop, Grant!Forget, GrantState, GrantClaim, StateOf, ClaimOf

LEMMA AccountsChange ==
    ASSUME NEW e \in Emails, SoftDeleteUser(e) \/ \E p \in Phones : ChangePhone(e, p), rows' = rows
    PROVE  Grant!Close(e) \/ \E p \in Phones : Grant!ChangePhone(e, p)
<1>1. GrantState' = GrantState /\ GrantClaim' = GrantClaim
  BY SameRowsAll, SameRowsStutter
<1>2. CASE SoftDeleteUser(e)
  BY <1>1, <1>2 DEF SoftDeleteUser, Grant!Close, GrantState, GrantClaim, StateOf, ClaimOf
<1>3. ASSUME NEW p \in Phones, ChangePhone(e, p) PROVE Grant!ChangePhone(e, p)
  BY <1>1, <1>3 DEF ChangePhone, Taken, Grant!ChangePhone, Grant!Free, GrantState, GrantClaim, StateOf, ClaimOf
<1> QED
  BY <1>2, <1>3

LEMMA RegistrationRefines ==
    RegistrationInv /\ [RegistrationNext]_registrationVars => [Grant!Next]_Grant!vars
<1> SUFFICES ASSUME RegistrationInv, [RegistrationNext]_registrationVars
             PROVE  [Grant!Next]_Grant!vars
  OBVIOUS
<1>1. ASSUME Quiet PROVE UNCHANGED Grant!vars
  BY <1>1, SameRowsStutter DEF Quiet, Grant!vars, GrantState, GrantClaim, StateOf, ClaimOf
<1>2. ASSUME NEW c \in Challenges, NEW e \in Emails, NEW p \in Phones, Applied(c, e, p)
      PROVE  Grant!Next
  BY <1>2, AppliedApplies DEF Grant!Next
<1>3. ASSUME NEW c \in Challenges, MailProved(c) PROVE Grant!Next
  BY <1>3, ProvedProves DEF Grant!Next
<1>4. ASSUME NEW c \in Challenges, Opened(c) PROVE Grant!Next
  BY <1>4, OpenedOpens DEF Grant!Next
<1>5. ASSUME NEW c \in Challenges, Withdrawn(c) PROVE Grant!Next
  BY <1>5, WithdrawnWithdraws DEF Grant!Next
<1>6. ASSUME NEW e \in Emails, SoftDeleteUser(e) \/ \E p \in Phones : ChangePhone(e, p), rows' = rows
      PROVE  Grant!Next
  BY <1>6, AccountsChange DEF Grant!Next
<1>7. RegistrationShape
  BY RegistrationStep
<1> QED
  BY <1>1, <1>2, <1>3, <1>4, <1>5, <1>6, <1>7 DEF RegistrationShape

\* Statement by statement, with stale reads, failures, restarts by others and
\* numbers that come and go, the registration is one that RegistrationGrant
\* allows: both codes first, the newest application of an address only, one
\* account for it, and no number in two accounts.
THEOREM RegistrationImplementsGrant == RegistrationSpec => RegistersAsPromised
<1>1. RegistrationInit => Grant!Init
  BY InitGrants
<1>2. RegistrationInv /\ [RegistrationNext]_registrationVars => [Grant!Next]_Grant!vars
  BY RegistrationRefines
<1> QED
  BY <1>1, <1>2, RegistrationInvariance, PTL DEF RegistrationSpec, RegistersAsPromised, Grant!Spec
===============================================================================
