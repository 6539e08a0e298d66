------------------------------- MODULE AuditChain -------------------------------
(***************************************************************************)
(* The audit log: a chain of hashes in the database, kept in one piece by  *)
(* an advisory lock, and the chain of the fallback file, which takes the   *)
(* events the database did not and has no lock.  Beside the writers run    *)
(* the verifier, the retention of the nightly clean-up and the rotation of *)
(* the fallback file.                                                      *)
(*                                                                         *)
(* An event stands for its own hash: no two of them collide.  One process  *)
(* serves all requests, so that the ids of rows grow as they are inserted  *)
(* and an id is a number.                                                  *)
(***************************************************************************)
EXTENDS Integers, Sequences, FiniteSetsExt

CONSTANTS
    Events,         \* calls of logAudit
    None,
    BatchSize,      \* rows in a page of the verifier
    Retention,      \* AUDIT_LOG_RETENTION_DAYS
    MaxTransaction, \* how long a transaction lasts at most
    \* bounds of the model
    MaxTime, MaxFaults

ASSUME AuditChainAssumption ==
    /\ None \notin Events
    /\ BatchSize \in Nat \ {0} /\ Retention \in Nat /\ MaxTransaction \in Nat
    /\ MaxTime \in Nat /\ MaxFaults \in Nat
    /\ MaxTransaction < Retention

VARIABLES
    now,
    log,        \* the rows of AuditLog that ever were, by id: [event, prev, at]
    writer,     \* calls of logAudit under way
    file,       \* the fallback lines: [event, prev, with]
    rotated,    \* how many of them were rotated away
    state,      \* the chain state beside the fallback file, None when empty
    unsaved,    \* lines whose hash did not reach the state
    path,       \* what the process knows of the directory of the file
    cleaner,    \* the clean-up
    archived,   \* ids of the rows in the archives
    deleted,    \* ids of the rows the clean-up deleted
    verifier,   \* a walk, and the rows that were there when it began and it has not seen
    faults

vars == <<now, log, writer, file, rotated, state, unsaved, path, cleaner,
          archived, deleted, verifier, faults>>
fallbackVars == <<file, rotated, state, unsaved, path>>
jobVars      == <<cleaner, archived, deleted, verifier>>

NoWriter   == [step |-> "idle", prev |-> None, at |-> 0, with |-> {}]
NoVerifier == [step |-> "idle", cursor |-> 0, bad |-> FALSE, due |-> {}]

Init ==
    /\ now = 0 /\ log = <<>> /\ faults = 0
    /\ writer = [e \in Events |-> NoWriter]
    /\ file = <<>> /\ rotated = 0 /\ state = None /\ unsaved = {}
    /\ path = "unchecked"
    /\ cleaner = [step |-> "idle", at |-> 0] /\ archived = {} /\ deleted = {}
    /\ verifier = NoVerifier

Fault == faults < MaxFaults /\ faults' = faults + 1

\* The rows that are there
Rows        == DOMAIN log \ deleted
At(step)    == {e \in Events : writer[e].step = step}
Move(e, step) == writer' = [writer EXCEPT ![e].step = step]
Leave(e, step) == writer' = [writer EXCEPT ![e] = [NoWriter EXCEPT !.step = step]]

-----------------------------------------------------------------------------
(* logAudit: the transaction *)

HeadOfChain == IF Rows = {} THEN None ELSE log[Max(Rows)].event

\* Faulty: no advisory lock is taken.
ReadUnlocked(e) ==
    /\ writer[e].step = "idle"
    /\ writer' = [writer EXCEPT ![e].step = "read", ![e].prev = HeadOfChain, ![e].at = now]
    /\ UNCHANGED <<now, log, fallbackVars, jobVars, faults>>

\* Once it holds the lock, a call reads the head of the chain.  One that waits for
\* the lock looks like one that has not come.
ReadPrevious(e) ==
    /\ writer[e].step = "idle" /\ At("read") = {}
    /\ writer' = [writer EXCEPT ![e].step = "read", ![e].prev = HeadOfChain, ![e].at = now]
    /\ UNCHANGED <<now, log, fallbackVars, jobVars, faults>>

\* The row, and the commit that frees the lock.  Its answer may be lost.
CreateRow(e) ==
    /\ writer[e].step = "read"
    /\ log' = Append(log, [event |-> e, prev |-> writer[e].prev, at |-> writer[e].at])
    /\ \/ Leave(e, "done") /\ UNCHANGED faults
       \/ Leave(e, "fallback") /\ Fault
    /\ UNCHANGED <<now, fallbackVars, jobVars>>

-----------------------------------------------------------------------------
(* writeAuditFallbackLine *)

InFallback == At("chained") \cup At("appended") \cup At("truncated")

LastLine == IF Len(file) = rotated THEN None ELSE file[Len(file)].event

\* The state, or without one the last line of the file
Fallback(e) ==
    writer' = [writer EXCEPT ![e] = [NoWriter EXCEPT
        !.step = "chained", !.with = InFallback,
        !.prev = IF state # None THEN state ELSE LastLine]]

\* Faulty: an event the database refuses is only written to the console.
AbortToConsole(e) ==
    /\ writer[e].step \in {"idle", "read", "fallback"}
    /\ Leave(e, "done")
    /\ UNCHANGED <<now, log, fallbackVars, jobVars, faults>>

\* Faulty: the state alone tells the previous hash.
AbortToState(e) ==
    /\ writer[e].step \in {"idle", "read", "fallback"}
    /\ writer' = [writer EXCEPT ![e] = [NoWriter EXCEPT !.step = "chained", !.prev = state]]
    /\ UNCHANGED <<now, log, fallbackVars, jobVars, faults>>

\* The transaction fails or takes too long and is rolled back, or its answer was
\* lost: the event goes to the file.  The first call asks for the directory, and one
\* that comes before the answer is told that there is none.
Abort(e) ==
    /\ writer[e].step \in {"idle", "read", "fallback"}
    /\ \/ path = "unchecked" /\ path' = "making" /\ Leave(e, "making")
       \/ path = "ready" /\ Fallback(e) /\ UNCHANGED path
       \/ path \in {"making", "absent"} /\ Leave(e, "done") /\ UNCHANGED path
    /\ UNCHANGED <<now, log, file, rotated, state, unsaved, jobVars, faults>>

\* What the first call learnt serves the process to its end.
EnsureAuditFallbackPath(e) ==
    /\ writer[e].step = "making"
    /\ \/ path' = "ready" /\ Fallback(e) /\ UNCHANGED faults
       \/ path' = "absent" /\ Leave(e, "done") /\ Fault
    /\ UNCHANGED <<now, log, file, rotated, state, unsaved, jobVars>>

\* An error is swallowed: the call returns without a line.
AppendFallbackLine(e) ==
    /\ writer[e].step = "chained"
    /\ \/ /\ file' = Append(file, [event |-> e, prev |-> writer[e].prev, with |-> writer[e].with])
          /\ Move(e, "appended") /\ UNCHANGED faults
       \/ Fault /\ Leave(e, "done") /\ UNCHANGED file
    /\ UNCHANGED <<now, log, rotated, state, unsaved, path, jobVars>>

\* writeFile empties the state before it writes; it may fail before or between.
WriteAuditFallbackPreviousHash(e) ==
    /\ \/ writer[e].step = "appended" /\ Move(e, "truncated") /\ state' = None
          /\ UNCHANGED <<unsaved, faults>>
       \/ writer[e].step = "truncated" /\ Leave(e, "done") /\ state' = e
          /\ UNCHANGED <<unsaved, faults>>
       \/ /\ writer[e].step \in {"appended", "truncated"} /\ Fault
          /\ Leave(e, "done") /\ unsaved' = unsaved \cup {e} /\ UNCHANGED state
    /\ UNCHANGED <<now, log, file, rotated, path, jobVars>>

\* The process dies, and its calls never return: transactions are rolled back,
\* lines under way are lost.  The next one knows nothing of the directory.
Crash ==
    /\ Fault
    /\ unsaved' = unsaved \cup At("appended") \cup At("truncated")
    /\ path' = "unchecked"
    /\ writer' = [e \in Events |->
          IF writer[e].step \in {"idle", "done", "dead"} THEN writer[e]
                                                       ELSE [NoWriter EXCEPT !.step = "dead"]]
    /\ UNCHANGED <<now, log, file, rotated, state, jobVars>>

\* logrotate moves the file away and leaves the state.
Rotate ==
    /\ rotated < Len(file) /\ rotated' = Len(file)
    /\ UNCHANGED <<now, log, writer, file, state, unsaved, path, jobVars, faults>>

-----------------------------------------------------------------------------
(* The clean-up: two statements, each with a clock reading of its own *)

Expired == {i \in Rows : log[i].at < now - Retention}

\* An archive that fails ends the script.
ArchiveAuditLog ==
    /\ cleaner.step = "idle"
    /\ archived' = archived \cup Expired
    /\ cleaner' = [step |-> "archived", at |-> now]
    /\ UNCHANGED <<now, log, writer, fallbackVars, deleted, verifier, faults>>

\* Faulty: the delete does not wait for the archive.
DeleteAnyTime ==
    /\ deleted' = deleted \cup Expired
    /\ cleaner' = [step |-> "idle", at |-> 0]
    /\ UNCHANGED <<now, log, writer, fallbackVars, archived, verifier, faults>>

DeleteAuditLog ==
    /\ cleaner.step = "archived"
    /\ deleted' = deleted \cup Expired
    /\ cleaner' = [step |-> "idle", at |-> 0]
    /\ UNCHANGED <<now, log, writer, fallbackVars, archived, verifier, faults>>

-----------------------------------------------------------------------------
(* The verifier, a process of its own *)

\* Nothing to verify passes.
StartVerifier ==
    /\ verifier.step = "idle" /\ Rows # {}
    /\ verifier' = [NoVerifier EXCEPT !.step = "walking", !.due = Rows]
    /\ UNCHANGED <<now, log, writer, fallbackVars, cleaner, archived, deleted, faults>>

\* The rows behind the cursor: none when its own row is gone.
Ahead == {i \in Rows : verifier.cursor = 0 \/ (verifier.cursor \in Rows /\ i > verifier.cursor)}

\* Faulty: one row too many is skipped.
PageSkippingTwo ==
    LET skip == IF verifier.cursor = 0 THEN 0 ELSE 1 IN
    {i \in Ahead : Cardinality({j \in Ahead : j < i}) \in skip..(skip + BatchSize - 1)}

Page == {i \in Ahead : Cardinality({j \in Ahead : j < i}) < BatchSize}

\* The rows this one must link to the last of: the first row of all may link to
\* one that is gone.
Seen(i) == {j \in Page : j < i} \cup ({verifier.cursor} \ {0})

CheckPage ==
    /\ verifier.step = "walking" /\ Page # {}
    /\ verifier' = [verifier EXCEPT
          !.cursor = Max(Page),
          !.due  = @ \ Page,
          !.bad  = @ \/ \E i \in Page : Seen(i) # {} /\ log[i].prev # log[Max(Seen(i))].event]
    /\ UNCHANGED <<now, log, writer, fallbackVars, cleaner, archived, deleted, faults>>

\* An empty page ends the walk.
EndVerifier ==
    /\ verifier.step = "walking" /\ Page = {}
    /\ verifier' = [verifier EXCEPT !.step = "done"]
    /\ UNCHANGED <<now, log, writer, fallbackVars, cleaner, archived, deleted, faults>>

\* No transaction lasts longer than MaxTransaction.
Tick ==
    /\ now < MaxTime /\ now' = now + 1
    /\ \A e \in At("read") : now < writer[e].at + MaxTransaction
    /\ UNCHANGED <<log, writer, fallbackVars, jobVars, faults>>

WriterStep(e) ==
    \/ ReadPrevious(e)
    \/ CreateRow(e)
    \/ Abort(e)
    \/ EnsureAuditFallbackPath(e)
    \/ AppendFallbackLine(e)
    \/ WriteAuditFallbackPreviousHash(e)

Next ==
    \/ \E e \in Events : WriterStep(e)
    \/ Crash
    \/ Rotate
    \/ ArchiveAuditLog
    \/ DeleteAuditLog
    \/ StartVerifier
    \/ CheckPage
    \/ EndVerifier
    \/ Tick

Spec == Init /\ [][Next]_vars

-----------------------------------------------------------------------------
(* Properties *)

Steps == {"idle", "read", "fallback", "making", "chained", "appended",
          "truncated", "done", "dead"}

TypeOK ==
    /\ now \in 0..MaxTime /\ faults \in 0..MaxFaults
    /\ writer \in [Events -> [step : Steps, prev : Events \cup {None},
                              at : 0..MaxTime, with : SUBSET Events]]
    /\ log \in Seq([event : Events, prev : Events \cup {None}, at : 0..now])
    /\ \A i \in DOMAIN file : file[i].event \in Events /\ file[i].event # file[i].prev
    /\ rotated \in 0..Len(file) /\ state \in Events \cup {None} /\ unsaved \subseteq Events
    /\ path \in {"unchecked", "making", "ready", "absent"}
    /\ cleaner \in [step : {"idle", "archived"}, at : 0..now]
    /\ archived \subseteq DOMAIN log /\ deleted \subseteq DOMAIN log
    /\ verifier.step \in {"idle", "walking", "done"} /\ verifier.bad \in BOOLEAN
    /\ verifier.cursor \in 0..Len(log) /\ verifier.due \subseteq DOMAIN log

InFile == {file[i].event : i \in DOMAIN file}
InLog  == {log[i].event : i \in DOMAIN log}

\* "serialize integrity-chain writes to prevent concurrent hash-branching"
\* (audit-log.ts:534): each row links to the one before it, and the first row
\* to one that the clean-up took or to nothing, whatever fails (logAudit).
Chained ==
    \A i \in Rows :
        LET before == {j \in Rows : j < i} IN
        IF before = {} THEN log[i].prev \in {log[d].event : d \in deleted} \cup {None}
                       ELSE log[i].prev = log[Max(before)].event

\* "Never throws to callers; DB errors are captured via fallback sink"
\* (audit-log.ts:511): a call returns with its event in the log or in the file.  It
\* returns without, after a failed transaction, in the step in which the file
\* system fails it, or when the process found no directory, or while another call
\* is still making the directory (logAudit, writeAuditFallbackLine,
\* ensureAuditFallbackPath).
Accounted ==
    [][\A e \in Events : writer[e].step # "done" /\ writer'[e].step = "done" =>
          \/ e \in InLog' \cup InFile'
          \/ writer[e].step \in {"making", "chained"} /\ faults' = faults + 1
          \/ path = "absent"
          \/ \E f \in Events \ {e} : writer[f].step = "making"]_vars

\* The verifier, paging through a log that grows and is cut while it reads,
\* raises no alarm, and sees every row that was there when it began and is there
\* still, unless the clean-up took the very row it had stopped at.
VerifierRight ==
    /\ ~verifier.bad
    /\ (verifier.step = "done" /\ verifier.cursor \notin deleted)
            => verifier.due \cap Rows = {}

\* "Fallback audit lines must carry signed integrity metadata with chained
\* previous hash" (FINDINGS_REGISTER.md:79): until two writers overlap or a hash
\* does not reach the state, each line follows the one before it, across
\* rotations of the file as well (writeAuditFallbackLine).
FallbackChained ==
    \A j \in DOMAIN file :
        \/ file[j].prev = IF j = 1 THEN None ELSE file[j - 1].event
        \/ \E k \in 1..j : file[k].with # {}
        \/ \E k \in 1..(j - 1) : file[k].event \in unsaved

\* "preserve redacted audit trail before retention delete" (cleanup-db.sh:124): a
\* row is deleted without being archived only if it grew old between the two
\* statements.
ArchivedUnlessCrossing ==
    [][\A i \in deleted' \ (deleted \cup archived) :
          cleaner.step = "archived" /\ log[i].at >= cleaner.at - Retention]_vars
=============================================================================
