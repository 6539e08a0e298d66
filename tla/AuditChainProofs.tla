---------------------------- MODULE AuditChainProofs ----------------------------
(***************************************************************************)
(* Proofs about the audit log, its clean-up, its verifier and the fallback *)
(* file, for any number of calls of logAudit and of faults, any page size, *)
(* and any retention longer than a transaction.                            *)
(***************************************************************************)
EXTENDS AuditChain, FiniteSetTheorems, SequenceTheorems, WellFoundedInduction, TLAPS

(***************************************************************************)
(* Least and greatest numbers.                                             *)
(***************************************************************************)
LEMMA LeastNat ==
    ASSUME NEW S, S \subseteq Nat, S # {}
    PROVE  \E i \in S : \A j \in S : i <= j
<1>1. \E x \in S : \A y \in S : ~(<<y, x>> \in OpToRel(<, Nat))
  BY WFMin, NatLessThanWellFounded, Zenon
<1>2. PICK x \in S : \A y \in S : ~(<<y, x>> \in {p \in Nat \X Nat : p[1] < p[2]})
  BY <1>1, Zenon DEF OpToRel
<1>3. \A y \in S : ~(y < x)
  <2> SUFFICES ASSUME NEW y \in S, y < x PROVE FALSE
    OBVIOUS
  <2>1. <<y, x>> \in {p \in Nat \X Nat : p[1] < p[2]}
    OBVIOUS
  <2> QED
    BY <1>2, <2>1
<1> QED
  BY <1>3

LEMMA GreatestNat ==
    ASSUME NEW n \in Nat, NEW S, S \subseteq 0..n, S # {}
    PROVE  \E i \in S : \A j \in S : j <= i
<1> DEFINE T == {n - i : i \in S}
<1>1. \A i \in S : i \in 0..n /\ n - i \in Nat /\ n - i \in T
  OBVIOUS
<1>2. \A t \in T : \E i \in S : t = n - i
  OBVIOUS
<1> HIDE DEF T
<1>3. T \subseteq Nat /\ T # {}
  BY <1>1, <1>2
<1>4. \E t \in T : \A u \in T : t <= u
  BY <1>3, LeastNat, Zenon
<1>5. PICK t \in T : \A u \in T : t <= u
  BY <1>4
<1>6. PICK i \in S : t = n - i
  BY <1>2
<1>7. \A j \in S : n - i <= n - j
  BY <1>1, <1>5, <1>6
<1>8. \A j \in S : j <= i
  BY <1>1, <1>7
<1> QED
  BY <1>8

LEMMA MaxOf ==
    ASSUME NEW n \in Nat, NEW S, S \subseteq 0..n, S # {}
    PROVE  Max(S) \in S /\ \A j \in S : j <= Max(S)
<1>1. \E x \in S : \A y \in S : x >= y
  BY GreatestNat
<1>2. Max(S) \in S /\ \A y \in S : Max(S) >= y
  BY <1>1, Zenon DEF Max
<1> PICK m : m = Max(S)
  BY Zenon
<1>3. m \in S /\ \A y \in S : m >= y
  BY <1>2, Zenon
<1>4. \A y \in S : y <= m
  BY <1>3
<1> QED
  BY <1>3, <1>4, Zenon

LEMMA MaxIs ==
    ASSUME NEW n \in Nat, NEW S, S \subseteq 0..n, NEW i \in S, \A j \in S : j <= i
    PROVE  Max(S) = i
<1> PICK m : m = Max(S)
  BY Zenon
<1>1. m \in S /\ \A j \in S : j <= m
  BY MaxOf, Zenon
<1>2. m = i
  BY <1>1
<1> QED
  BY <1>2, Zenon

\* Fewer of a set come before an earlier member than before a later one.
LEMMA FewerBefore ==
    ASSUME NEW n \in Nat, NEW S, S \subseteq 0..n, NEW i \in S, NEW j \in S, j < i
    PROVE  /\ Cardinality({k \in S : k < j}) \in Nat /\ Cardinality({k \in S : k < i}) \in Nat
           /\ Cardinality({k \in S : k < j}) <= Cardinality({k \in S : k < i})
<1> DEFINE J == {k \in S : k < j}
           I == {k \in S : k < i}
<1>1. 0 \in Int /\ n \in Int
  OBVIOUS
<1>1a. IsFiniteSet(0..n)
  BY <1>1, FS_Interval, Zenon
<1>1b. \A k \in S : k < j => k < i
  OBVIOUS
<1>2. I \in SUBSET (0..n) /\ J \in SUBSET I
  BY <1>1b, Zenon
<1> HIDE DEF I, J
<1>3. IsFiniteSet(I)
  BY <1>1a, <1>2, FS_Subset, Zenon
<1>4. IsFiniteSet(J) /\ Cardinality(J) <= Cardinality(I)
  BY <1>2, <1>3, FS_Subset, Zenon
<1>5. Cardinality(J) \in Nat /\ Cardinality(I) \in Nat
  BY <1>3, <1>4, FS_CardinalityType, Zenon
<1> QED
  BY <1>4, <1>5 DEF I, J

-----------------------------------------------------------------------------
(* The inductive invariant *)

Writers == [step : Steps, prev : Events \cup {None}, at : 0..MaxTime, with : SUBSET Events]
LogRows == [event : Events, prev : Events \cup {None}, at : Nat]
Verifiers == [step : {"idle", "walking", "done"}, cursor : Nat, bad : BOOLEAN,
              due : SUBSET Nat]
Lines   == [event : Events, prev : Events \cup {None}, with : SUBSET Events]

\* Variables that the same steps change have their types together.
JobTypes ==
    /\ cleaner \in [step : {"idle", "archived"}, at : 0..now]
    /\ archived \subseteq DOMAIN log /\ deleted \subseteq DOMAIN log
    /\ verifier \in Verifiers
    /\ verifier.cursor <= Len(log) /\ verifier.due \subseteq DOMAIN log

FileTypes ==
    /\ file \in Seq(Lines) /\ rotated \in 0..Len(file)
    /\ state \in Events \cup {None} /\ unsaved \subseteq Events
    /\ path \in {"unchecked", "making", "ready", "absent"}

BaseTypes ==
    /\ now \in 0..MaxTime /\ faults \in 0..MaxFaults
    /\ writer \in [Events -> Writers] /\ log \in Seq(LogRows)

Types == BaseTypes /\ FileTypes /\ JobTypes

\* The row with this id may follow that hash: the one of the row before it, or
\* none when the clean-up took all that came before.
Links(rows, gone, prev, id) ==
    \/ id > 1 /\ prev = rows[id - 1].event
    \/ prev = None /\ \A j \in 1..(id - 1) : j \in gone

\* Rows are in the order of their times, and the clean-up takes the oldest.
LogInv ==
    /\ \A i, j \in DOMAIN log : i < j => log[i].at <= log[j].at
    /\ \A i \in DOMAIN log : log[i].at <= now
    /\ \A i, j \in DOMAIN log : i < j /\ j \in deleted => i \in deleted
    /\ \A i \in DOMAIN log : Links(log, deleted, log[i].prev, i)

\* The one that holds the lock may append its row, which is not old.
ReaderInv ==
    /\ \A e, f \in At("read") : e = f
    /\ \A e \in At("read") :
          /\ \A i \in DOMAIN log : log[i].at <= writer[e].at
          /\ writer[e].at <= now /\ now <= writer[e].at + MaxTransaction
          /\ Links(log, deleted, writer[e].prev, Len(log) + 1)

ArchiveInv ==
    cleaner.step = "archived" =>
        \A i \in Rows : log[i].at < cleaner.at - Retention => i \in archived

\* What the verifier has yet to see is ahead of it.
VerifierInv ==
    /\ ~verifier.bad
    /\ verifier.step = "walking" =>
          \A i \in verifier.due : i > verifier.cursor \/ i \in deleted
    /\ verifier.step = "done" =>
          (verifier.cursor \in deleted \/ verifier.due \cap Rows = {})

\* No two writers overlapped, and every hash reached the state.
Clean == \A k \in DOMAIN file : file[k].with = {} /\ file[k].event \notin unsaved

LastEvent == IF Len(file) = 0 THEN None ELSE file[Len(file)].event

Overlapping == {"chained", "appended", "truncated"}
Appending   == {"appended", "truncated"}
Recorded    == {"appended", "truncated", "done", "dead"}

\* An event is in the file once its line is appended, and the state is of a call
\* that is over.
LinesInv ==
    /\ \A k \in DOMAIN file :
          /\ writer[file[k].event].step \in Recorded
          /\ file[k].event # file[k].prev
    /\ state # None => writer[state].step = "done"
    /\ \A e \in Events : writer[e].step = "chained" => writer[e].prev # e
    /\ \A e \in Events : writer[e].step \in Appending =>
          \E k \in DOMAIN file : file[k].event = e /\ file[k].with = writer[e].with

\* Two writers that overlap leave a trace, and without one the state follows the file.
FallbackInv ==
    /\ \A e, f \in Events :
          writer[e].step \in Overlapping /\ writer[f].step \in Overlapping /\ e # f
              => e \in writer[f].with \/ f \in writer[e].with
    /\ Clean =>
          /\ (\A e \in Events : writer[e].step \notin Appending) => state = LastEvent
          /\ \A e \in Events : writer[e].step = "chained" /\ writer[e].with = {}
                                   => writer[e].prev = LastEvent
          /\ \A e \in Events : writer[e].step \in Appending => LastEvent = e

\* Only a call that makes the directory keeps the others from it.
PathInv == path = "making" => \E f \in Events : writer[f].step = "making"

ChainInv ==
    /\ Types /\ LogInv /\ ReaderInv /\ ArchiveInv /\ VerifierInv
    /\ LinesInv /\ FallbackInv /\ FallbackChained /\ PathInv

-----------------------------------------------------------------------------
(* What the steps do to a call of logAudit *)

\* The call is now this; the others are what they were.
Set(e, step, prev, at, with) ==
    /\ writer' \in [Events -> Writers]
    /\ writer'[e].step = step /\ writer'[e].prev = prev
    /\ writer'[e].at = at /\ writer'[e].with = with
    /\ \A f \in Events : f # e => writer'[f] = writer[f]

LEMMA SetByRecord ==
    ASSUME Types, NEW e \in Events, NEW v \in Writers, writer' = [writer EXCEPT ![e] = v]
    PROVE  Set(e, v.step, v.prev, v.at, v.with)
BY DEF Types, BaseTypes, FileTypes, JobTypes, Set

LEMMA MoveSets ==
    ASSUME Types, NEW e \in Events, NEW step \in Steps, Move(e, step)
    PROVE  Set(e, step, writer[e].prev, writer[e].at, writer[e].with)
<1> DEFINE v == [writer[e] EXCEPT !.step = step]
<1>1. writer[e] \in Writers
  BY DEF Types, BaseTypes, FileTypes, JobTypes
<1>2. writer' = [writer EXCEPT ![e] = v]
  BY Zenon DEF Move
<1>3. /\ v \in Writers /\ v.step = step
      /\ v.prev = writer[e].prev /\ v.at = writer[e].at /\ v.with = writer[e].with
  BY <1>1, Zenon DEF Writers
<1> HIDE DEF v
<1> QED
  BY <1>2, <1>3, SetByRecord, Zenon DEF Set

LEMMA ReadSets ==
    ASSUME Types, NEW e \in Events, NEW prev \in Events \cup {None},
           writer' = [writer EXCEPT ![e].step = "read", ![e].prev = prev, ![e].at = now]
    PROVE  Set(e, "read", prev, now, writer[e].with)
<1> DEFINE v == [writer[e] EXCEPT !.step = "read", !.prev = prev, !.at = now]
<1>1. writer[e] \in Writers /\ writer \in [Events -> Writers] /\ now \in 0..MaxTime
  BY DEF Types, BaseTypes, FileTypes, JobTypes
<1>2. writer' = [writer EXCEPT ![e] = v]
  BY <1>1, Zenon
<1>3. /\ v \in Writers /\ v.step = "read"
      /\ v.prev = prev /\ v.at = now /\ v.with = writer[e].with
  BY <1>1, Zenon DEF Writers, Steps
<1> HIDE DEF v
<1> QED
  BY <1>2, <1>3, SetByRecord, Zenon DEF Set

LEMMA LeaveSets ==
    ASSUME Types, NEW e \in Events, NEW step \in Steps, Leave(e, step)
    PROVE  Set(e, step, None, 0, {})
<1> DEFINE v == [NoWriter EXCEPT !.step = step]
<1>1. writer' = [writer EXCEPT ![e] = v]
  BY Zenon DEF Leave
<1>2. 0 \in 0..MaxTime
  BY AuditChainAssumption
<1>3. v \in Writers /\ v.step = step /\ v.prev = None /\ v.at = 0 /\ v.with = {}
  BY <1>2, Zenon DEF Writers, NoWriter
<1> HIDE DEF v
<1> QED
  BY <1>1, <1>3, SetByRecord, Zenon DEF Set

\* What the hash of a new fallback line will be linked to.
PrevInFile == IF state # None THEN state ELSE LastLine

LEMMA PrevInFileType ==
    ASSUME Types
    PROVE  PrevInFile \in Events \cup {None}
<1>1. CASE state # None
  BY <1>1, Zenon DEF PrevInFile, Types, FileTypes
<1>2. CASE state = None /\ Len(file) = rotated
  BY <1>2 DEF PrevInFile, LastLine
<1>3. CASE state = None /\ Len(file) # rotated
  <2>1. Len(file) \in DOMAIN file /\ file \in Seq(Lines)
    BY <1>3 DEF Types, BaseTypes, FileTypes, JobTypes
  <2>2. file[Len(file)] \in Lines
    BY <2>1
  <2> QED
    BY <1>3, <2>2 DEF PrevInFile, LastLine, Lines
<1> QED
  BY <1>1, <1>2, <1>3

LEMMA FallbackSets ==
    ASSUME Types, NEW e \in Events, Fallback(e)
    PROVE  Set(e, "chained", PrevInFile, 0, InFallback)
<1> DEFINE v == [NoWriter EXCEPT !.step = "chained", !.with = InFallback, !.prev = PrevInFile]
<1>1. writer' = [writer EXCEPT ![e] = v]
  BY Zenon DEF Fallback, PrevInFile
<1>2. 0 \in 0..MaxTime
  BY AuditChainAssumption
<1>3. InFallback \in SUBSET Events
  BY DEF InFallback, At
<1>4. /\ v \in Writers /\ v.step = "chained"
      /\ v.prev = PrevInFile /\ v.at = 0 /\ v.with = InFallback
  BY <1>2, <1>3, PrevInFileType, Zenon DEF Writers, Steps, NoWriter
<1> HIDE DEF v
<1> QED
  BY <1>1, <1>4, SetByRecord, Zenon DEF Set

\* A crash ends every call under way.
Ended ==
    /\ writer' \in [Events -> Writers]
    /\ \A e \in Events :
          IF writer[e].step \in {"idle", "done", "dead"} THEN writer'[e] = writer[e]
                                                       ELSE writer'[e].step = "dead"

LEMMA CrashEnds ==
    ASSUME Types, Crash
    PROVE  Ended
<1> DEFINE D == [NoWriter EXCEPT !.step = "dead"]
<1>1. 0 \in 0..MaxTime
  BY AuditChainAssumption
<1>2. D \in Writers /\ D.step = "dead"
  BY <1>1, Zenon DEF NoWriter, Writers, Steps
<1>3. writer' = [e \in Events |->
          IF writer[e].step \in {"idle", "done", "dead"} THEN writer[e] ELSE D]
  BY Zenon DEF Crash
<1>4. writer \in [Events -> Writers]
  BY DEF Types, BaseTypes, FileTypes, JobTypes
<1> HIDE DEF D
<1>5. \A e \in Events : writer'[e] =
          IF writer[e].step \in {"idle", "done", "dead"} THEN writer[e] ELSE D
  BY <1>3, Zenon
<1>6. \A e \in Events : writer'[e] \in Writers
  BY <1>2, <1>4, <1>5
<1>7. writer' \in [Events -> Writers]
  BY <1>3, <1>6, Zenon
<1> QED
  BY <1>2, <1>5, <1>7 DEF Ended

-----------------------------------------------------------------------------
(* The head of the chain *)

LEMMA RowsBounded ==
    ASSUME Types
    PROVE  /\ Len(log) \in Nat /\ DOMAIN log = 1..Len(log)
           /\ Rows \subseteq 0..Len(log) /\ Rows \subseteq DOMAIN log
           /\ \A i \in DOMAIN log : log[i] \in LogRows
BY DEF Types, BaseTypes, FileTypes, JobTypes, Rows

LEMMA HeadType ==
    ASSUME Types
    PROVE  HeadOfChain \in Events \cup {None}
<1>1. CASE Rows = {}
  BY <1>1 DEF HeadOfChain
<1>2. CASE Rows # {}
  <2>1. Max(Rows) \in Rows
    BY <1>2, RowsBounded, MaxOf, Zenon
  <2>2. log[Max(Rows)] \in LogRows
    BY <2>1, RowsBounded, Zenon
  <2>3. log[Max(Rows)].event \in Events
    BY <2>2, Zenon DEF LogRows
  <2> QED
    BY <1>2, <2>3, Zenon DEF HeadOfChain
<1> QED
  BY <1>1, <1>2

\* The last row is there as long as any is.
LEMMA LastRowStays ==
    ASSUME Types, LogInv, NEW i \in Rows, NEW j \in DOMAIN log, i <= j
    PROVE  j \in Rows
BY DEF Types, BaseTypes, FileTypes, JobTypes, LogInv, Rows

LEMMA HeadLinks ==
    ASSUME Types, LogInv
    PROVE  Links(log, deleted, HeadOfChain, Len(log) + 1)
<1>0. Len(log) \in Nat /\ DOMAIN log = 1..Len(log)
  BY RowsBounded
<1>1. CASE Rows = {}
  <2>1. HeadOfChain = None
    BY <1>1, Zenon DEF HeadOfChain
  <2>2. \A j \in 1..(Len(log) + 1 - 1) : j \in deleted
    BY <1>0, <1>1 DEF Rows
  <2> QED
    BY <2>1, <2>2 DEF Links
<1>2. CASE Rows # {}
  <2>1. PICK i \in Rows : TRUE
    BY <1>2
  <2>2. i \in DOMAIN log
    BY <2>1, RowsBounded, Zenon
  <2>3. Len(log) \in DOMAIN log /\ i <= Len(log)
    BY <1>0, <2>2
  <2>4. Len(log) \in Rows
    BY <2>1, <2>3, LastRowStays
  <2>5. \A j \in Rows : j <= Len(log)
    BY <1>0, RowsBounded
  <2>6. Max(Rows) = Len(log)
    BY <1>0, <2>4, <2>5, RowsBounded, MaxIs, Zenon
  <2>7. HeadOfChain = log[Len(log)].event
    BY <1>2, <2>6, Zenon DEF HeadOfChain
  <2>8. Len(log) + 1 > 1 /\ (Len(log) + 1) - 1 = Len(log)
    BY <1>0, <2>3
  <2> QED
    BY <2>7, <2>8 DEF Links
<1> QED
  BY <1>1, <1>2

-----------------------------------------------------------------------------
(* Types *)

LEMMA TypesInit ==
    ASSUME Init
    PROVE  Types
<1>1. 0 \in 0..MaxTime /\ 0 \in 0..MaxFaults
  BY AuditChainAssumption
<1>2. NoWriter \in Writers
  BY <1>1, Zenon DEF NoWriter, Writers, Steps
<1>3. NoVerifier \in Verifiers /\ NoVerifier.cursor = 0 /\ NoVerifier.due = {}
  BY Zenon DEF NoVerifier, Verifiers
<1>3a. 0 <= Len(log)
  BY DEF Init
<1>4. writer \in [Events -> Writers]
  BY <1>2, Zenon DEF Init
<1>5. cleaner \in [step : {"idle", "archived"}, at : 0..now]
  BY DEF Init
<1>6. verifier = NoVerifier
  BY Zenon DEF Init
<1>7. log \in Seq(LogRows) /\ file \in Seq(Lines) /\ rotated \in 0..Len(file)
  BY DEF Init
<1>8. /\ now \in 0..MaxTime /\ faults \in 0..MaxFaults /\ state = None /\ unsaved = {}
      /\ archived = {} /\ deleted = {} /\ path \in {"unchecked", "making", "ready", "absent"}
  BY <1>1, Zenon DEF Init
<1> QED
  BY <1>3, <1>3a, <1>4, <1>5, <1>6, <1>7, <1>8, Zenon DEF Types, BaseTypes, FileTypes, JobTypes

LEMMA JobTypesStill ==
    ASSUME JobTypes, UNCHANGED <<now, log, jobVars>>
    PROVE  JobTypes'
BY Zenon DEF JobTypes, jobVars

LEMMA FileTypesStill ==
    ASSUME FileTypes, UNCHANGED fallbackVars
    PROVE  FileTypes'
BY Zenon DEF FileTypes, fallbackVars

LEMMA FaultType ==
    ASSUME faults \in 0..MaxFaults, Fault \/ UNCHANGED faults
    PROVE  faults' \in 0..MaxFaults
BY AuditChainAssumption DEF Fault

LEMMA TypesReadPrevious ==
    ASSUME Types, NEW e \in Events, ReadPrevious(e)
    PROVE  Types'
<1>1. writer' \in [Events -> Writers]
  BY HeadType, ReadSets, Zenon DEF ReadPrevious, Set
<1>7. BaseTypes'
  BY <1>1, Zenon DEF ReadPrevious, Types, BaseTypes
<1>8. FileTypes'
  BY FileTypesStill, Zenon DEF ReadPrevious, Types
<1>9. JobTypes'
  BY JobTypesStill, Zenon DEF ReadPrevious, Types
<1> QED
  BY <1>7, <1>8, <1>9, Zenon DEF Types

LEMMA NewRow ==
    ASSUME Types, NEW e \in Events
    PROVE  [event |-> e, prev |-> writer[e].prev, at |-> writer[e].at] \in LogRows
<1>1. writer[e] \in Writers
  BY DEF Types, BaseTypes, FileTypes, JobTypes
<1>2. writer[e].prev \in Events \cup {None} /\ writer[e].at \in 0..MaxTime
  BY <1>1, Zenon DEF Writers
<1>3. writer[e].at \in Nat
  BY <1>2, AuditChainAssumption
<1> QED
  BY <1>2, <1>3, Zenon DEF LogRows

\* The log as it grows.
Grown(e) ==
    /\ log' \in Seq(LogRows) /\ Len(log') = Len(log) + 1
    /\ DOMAIN log = 1..Len(log) /\ DOMAIN log' = 1..(Len(log) + 1) /\ Len(log) \in Nat
    /\ \A i \in DOMAIN log : log'[i] = log[i]
    /\ log'[Len(log) + 1].event = e
    /\ log'[Len(log) + 1].prev = writer[e].prev
    /\ log'[Len(log) + 1].at = writer[e].at

LEMMA CreateRowGrows ==
    ASSUME Types, NEW e \in Events, CreateRow(e)
    PROVE  Grown(e)
<1> DEFINE r == [event |-> e, prev |-> writer[e].prev, at |-> writer[e].at]
<1>1. r \in LogRows /\ r.event = e /\ r.prev = writer[e].prev /\ r.at = writer[e].at
  BY NewRow, Zenon
<1>2. log' = Append(log, r)
  BY Zenon DEF CreateRow
<1> HIDE DEF r
<1>3. log \in Seq(LogRows)
  BY DEF Types, BaseTypes, FileTypes, JobTypes
<1>4. /\ log' \in Seq(LogRows) /\ Len(log') = Len(log) + 1
      /\ DOMAIN log = 1..Len(log) /\ DOMAIN log' = 1..(Len(log) + 1) /\ Len(log) \in Nat
      /\ (\A i \in DOMAIN log : log'[i] = log[i]) /\ log'[Len(log) + 1] = r
  BY <1>1, <1>2, <1>3
<1> QED
  BY <1>1, <1>4, Zenon DEF Grown

LEMMA TypesCreateRow ==
    ASSUME Types, NEW e \in Events, CreateRow(e)
    PROVE  Types'
<1>1. writer' \in [Events -> Writers]
  BY LeaveSets, Zenon DEF CreateRow, Set, Steps
<1>2. Grown(e)
  BY CreateRowGrows
<1>3. now' = now /\ faults' \in 0..MaxFaults
  <2>1. now' = now /\ (Fault \/ UNCHANGED faults)
    BY Zenon DEF CreateRow
  <2> QED
    BY <2>1, FaultType, Zenon DEF Types, BaseTypes
<1>4. (\A i \in Nat : i <= Len(log) => i <= Len(log')) /\ DOMAIN log \subseteq DOMAIN log'
  BY <1>2 DEF Grown
<1>5. JobTypes'
  <2>1. verifier' = verifier /\ cleaner' = cleaner /\ archived' = archived /\ deleted' = deleted
    BY Zenon DEF CreateRow, jobVars
  <2>2. JobTypes /\ verifier.cursor \in Nat
    BY Zenon DEF Verifiers, Types, JobTypes
  <2>3. verifier'.cursor <= Len(log')
    BY <1>4, <2>1, <2>2, Zenon DEF JobTypes
  <2>4. /\ verifier'.due \subseteq DOMAIN log'
        /\ archived' \subseteq DOMAIN log' /\ deleted' \subseteq DOMAIN log'
    BY <1>4, <2>1, <2>2, Zenon DEF JobTypes
  <2>5. verifier' \in Verifiers /\ cleaner' \in [step : {"idle", "archived"}, at : 0..now']
    BY <1>3, <2>1, <2>2, Zenon DEF JobTypes
  <2> QED
    BY <2>3, <2>4, <2>5, Zenon DEF JobTypes
<1>7. BaseTypes'
  BY <1>1, <1>2, <1>3, Zenon DEF CreateRow, Types, BaseTypes, Grown
<1>8. FileTypes'
  BY FileTypesStill, Zenon DEF CreateRow, Types
<1> QED
  BY <1>5, <1>7, <1>8, Zenon DEF Types

\* A call that comes to its fallback.
LEMMA TypesAbort ==
    ASSUME Types, NEW e \in Events, Abort(e) \/ EnsureAuditFallbackPath(e)
    PROVE  Types'
<1>1. writer' \in [Events -> Writers]
  <2>1. "making" \in Steps /\ "done" \in Steps
    BY DEF Steps
  <2> QED
    BY <2>1, FallbackSets, LeaveSets, Zenon DEF Abort, EnsureAuditFallbackPath, Set
<1>2. faults' \in 0..MaxFaults
  <2>1. Fault \/ UNCHANGED faults
    BY Zenon DEF Abort, EnsureAuditFallbackPath
  <2> QED
    BY <2>1, FaultType, Zenon DEF Types, BaseTypes
<1>3. /\ path' \in {"unchecked", "making", "ready", "absent"}
      /\ UNCHANGED <<now, log, file, rotated, state, unsaved, jobVars>>
  BY Zenon DEF Abort, EnsureAuditFallbackPath, Types, FileTypes
<1>7. BaseTypes'
  BY <1>1, <1>2, <1>3, Zenon DEF Types, BaseTypes
<1>8. FileTypes'
  BY <1>3, Zenon DEF Types, FileTypes
<1>9. JobTypes'
  BY <1>3, JobTypesStill, Zenon DEF Types
<1> QED
  BY <1>7, <1>8, <1>9, Zenon DEF Types

\* The file as it grows.
Written(e) ==
    /\ file' \in Seq(Lines) /\ Len(file') = Len(file) + 1
    /\ DOMAIN file = 1..Len(file) /\ DOMAIN file' = 1..(Len(file) + 1) /\ Len(file) \in Nat
    /\ \A k \in DOMAIN file : file'[k] = file[k]
    /\ file'[Len(file) + 1].event = e
    /\ file'[Len(file) + 1].prev = writer[e].prev
    /\ file'[Len(file) + 1].with = writer[e].with

LEMMA AppendWrites ==
    ASSUME Types, NEW e \in Events,
           file' = Append(file, [event |-> e, prev |-> writer[e].prev, with |-> writer[e].with])
    PROVE  Written(e)
<1> DEFINE r == [event |-> e, prev |-> writer[e].prev, with |-> writer[e].with]
<1>1. writer[e] \in Writers
  BY DEF Types, BaseTypes
<1>2. r \in Lines /\ r.event = e /\ r.prev = writer[e].prev /\ r.with = writer[e].with
  BY <1>1, Zenon DEF Writers, Lines
<1>3. file' = Append(file, r)
  BY Zenon
<1> HIDE DEF r
<1>4. file \in Seq(Lines)
  BY DEF Types, FileTypes
<1>5. /\ file' \in Seq(Lines) /\ Len(file') = Len(file) + 1
      /\ DOMAIN file = 1..Len(file) /\ DOMAIN file' = 1..(Len(file) + 1) /\ Len(file) \in Nat
      /\ (\A k \in DOMAIN file : file'[k] = file[k]) /\ file'[Len(file) + 1] = r
  BY <1>2, <1>3, <1>4
<1> QED
  BY <1>2, <1>5, Zenon DEF Written

LEMMA TypesAppendFallbackLine ==
    ASSUME Types, NEW e \in Events, AppendFallbackLine(e)
    PROVE  Types'
<1>1. writer' \in [Events -> Writers]
  BY MoveSets, LeaveSets, Zenon DEF AppendFallbackLine, Set, Steps
<1>2. faults' \in 0..MaxFaults
  <2>1. Fault \/ UNCHANGED faults
    BY Zenon DEF AppendFallbackLine
  <2> QED
    BY <2>1, FaultType, Zenon DEF Types, BaseTypes
<1>3. file' \in Seq(Lines) /\ rotated \in 0..Len(file')
  <2>1. CASE UNCHANGED file
    BY <2>1, Zenon DEF Types, FileTypes
  <2>2. CASE Written(e)
    <3>1. rotated \in 0..Len(file)
      BY Zenon DEF Types, FileTypes
    <3> QED
      BY <2>2, <3>1 DEF Written
  <2> QED
    BY <2>1, <2>2, AppendWrites, Zenon DEF AppendFallbackLine
<1>7. BaseTypes'
  BY <1>1, <1>2, Zenon DEF AppendFallbackLine, Types, BaseTypes
<1>8. FileTypes'
  BY <1>3, Zenon DEF AppendFallbackLine, Types, FileTypes
<1>9. JobTypes'
  BY JobTypesStill, Zenon DEF AppendFallbackLine, Types
<1> QED
  BY <1>7, <1>8, <1>9, Zenon DEF Types

LEMMA TypesWriteAuditFallbackPreviousHash ==
    ASSUME Types, NEW e \in Events, WriteAuditFallbackPreviousHash(e)
    PROVE  Types'
<1>1. writer' \in [Events -> Writers]
  BY MoveSets, LeaveSets, Zenon DEF WriteAuditFallbackPreviousHash, Set, Steps
<1>2. faults' \in 0..MaxFaults
  <2>1. Fault \/ UNCHANGED faults
    BY Zenon DEF WriteAuditFallbackPreviousHash
  <2> QED
    BY <2>1, FaultType, Zenon DEF Types, BaseTypes
<1>3. state' \in Events \cup {None} /\ unsaved' \subseteq Events
  BY DEF WriteAuditFallbackPreviousHash, Types, FileTypes
<1>7. BaseTypes'
  BY <1>1, <1>2, Zenon DEF WriteAuditFallbackPreviousHash, Types, BaseTypes
<1>8. FileTypes'
  BY <1>3, Zenon DEF WriteAuditFallbackPreviousHash, Types, FileTypes
<1>9. JobTypes'
  BY JobTypesStill, Zenon DEF WriteAuditFallbackPreviousHash, Types
<1> QED
  BY <1>7, <1>8, <1>9, Zenon DEF Types

LEMMA TypesCrash ==
    ASSUME Types, Crash
    PROVE  Types'
<1>1. writer' \in [Events -> Writers]
  BY CrashEnds, Zenon DEF Ended
<1>2. faults' \in 0..MaxFaults
  BY FaultType, Zenon DEF Crash, Types, BaseTypes
<1>3. unsaved' \subseteq Events
  BY DEF Crash, Types, FileTypes, At
<1>7. BaseTypes'
  BY <1>1, <1>2, Zenon DEF Crash, Types, BaseTypes
<1>8. FileTypes'
  BY <1>3, Zenon DEF Crash, Types, FileTypes
<1>9. JobTypes'
  BY JobTypesStill, Zenon DEF Crash, Types
<1> QED
  BY <1>7, <1>8, <1>9, Zenon DEF Types

LEMMA TypesRotate ==
    ASSUME Types, Rotate
    PROVE  Types'
<1>1. rotated' \in 0..Len(file)
  BY DEF Rotate, Types, FileTypes
<1>7. BaseTypes'
  BY Zenon DEF Rotate, Types, BaseTypes
<1>8. FileTypes'
  BY <1>1, Zenon DEF Rotate, Types, FileTypes
<1>9. JobTypes'
  BY JobTypesStill, Zenon DEF Rotate, Types
<1> QED
  BY <1>7, <1>8, <1>9, Zenon DEF Types

LEMMA TypesCleaner ==
    ASSUME Types, ArchiveAuditLog \/ DeleteAuditLog
    PROVE  Types'
<1>1. now \in Nat /\ now \in 0..now /\ 0 \in 0..now
  BY AuditChainAssumption DEF Types, BaseTypes
<1>2. cleaner' \in [step : {"idle", "archived"}, at : 0..now]
  <2>1. /\ [step |-> "archived", at |-> now] \in [step : {"idle", "archived"}, at : 0..now]
        /\ [step |-> "idle", at |-> 0] \in [step : {"idle", "archived"}, at : 0..now]
    BY <1>1
  <2>2. cleaner' \in {[step |-> "archived", at |-> now], [step |-> "idle", at |-> 0]}
    BY Zenon DEF ArchiveAuditLog, DeleteAuditLog
  <2> QED
    BY <2>1, <2>2, Zenon
<1>3. Expired \subseteq DOMAIN log
  BY DEF Expired, Rows
<1>4. archived' \subseteq DOMAIN log /\ deleted' \subseteq DOMAIN log
  BY <1>3, Zenon DEF ArchiveAuditLog, DeleteAuditLog, Types, JobTypes
<1>5. UNCHANGED <<now, log, writer, fallbackVars, verifier, faults>>
  BY Zenon DEF ArchiveAuditLog, DeleteAuditLog
<1>7. BaseTypes'
  BY <1>5, Zenon DEF Types, BaseTypes
<1>8. FileTypes'
  BY <1>5, FileTypesStill, Zenon DEF Types
<1>9. JobTypes'
  BY <1>2, <1>4, <1>5, Zenon DEF Types, JobTypes
<1> QED
  BY <1>7, <1>8, <1>9, Zenon DEF Types

LEMMA TypesTick ==
    ASSUME Types, Tick
    PROVE  Types'
<1>1. now' \in 0..MaxTime /\ \A i \in 0..now : i \in 0..now'
  BY AuditChainAssumption DEF Tick, Types, BaseTypes
<1>2. cleaner \in [step : {"idle", "archived"}, at : 0..now']
  BY <1>1, Zenon DEF Types, JobTypes
<1>3. UNCHANGED <<log, writer, fallbackVars, jobVars, faults>>
  BY Zenon DEF Tick
<1>7. BaseTypes'
  BY <1>1, <1>3, Zenon DEF Types, BaseTypes
<1>8. FileTypes'
  BY <1>3, FileTypesStill, Zenon DEF Types
<1>9. JobTypes'
  BY <1>2, <1>3, Zenon DEF Types, JobTypes, jobVars
<1> QED
  BY <1>7, <1>8, <1>9, Zenon DEF Types

-----------------------------------------------------------------------------
(* The pages of the verifier *)

LEMMA PageBounded ==
    ASSUME Types
    PROVE  /\ Ahead \subseteq 0..Len(log) /\ Page \subseteq Ahead
           /\ Page \subseteq 0..Len(log) /\ Page \subseteq Rows /\ Ahead \subseteq Rows
BY RowsBounded, Zenon DEF Ahead, Page

\* A page leaves nothing out.
LEMMA PageHasNoGap ==
    ASSUME Types, NEW i \in Page, NEW j \in Ahead, j < i
    PROVE  j \in Page
<1> DEFINE J == {k \in Ahead : k < j}
           I == {k \in Ahead : k < i}
<1>1. i \in Ahead /\ Cardinality(I) < BatchSize
  BY Zenon DEF Page
<1>2. Cardinality(J) \in Nat /\ Cardinality(I) \in Nat /\ Cardinality(J) <= Cardinality(I)
  BY <1>1, FewerBefore, PageBounded, RowsBounded, Zenon
<1> HIDE DEF I, J
<1>3. Cardinality(J) < BatchSize
  BY <1>1, <1>2, AuditChainAssumption
<1> QED
  BY <1>3, Zenon DEF J, Page

\* A page is empty only at the end.
LEMMA PageHasTheFirst ==
    ASSUME Types, Page = {}
    PROVE  Ahead = {}
<1> SUFFICES ASSUME Ahead # {} PROVE FALSE
  OBVIOUS
<1>1. Ahead \subseteq Nat
  BY PageBounded, RowsBounded
<1>2. PICK i \in Ahead : \A j \in Ahead : i <= j
  BY <1>1, LeastNat, Zenon
<1>2a. \A j \in Ahead : ~(j < i)
  BY <1>1, <1>2
<1>3. {j \in Ahead : j < i} = {}
  BY <1>2a, Zenon
<1>4. Cardinality({j \in Ahead : j < i}) = 0
  BY <1>3, FS_EmptySet, Zenon
<1>5. Cardinality({j \in Ahead : j < i}) < BatchSize
  BY <1>4, AuditChainAssumption
<1> QED
  BY <1>5, Zenon DEF Page

\* Whatever a page compares is right.
Wrong == \E i \in Page : Seen(i) # {} /\ log[i].prev # log[Max(Seen(i))].event

LEMMA StartVerifierIs ==
    ASSUME StartVerifier
    PROVE  /\ verifier' \in [step : {"walking"}, cursor : {0}, bad : {FALSE}, due : {Rows}]
           /\ verifier'.step = "walking" /\ verifier'.cursor = 0
           /\ ~verifier'.bad /\ verifier'.due = Rows
<1>1. verifier' = [NoVerifier EXCEPT !.step = "walking", !.due = Rows]
  BY Zenon DEF StartVerifier
<1> QED
  BY <1>1, Zenon DEF NoVerifier

LEMMA CheckPageIs ==
    ASSUME Types, CheckPage
    PROVE  /\ verifier' \in [step : {"walking"}, cursor : {Max(Page)}, bad : BOOLEAN,
                             due : {verifier.due \ Page}]
           /\ verifier'.step = "walking" /\ verifier'.cursor = Max(Page)
           /\ (verifier'.bad => verifier.bad \/ Wrong) /\ verifier'.due = verifier.due \ Page
<1> DEFINE b == verifier.bad \/ Wrong
           v == [verifier EXCEPT !.cursor = Max(Page), !.due = verifier.due \ Page, !.bad = b]
<1>1. verifier' = v
  BY Zenon DEF CheckPage, Wrong
<1>2. verifier.step = "walking"
  BY Zenon DEF CheckPage
<1>3. verifier \in Verifiers
  BY Zenon DEF Types, JobTypes
<1>4. b \in BOOLEAN
  OBVIOUS
<1> HIDE DEF b
<1>5. /\ v \in [step : {"walking"}, cursor : {Max(Page)}, bad : BOOLEAN,
                due : {verifier.due \ Page}]
      /\ v.step = "walking" /\ v.cursor = Max(Page) /\ v.bad = b /\ v.due = verifier.due \ Page
  BY <1>2, <1>3, <1>4, Zenon DEF Verifiers
<1> HIDE DEF v
<1>6. v.bad => verifier.bad \/ Wrong
  BY <1>5, Zenon DEF b
<1> QED
  BY <1>1, <1>5, <1>6, Zenon

LEMMA EndVerifierIs ==
    ASSUME Types, EndVerifier
    PROVE  /\ verifier' \in Verifiers /\ verifier'.step = "done"
           /\ verifier'.cursor = verifier.cursor
           /\ (verifier'.bad => verifier.bad) /\ verifier'.due = verifier.due
<1> DEFINE v == [verifier EXCEPT !.step = "done"]
<1>1. verifier' = v
  BY Zenon DEF EndVerifier
<1>2. verifier \in Verifiers
  BY Zenon DEF Types, JobTypes
<1>3. /\ v \in Verifiers /\ v.step = "done"
      /\ v.cursor = verifier.cursor /\ v.bad = verifier.bad /\ v.due = verifier.due
  BY <1>2, Zenon DEF Verifiers
<1> HIDE DEF v
<1> QED
  BY <1>1, <1>3, Zenon

LEMMA TypesVerifier ==
    ASSUME Types, StartVerifier \/ CheckPage \/ EndVerifier
    PROVE  Types'
<1>1. UNCHANGED <<now, log, writer, fallbackVars, cleaner, archived, deleted, faults>>
  BY Zenon DEF StartVerifier, CheckPage, EndVerifier
<1>0. Len(log) \in Nat /\ Rows \subseteq DOMAIN log /\ DOMAIN log \subseteq Nat /\ DOMAIN log = 1..Len(log)
  BY RowsBounded
<1>2. /\ verifier' \in Verifiers
      /\ verifier'.cursor <= Len(log) /\ verifier'.due \subseteq DOMAIN log
  <2>1. CASE StartVerifier
    <3>1. Rows \in SUBSET Nat /\ 0 \in Nat /\ 0 <= Len(log)
      BY <1>0
    <3>2. verifier' \in Verifiers
      BY <2>1, <3>1, StartVerifierIs, Zenon DEF Verifiers
    <3> QED
      BY <1>0, <2>1, <3>1, <3>2, StartVerifierIs, Zenon
  <2>2. CASE CheckPage
    <3>1. Page # {}
      BY <2>2, Zenon DEF CheckPage
    <3>2. Max(Page) \in Page
      BY <1>0, <3>1, PageBounded, MaxOf, Zenon
    <3>3. Max(Page) \in 0..Len(log)
      BY <3>2, PageBounded, Zenon
    <3>4. \A m \in 0..Len(log) : m \in Nat /\ m <= Len(log)
      BY <1>0
    <3>5. Max(Page) \in Nat /\ Max(Page) <= Len(log)
      BY <3>3, <3>4, Zenon
    <3>6. verifier.due \subseteq DOMAIN log
      BY Zenon DEF Types, JobTypes
    <3>7. verifier.due \ Page \in SUBSET Nat /\ verifier.due \ Page \subseteq DOMAIN log
      BY <1>0, <3>6, Zenon
    <3>8. verifier' \in Verifiers
      BY <2>2, <3>5, <3>7, CheckPageIs, Zenon DEF Verifiers
    <3> QED
      BY <2>2, <3>5, <3>7, <3>8, CheckPageIs, Zenon
  <2>3. CASE EndVerifier
    <3>1. verifier.cursor <= Len(log) /\ verifier.due \subseteq DOMAIN log
      BY Zenon DEF Types, JobTypes
    <3> QED
      BY <2>3, <3>1, EndVerifierIs, Zenon
  <2> QED
    BY <2>1, <2>2, <2>3, Zenon
<1>7. BaseTypes'
  BY <1>1, Zenon DEF Types, BaseTypes
<1>8. FileTypes'
  BY <1>1, FileTypesStill, Zenon DEF Types
<1>9. JobTypes'
  BY <1>1, <1>2, Zenon DEF Types, JobTypes
<1> QED
  BY <1>7, <1>8, <1>9, Zenon DEF Types

LEMMA TypesNext ==
    ASSUME Types, [Next]_vars
    PROVE  Types'
<1>1. CASE UNCHANGED vars
  <2>1. UNCHANGED <<now, faults, writer, log, fallbackVars, jobVars>>
    BY <1>1, Zenon DEF vars, fallbackVars, jobVars
  <2>2. BaseTypes'
    BY <2>1, Zenon DEF Types, BaseTypes
  <2>3. FileTypes' /\ JobTypes'
    BY <2>1, FileTypesStill, JobTypesStill, Zenon DEF Types
  <2> QED
    BY <2>2, <2>3, Zenon DEF Types
<1>2. CASE \E e \in Events : WriterStep(e)
  BY <1>2, TypesReadPrevious, TypesCreateRow, TypesAbort, TypesAppendFallbackLine,
     TypesWriteAuditFallbackPreviousHash, Zenon DEF WriterStep
<1> QED
  BY <1>1, <1>2, TypesCrash, TypesRotate, TypesCleaner, TypesTick, TypesVerifier, Zenon DEF Next

-----------------------------------------------------------------------------
(* The log, the lock, the archive and the verifier *)

LogSide == LogInv /\ ReaderInv /\ ArchiveInv /\ VerifierInv

\* No call takes the lock, and one that keeps it has what it had.
ReadersKept ==
    \A e \in Events : writer'[e].step = "read" =>
        /\ writer[e].step = "read"
        /\ writer'[e].at = writer[e].at /\ writer'[e].prev = writer[e].prev

LEMMA LogStill ==
    ASSUME LogInv, UNCHANGED <<now, log, deleted>>
    PROVE  LogInv'
BY Zenon DEF LogInv, Links

LEMMA ReadersStill ==
    ASSUME ReaderInv, UNCHANGED <<now, log, deleted>>, ReadersKept
    PROVE  ReaderInv'
<1>1. /\ \A e, f \in Events :
              writer[e].step = "read" /\ writer[f].step = "read" => e = f
      /\ \A e \in Events : writer[e].step = "read" =>
            /\ \A i \in DOMAIN log : log[i].at <= writer[e].at
            /\ writer[e].at <= now /\ now <= writer[e].at + MaxTransaction
            /\ Links(log, deleted, writer[e].prev, Len(log) + 1)
  BY DEF ReaderInv, At
<1>2. /\ \A e, f \in Events :
              writer'[e].step = "read" /\ writer'[f].step = "read" => e = f
      /\ \A e \in Events : writer'[e].step = "read" =>
            /\ \A i \in DOMAIN log' : log'[i].at <= writer'[e].at
            /\ writer'[e].at <= now' /\ now' <= writer'[e].at + MaxTransaction
            /\ Links(log, deleted, writer[e].prev, Len(log) + 1)
  BY <1>1 DEF ReadersKept
<1>3. \A e \in Events : writer'[e].step = "read" =>
          Links(log', deleted', writer'[e].prev, Len(log') + 1)
  BY <1>2, Zenon DEF ReadersKept
<1> QED
  BY <1>2, <1>3, Zenon DEF ReaderInv, At

LEMMA JobsStill ==
    ASSUME ArchiveInv, VerifierInv, UNCHANGED <<log, jobVars>>
    PROVE  ArchiveInv' /\ VerifierInv'
BY Zenon DEF ArchiveInv, VerifierInv, Rows, jobVars

LEMMA NumberTypes ==
    ASSUME Types
    PROVE  /\ now \in Nat /\ Len(log) \in Nat /\ DOMAIN log = 1..Len(log)
           /\ cleaner.at \in Nat /\ cleaner.at <= now
           /\ (\A i \in DOMAIN log : log[i].at \in Nat /\ log[i].event \in Events)
           /\ (\A e \in Events : writer[e].at \in Nat)
           /\ deleted \subseteq DOMAIN log
<1>1. \A e \in Events : writer[e] \in Writers
  BY DEF Types, BaseTypes
<1>2. \A e \in Events : writer[e].at \in 0..MaxTime
  BY <1>1, Zenon DEF Writers
<1>3. \A i \in DOMAIN log : log[i].at \in Nat /\ log[i].event \in Events
  BY RowsBounded, Zenon DEF LogRows
<1>4. cleaner.at \in 0..now
  BY Zenon DEF Types, JobTypes
<1>5. deleted \subseteq DOMAIN log
  BY Zenon DEF Types, JobTypes
<1>6. now \in Nat
  BY AuditChainAssumption DEF Types, BaseTypes
<1>7. Len(log) \in Nat /\ DOMAIN log = 1..Len(log)
  BY RowsBounded, Zenon
<1>8. (\A i \in 0..MaxTime : i \in Nat) /\ (\A i \in 0..now : i \in Nat /\ i <= now)
  BY <1>6, AuditChainAssumption
<1> QED
  BY <1>2, <1>3, <1>4, <1>5, <1>6, <1>7, <1>8, Zenon

LEMMA LogReadPrevious ==
    ASSUME Types, LogSide, NEW e \in Events, ReadPrevious(e)
    PROVE  LogSide'
<1>1. Set(e, "read", HeadOfChain, now, writer[e].with) /\ At("read") = {}
  BY HeadType, ReadSets, Zenon DEF ReadPrevious
<1>2. UNCHANGED <<now, log, deleted, jobVars>>
  BY Zenon DEF ReadPrevious, jobVars
<1>3. \A f \in Events : writer'[f].step = "read" => f = e
  BY <1>1 DEF Set, At
<1>4. /\ \A i \in DOMAIN log : log[i].at <= now
      /\ now <= now /\ now <= now + MaxTransaction
  BY NumberTypes, AuditChainAssumption DEF LogSide, LogInv
<1>5. Links(log, deleted, HeadOfChain, Len(log) + 1)
  BY HeadLinks DEF LogSide
<1>6. ReaderInv'
  BY <1>1, <1>2, <1>3, <1>4, <1>5 DEF ReaderInv, At, Set
<1> QED
  BY <1>2, <1>6, LogStill, JobsStill, Zenon DEF LogSide

LEMMA CreateRowLeaves ==
    ASSUME Types, NEW e \in Events, CreateRow(e)
    PROVE  /\ writer[e].step = "read" /\ writer'[e].step \in {"done", "fallback"}
           /\ \A f \in Events : f # e => writer'[f] = writer[f]
           /\ UNCHANGED <<now, fallbackVars, jobVars>>
BY LeaveSets, Zenon DEF CreateRow, Set, Steps

LEMMA LogCreateRow ==
    ASSUME Types, LogSide, NEW e \in Events, CreateRow(e)
    PROVE  LogSide'
<1>1. Grown(e)
  BY CreateRowGrows
<1>2. /\ writer[e].step = "read" /\ writer'[e].step \in {"done", "fallback"}
      /\ \A f \in Events : f # e => writer'[f] = writer[f]
  BY CreateRowLeaves
<1>3. now' = now /\ cleaner' = cleaner /\ archived' = archived /\ deleted' = deleted
      /\ verifier' = verifier
  BY CreateRowLeaves, Zenon DEF jobVars
<1> DEFINE n == Len(log) + 1
<1>4. /\ \A i \in DOMAIN log : log[i].at <= writer[e].at
      /\ writer[e].at <= now /\ now <= writer[e].at + MaxTransaction
      /\ Links(log, deleted, writer[e].prev, n)
      /\ \A f \in Events : writer[f].step = "read" => f = e
  BY <1>2 DEF LogSide, ReaderInv, At
<1>5. ReaderInv'
  BY <1>2, <1>4 DEF ReaderInv, At
<1>6. /\ \A i, j \in DOMAIN log : i < j => log[i].at <= log[j].at
      /\ \A i \in DOMAIN log : log[i].at <= now
      /\ \A i, j \in DOMAIN log : i < j /\ j \in deleted => i \in deleted
      /\ \A i \in DOMAIN log : Links(log, deleted, log[i].prev, i)
  BY DEF LogSide, LogInv
<1>7. /\ Len(log) \in Nat /\ DOMAIN log = 1..Len(log) /\ DOMAIN log' = 1..n
      /\ (\A i \in DOMAIN log : log'[i] = log[i]) /\ log'[n].event = e
      /\ log'[n].prev = writer[e].prev /\ log'[n].at = writer[e].at
  BY <1>1 DEF Grown
<1>8. \A i \in DOMAIN log' : i = n \/ i \in DOMAIN log
  BY <1>7
<1>9. n \notin deleted
  BY <1>7, NumberTypes
<1>10. LogInv'
  <2>1. \A i, j \in DOMAIN log' : i < j => log'[i].at <= log'[j].at
    BY <1>4, <1>6, <1>7
  <2>2. \A i \in DOMAIN log' : log'[i].at <= now'
    BY <1>3, <1>4, <1>6, <1>7, <1>8
  <2>3. \A i, j \in DOMAIN log' : i < j /\ j \in deleted' => i \in deleted'
    BY <1>3, <1>6, <1>7, <1>9
  <2>4. \A i \in DOMAIN log' : Links(log', deleted', log'[i].prev, i)
    <3> SUFFICES ASSUME NEW i \in DOMAIN log' PROVE Links(log', deleted', log'[i].prev, i)
      OBVIOUS
    <3>1. Links(log, deleted, log'[i].prev, i)
      BY <1>4, <1>6, <1>7, <1>8
    <3>2. i > 1 => i - 1 \in DOMAIN log
      BY <1>7
    <3> QED
      BY <1>3, <1>7, <3>1, <3>2 DEF Links
  <2> QED
    BY <2>1, <2>2, <2>3, <2>4 DEF LogInv
<1>11. ArchiveInv'
  <2> SUFFICES ASSUME cleaner'.step = "archived", NEW i \in Rows',
                      log'[i].at < cleaner'.at - Retention
               PROVE  i \in archived'
    BY Zenon DEF ArchiveInv
  <2>1. i \in DOMAIN log' /\ i \notin deleted
    BY <1>3, Zenon DEF Rows
  <2>2. i # n
    BY <1>3, <1>4, <1>7, NumberTypes, AuditChainAssumption
  <2>3. i \in Rows /\ log'[i] = log[i]
    BY <1>7, <1>8, <2>1, <2>2 DEF Rows
  <2> QED
    BY <1>3, <2>3 DEF LogSide, ArchiveInv
<1>12. VerifierInv'
  <2>1. verifier.due \subseteq DOMAIN log
    BY Zenon DEF Types, JobTypes
  <2>2. n \notin DOMAIN log
    BY <1>7
  <2>3. verifier.due \cap Rows = {} => verifier.due \cap Rows' = {}
    BY <1>3, <1>8, <2>1, <2>2, Zenon DEF Rows
  <2> QED
    BY <1>3, <2>3, Zenon DEF LogSide, VerifierInv
<1> QED
  BY <1>5, <1>10, <1>11, <1>12, Zenon DEF LogSide

LEMMA LogArchive ==
    ASSUME Types, LogSide, ArchiveAuditLog
    PROVE  LogSide'
<1>1. UNCHANGED <<now, log, writer, deleted, verifier>> /\ archived' = archived \cup Expired
  BY Zenon DEF ArchiveAuditLog
<1>2. cleaner' = [step |-> "archived", at |-> now]
  BY Zenon DEF ArchiveAuditLog
<1>3. cleaner'.at = now
  BY <1>2
<1>4. Rows' = Rows
  BY <1>1, Zenon DEF Rows
<1>5. \A i \in Rows : log[i].at < now - Retention => i \in archived'
  BY <1>1 DEF Expired
<1>6. ArchiveInv'
  BY <1>1, <1>3, <1>4, <1>5, Zenon DEF ArchiveInv
<1>7. VerifierInv'
  BY <1>1, <1>4, Zenon DEF LogSide, VerifierInv
<1>8. ReadersKept
  BY <1>1, Zenon DEF ReadersKept
<1> QED
  BY <1>1, <1>6, <1>7, <1>8, LogStill, ReadersStill, Zenon DEF LogSide

\* What grew old is the beginning of the log.
LEMMA LogDelete ==
    ASSUME Types, LogSide, DeleteAuditLog
    PROVE  LogSide'
<1>1. UNCHANGED <<now, log, writer, archived, verifier>> /\ deleted' = deleted \cup Expired
  BY Zenon DEF DeleteAuditLog
<1>2. cleaner'.step = "idle"
  BY DEF DeleteAuditLog
<1>3. \A i \in DOMAIN log : i \in deleted' <=> i \in deleted \/ log[i].at < now - Retention
  BY <1>1 DEF Expired, Rows
<1>4. \A i, j \in DOMAIN log : i < j /\ j \in deleted' => i \in deleted'
  BY <1>3, NumberTypes, AuditChainAssumption DEF LogSide, LogInv
<1>5. \A p, i : Links(log, deleted, p, i) => Links(log', deleted', p, i)
  BY <1>1 DEF Links
<1>6. LogInv'
  BY <1>1, <1>4, <1>5 DEF LogSide, LogInv
<1>7. ReaderInv'
  BY <1>1, <1>5, Zenon DEF LogSide, ReaderInv, At
<1>8. ArchiveInv'
  BY <1>2 DEF ArchiveInv
<1>9. VerifierInv'
  BY <1>1, Zenon DEF LogSide, VerifierInv, Rows
<1> QED
  BY <1>6, <1>7, <1>8, <1>9, Zenon DEF LogSide

LEMMA LogTick ==
    ASSUME Types, LogSide, Tick
    PROVE  LogSide'
<1>1. UNCHANGED <<log, writer, deleted, jobVars>> /\ now' = now + 1
  BY Zenon DEF Tick, jobVars
<1>2. \A e \in At("read") : now < writer[e].at + MaxTransaction
  BY Zenon DEF Tick
<1>3. now <= now' /\ \A e \in At("read") : now' <= writer[e].at + MaxTransaction
  BY <1>1, <1>2, NumberTypes, AuditChainAssumption DEF At
<1>4. LogInv'
  <2>1. \A i \in DOMAIN log : log[i].at <= now'
    BY <1>1, NumberTypes DEF LogSide, LogInv
  <2> QED
    BY <1>1, <2>1, Zenon DEF LogSide, LogInv
<1>5. ReaderInv'
  <2>1. \A e \in At("read") : writer[e].at <= now'
    BY <1>1, NumberTypes DEF LogSide, ReaderInv, At
  <2> QED
    BY <1>1, <1>3, <2>1, Zenon DEF LogSide, ReaderInv, At
<1> QED
  BY <1>1, <1>4, <1>5, JobsStill, Zenon DEF LogSide

\* The row before one that has another before it is there, and is the last of them.
LEMMA RowBefore ==
    ASSUME Types, LogInv, NEW i \in Rows, NEW S, S \subseteq Rows, S # {},
           \A j \in S : j < i, i - 1 \in Rows => i - 1 \in S
    PROVE  i - 1 \in Rows /\ Max(S) = i - 1 /\ log[i].prev = log[Max(S)].event
<1>0. /\ Len(log) \in Nat /\ DOMAIN log = 1..Len(log) /\ Rows \subseteq DOMAIN log
      /\ Rows \subseteq 0..Len(log)
  BY RowsBounded
<1>1. PICK j \in S : TRUE
  OBVIOUS
<1>2. j \in Rows /\ i - 1 \in DOMAIN log /\ j <= i - 1
  BY <1>0, <1>1
<1>3. i - 1 \in Rows
  BY <1>2, LastRowStays, Zenon
<1>4. \A k \in S : k <= i - 1
  BY <1>0
<1>5. i - 1 \in S /\ S \subseteq 0..Len(log)
  BY <1>0, <1>3
<1>6. Max(S) = i - 1
  BY <1>0, <1>4, <1>5, MaxIs, Zenon
<1>7. Links(log, deleted, log[i].prev, i)
  BY <1>0 DEF LogInv
<1>8. i - 1 \in 1..(i - 1) /\ i - 1 \notin deleted
  BY <1>0, <1>3 DEF Rows
<1>9. log[i].prev = log[i - 1].event
  BY <1>7, <1>8 DEF Links
<1> QED
  BY <1>3, <1>6, <1>9, Zenon

LEMMA NothingWrong ==
    ASSUME Types, LogInv
    PROVE  ~Wrong
<1> SUFFICES ASSUME NEW i \in Page, Seen(i) # {}
             PROVE  log[i].prev = log[Max(Seen(i))].event
  BY Zenon DEF Wrong
<1>0. Rows \subseteq DOMAIN log /\ DOMAIN log = 1..Len(log) /\ Len(log) \in Nat
  BY RowsBounded
<1>1. i \in Rows /\ i \in Ahead /\ Page \subseteq Rows
  BY PageBounded, Zenon
<1>2. verifier.cursor = 0 \/ (verifier.cursor \in Rows /\ i > verifier.cursor)
  BY <1>1, Zenon DEF Ahead
<1>3. \A j \in Seen(i) : j < i
  BY <1>2 DEF Seen
<1>4. Seen(i) \subseteq Rows
  BY <1>1, <1>2, Zenon DEF Seen
<1>5. i - 1 \in Rows => i - 1 \in Seen(i)
  <2> SUFFICES ASSUME i - 1 \in Rows PROVE i - 1 \in Seen(i)
    OBVIOUS
  <2>0. i - 1 < i /\ i - 1 # 0
    BY <1>0, <1>1
  <2>1. CASE verifier.cursor = i - 1
    BY <2>0, <2>1, Zenon DEF Seen
  <2>2. CASE verifier.cursor # i - 1
    <3>1. verifier.cursor = 0 \/ (verifier.cursor \in Rows /\ i - 1 > verifier.cursor)
      BY <1>0, <1>1, <1>2, <2>2
    <3>2. i - 1 \in Ahead
      BY <3>1, Zenon DEF Ahead
    <3>3. i - 1 \in Page
      BY <2>0, <3>2, PageHasNoGap, Zenon
    <3> QED
      BY <2>0, <3>3, Zenon DEF Seen
  <2> QED
    BY <2>1, <2>2
<1> QED
  BY <1>1, <1>3, <1>4, <1>5, RowBefore, Zenon

LEMMA LogVerifier ==
    ASSUME Types, LogSide, StartVerifier \/ CheckPage \/ EndVerifier
    PROVE  LogSide'
<1>1. UNCHANGED <<now, log, writer, cleaner, archived, deleted>>
  BY Zenon DEF StartVerifier, CheckPage, EndVerifier
<1>2. Rows' = Rows /\ ReadersKept
  BY <1>1, Zenon DEF Rows, ReadersKept
<1>3. ArchiveInv'
  BY <1>1, <1>2, Zenon DEF LogSide, ArchiveInv
<1>0. /\ Rows \subseteq DOMAIN log /\ DOMAIN log = 1..Len(log) /\ Len(log) \in Nat
      /\ verifier.due \subseteq DOMAIN log
  BY RowsBounded, Zenon DEF Types, JobTypes
<1>4. VerifierInv'
  <2>1. CASE StartVerifier
    <3>1. verifier'.step = "walking" /\ verifier'.cursor = 0
          /\ ~verifier'.bad /\ verifier'.due = Rows
      BY <2>1, StartVerifierIs, Zenon
    <3>2. \A i \in verifier'.due : i > verifier'.cursor
      BY <1>0, <3>1
    <3>3. verifier'.step # "done"
      BY <3>1
    <3> QED
      BY <3>1, <3>2, <3>3, Zenon DEF VerifierInv
  <2>2. CASE CheckPage
    <3>1. /\ verifier'.step = "walking" /\ verifier'.cursor = Max(Page)
          /\ (verifier'.bad => verifier.bad \/ Wrong) /\ verifier'.due = verifier.due \ Page
      BY <2>2, CheckPageIs, Zenon
    <3>2. verifier.step = "walking" /\ Page # {}
      BY <2>2, Zenon DEF CheckPage
    <3> PICK m : m = Max(Page)
      BY Zenon
    <3>3. m \in Page /\ m \in Ahead /\ m \in Rows
      BY <1>0, <3>2, PageBounded, MaxOf, Zenon
    <3>4. ~verifier'.bad
      BY <3>1, NothingWrong, Zenon DEF LogSide, VerifierInv
    <3>5. \A i \in verifier'.due : i > m \/ i \in deleted
      <4> SUFFICES ASSUME NEW i \in verifier'.due, i \notin deleted, ~(i > m)
                   PROVE  FALSE
        OBVIOUS
      <4>1. i \in verifier.due /\ i \notin Page /\ i \in Rows
        BY <1>0, <3>1 DEF Rows
      <4>2. i > verifier.cursor
        BY <3>2, <4>1, Zenon DEF LogSide, VerifierInv
      <4>3. i \in Ahead
        BY <3>3, <4>1, <4>2, Zenon DEF Ahead
      <4>4. i < m
        BY <1>0, <3>3, <4>1
      <4> QED
        BY <3>3, <4>1, <4>3, <4>4, PageHasNoGap, Zenon
    <3>6. verifier'.step # "done"
      BY <3>1
    <3> QED
      BY <1>1, <3>1, <3>4, <3>5, <3>6, Zenon DEF VerifierInv
  <2>3. CASE EndVerifier
    <3>1. /\ verifier'.step = "done" /\ verifier'.cursor = verifier.cursor
          /\ (verifier'.bad => verifier.bad) /\ verifier'.due = verifier.due
      BY <2>3, EndVerifierIs, Zenon
    <3>2. verifier.step = "walking" /\ Page = {}
      BY <2>3, Zenon DEF EndVerifier
    <3>3. Ahead = {}
      BY <3>2, PageHasTheFirst
    <3>4. verifier.cursor \in Nat /\ verifier.cursor <= Len(log)
      BY Zenon DEF Types, JobTypes, Verifiers
    <3>5. verifier.cursor = 0 \/ verifier.cursor \in deleted \/ verifier.cursor \in Rows
      BY <1>0, <3>4 DEF Rows
    <3>6. verifier.cursor \in deleted \/ verifier.due \cap Rows = {}
      <4> SUFFICES ASSUME verifier.cursor \notin deleted, NEW i \in verifier.due, i \in Rows
                   PROVE  FALSE
        BY Zenon
      <4>1. i > verifier.cursor
        BY <3>2, Zenon DEF LogSide, VerifierInv, Rows
      <4> QED
        BY <3>3, <3>5, <4>1, Zenon DEF Ahead
    <3>7. verifier'.step # "walking"
      BY <3>1
    <3> QED
      BY <1>1, <1>2, <3>1, <3>6, <3>7, Zenon DEF LogSide, VerifierInv
  <2> QED
    BY <2>1, <2>2, <2>3
<1> QED
  BY <1>1, <1>2, <1>3, <1>4, LogStill, ReadersStill, Zenon DEF LogSide

LEMMA LogOthers ==
    ASSUME Types, LogSide, UNCHANGED <<now, log, jobVars>>, ReadersKept
    PROVE  LogSide'
<1>1. deleted' = deleted
  BY Zenon DEF jobVars
<1> QED
  BY <1>1, LogStill, ReadersStill, JobsStill, Zenon DEF LogSide

-----------------------------------------------------------------------------
(* The fallback file *)

FileSide == LinesInv /\ FallbackInv /\ FallbackChained

LEMMA LastEventType ==
    ASSUME Types
    PROVE  /\ Len(file) \in Nat /\ DOMAIN file = 1..Len(file)
           /\ \A k \in DOMAIN file : file[k].event \in Events /\ file[k].prev \in Events \cup {None}
           /\ Len(file) = 0 => LastEvent = None
           /\ Len(file) # 0 => LastEvent = file[Len(file)].event /\ LastEvent \in Events
<1>1. file \in Seq(Lines)
  BY Zenon DEF Types, FileTypes
<1>2. Len(file) \in Nat /\ DOMAIN file = 1..Len(file) /\ \A k \in DOMAIN file : file[k] \in Lines
  BY <1>1
<1>3. \A k \in DOMAIN file : file[k].event \in Events /\ file[k].prev \in Events \cup {None}
  BY <1>2, Zenon DEF Lines
<1>4. Len(file) # 0 => Len(file) \in DOMAIN file
  BY <1>2
<1>5. Len(file) = 0 => LastEvent = None
  BY Zenon DEF LastEvent
<1>6. Len(file) # 0 => LastEvent = file[Len(file)].event /\ LastEvent \in Events
  BY <1>3, <1>4, Zenon DEF LastEvent
<1> QED
  BY <1>2, <1>3, <1>5, <1>6, Zenon

\* A step that has nothing to do with the file.
LEMMA FileStill ==
    ASSUME FileSide, UNCHANGED <<writer, file, state, unsaved>>
    PROVE  FileSide'
BY Zenon DEF FileSide, LinesInv, FallbackInv, FallbackChained, Clean, LastEvent

Early == {"idle", "read", "fallback", "making"}

\* A call that writes no line, now or at all.
LEMMA FileBefore ==
    ASSUME Types, FileSide, NEW e \in Events, UNCHANGED <<file, state, unsaved>>,
           writer[e].step \in Early, writer'[e].step \in Early \cup {"done"},
           \A f \in Events : f # e => writer'[f] = writer[f]
    PROVE  FileSide'
<1>0. Clean' = Clean /\ LastEvent' = LastEvent
  BY Zenon DEF Clean, LastEvent
<1>1. \A f \in Events :
          /\ writer[f].step \in Overlapping => writer'[f] = writer[f]
          /\ writer'[f].step \in Overlapping => writer'[f] = writer[f]
          /\ writer[f].step \in {"done", "dead"} => writer'[f] = writer[f]
  BY DEF Overlapping, Early
<1>2. LinesInv /\ FallbackInv
  BY Zenon DEF FileSide
<1>3. LinesInv'
  <2>1. \A k \in DOMAIN file : /\ writer'[file[k].event].step \in Recorded
                               /\ file[k].event # file[k].prev
    BY <1>1, <1>2, LastEventType DEF LinesInv, Overlapping, Recorded
  <2>2. state # None => writer'[state].step = "done"
    BY <1>1, <1>2 DEF LinesInv, Types, FileTypes
  <2>3. \A f \in Events : writer'[f].step = "chained" => writer'[f].prev # f
    BY <1>1, <1>2 DEF LinesInv, Overlapping
  <2>4. \A f \in Events : writer'[f].step \in Appending => \E k \in DOMAIN file :
            file[k].event = f /\ file[k].with = writer'[f].with
    BY <1>1, <1>2 DEF LinesInv, Overlapping, Appending
  <2> QED
    BY <2>1, <2>2, <2>3, <2>4, Zenon DEF LinesInv
<1>4. FallbackInv'
  BY <1>0, <1>1, <1>2 DEF FallbackInv, Overlapping, Appending
<1>5. FallbackChained'
  BY Zenon DEF FileSide, FallbackChained
<1> QED
  BY <1>3, <1>4, <1>5, Zenon DEF FileSide

\* A call that reads the hash its line will link to.
LEMMA FileFallback ==
    ASSUME Types, FileSide, NEW e \in Events, Fallback(e), writer[e].step \in Early,
           UNCHANGED <<file, rotated, state, unsaved, log>>
    PROVE  FileSide'
<1>1. /\ writer[e].step \in {"idle", "read", "fallback", "making"}
      /\ UNCHANGED <<file, rotated, state, unsaved, log>>
  BY Zenon DEF Early
<1>2. /\ writer'[e].step = "chained" /\ writer'[e].prev = PrevInFile
      /\ writer'[e].with = InFallback
      /\ \A f \in Events : f # e => writer'[f] = writer[f]
  BY FallbackSets, Zenon DEF Set
<1>3. Clean' = Clean /\ LastEvent' = LastEvent
  BY <1>1, Zenon DEF Clean, LastEvent
<1>4. LinesInv /\ FallbackInv
  BY Zenon DEF FileSide
<1>5. \A f \in Events : f \in InFallback <=> writer[f].step \in Overlapping
  BY DEF InFallback, At, Overlapping
<1>6. LinesInv'
  <2>1. \A k \in DOMAIN file : /\ writer'[file[k].event].step \in Recorded
                               /\ file[k].event # file[k].prev
                               /\ file[k].event # e
    BY <1>1, <1>2, <1>4, LastEventType DEF LinesInv, Recorded
  <2>2. state # None => writer'[state].step = "done" /\ state # e
    BY <1>1, <1>2, <1>4 DEF LinesInv, Types, FileTypes
  <2>3. PrevInFile # e
    <3>1. CASE state # None
      BY <2>2, <3>1, Zenon DEF PrevInFile
    <3>2. CASE state = None /\ Len(file) = rotated
      BY <3>2, AuditChainAssumption, Zenon DEF PrevInFile, LastLine
    <3>3. CASE state = None /\ Len(file) # rotated
      <4>1. Len(file) \in DOMAIN file
        BY <3>3, LastEventType DEF Types, FileTypes
      <4> QED
        BY <2>1, <3>3, <4>1, Zenon DEF PrevInFile, LastLine
    <3> QED
      BY <3>1, <3>2, <3>3
  <2>4. \A f \in Events : writer'[f].step = "chained" => writer'[f].prev # f
    BY <1>2, <1>4, <2>3 DEF LinesInv
  <2>5. \A f \in Events : writer'[f].step \in Appending => \E k \in DOMAIN file :
            file[k].event = f /\ file[k].with = writer'[f].with
    BY <1>2, <1>4 DEF LinesInv, Appending
  <2> QED
    BY <1>1, <2>1, <2>2, <2>4, <2>5 DEF LinesInv
<1>7. FallbackInv'
  <2>1. \A f, g \in Events :
            writer'[f].step \in Overlapping /\ writer'[g].step \in Overlapping /\ f # g
                => f \in writer'[g].with \/ g \in writer'[f].with
    BY <1>2, <1>4, <1>5 DEF FallbackInv
  <2>2. Clean /\ InFallback = {} => PrevInFile = LastEvent
    <3> SUFFICES ASSUME Clean, InFallback = {} PROVE PrevInFile = LastEvent
      OBVIOUS
    <3>1. state = LastEvent
      BY <1>4, <1>5 DEF FallbackInv, Overlapping, Appending
    <3>2. CASE state # None
      BY <3>1, <3>2, Zenon DEF PrevInFile
    <3>3. CASE state = None
      <4>1. Len(file) = 0
        BY <3>1, <3>3, LastEventType, AuditChainAssumption, Zenon
      <4>2. Len(file) = rotated
        BY <4>1 DEF Types, FileTypes
      <4> QED
        BY <3>1, <3>3, <4>2, Zenon DEF PrevInFile, LastLine
    <3> QED
      BY <3>2, <3>3
  <2>3. \A f \in Events : writer'[f].step \in Appending <=> writer[f].step \in Appending
    BY <1>1, <1>2 DEF Appending
  <2>4. Clean => \A f \in Events : writer'[f].step = "chained" /\ writer'[f].with = {}
                     => writer'[f].prev = LastEvent
    BY <1>2, <1>4, <2>2 DEF FallbackInv
  <2> QED
    BY <1>1, <1>3, <1>4, <2>1, <2>3, <2>4, Zenon DEF FallbackInv
<1>8. FallbackChained'
  BY <1>1 DEF FileSide, FallbackChained
<1> QED
  BY <1>6, <1>7, <1>8, Zenon DEF FileSide

\* A call whose line is in the file now.
LEMMA FileAppend ==
    ASSUME Types, FileSide, NEW e \in Events, writer[e].step = "chained", Written(e),
           Move(e, "appended"), UNCHANGED <<state, unsaved, log>>
    PROVE  FileSide'
<1>1. /\ writer'[e].step = "appended" /\ writer'[e].prev = writer[e].prev
      /\ writer'[e].with = writer[e].with
      /\ \A f \in Events : f # e => writer'[f] = writer[f]
  BY MoveSets, Zenon DEF Set, Steps
<1> DEFINE n == Len(file) + 1
<1>2. /\ Len(file) \in Nat /\ DOMAIN file = 1..Len(file) /\ DOMAIN file' = 1..n
      /\ Len(file') = n
      /\ (\A k \in DOMAIN file : file'[k] = file[k]) /\ file'[n].event = e
      /\ file'[n].prev = writer[e].prev /\ file'[n].with = writer[e].with
  BY Zenon DEF Written
<1>3. /\ DOMAIN file \subseteq DOMAIN file' /\ n \in DOMAIN file'
      /\ \A k \in DOMAIN file' : k = n \/ k \in DOMAIN file
  BY <1>2
<1>4. LinesInv /\ FallbackInv
  BY Zenon DEF FileSide
<1>5. LinesInv'
  <2>1. \A k \in DOMAIN file' :
            /\ writer'[file'[k].event].step \in Recorded
            /\ file'[k].event # file'[k].prev
    BY <1>1, <1>2, <1>3, <1>4, LastEventType DEF LinesInv, Recorded
  <2>2. state # None => writer'[state].step = "done"
    BY <1>1, <1>4 DEF LinesInv, Types, FileTypes
  <2>3. \A f \in Events : writer'[f].step = "chained" => writer'[f].prev # f
    BY <1>1, <1>4 DEF LinesInv
  <2>4. \A f \in Events : writer'[f].step \in Appending => \E k \in DOMAIN file' :
            file'[k].event = f /\ file'[k].with = writer'[f].with
    <3> SUFFICES ASSUME NEW f \in Events, writer'[f].step \in Appending
                 PROVE  \E k \in DOMAIN file' : file'[k].event = f /\ file'[k].with = writer'[f].with
      OBVIOUS
    <3>1. CASE f = e
      BY <1>1, <1>2, <1>3, <3>1
    <3>2. CASE f # e
      <4>1. \E k \in DOMAIN file : file[k].event = f /\ file[k].with = writer[f].with
        BY <1>1, <1>4, <3>2 DEF LinesInv
      <4> QED
        BY <1>1, <1>2, <1>3, <3>2, <4>1
    <3> QED
      BY <3>1, <3>2
  <2> QED
    BY <2>1, <2>2, <2>3, <2>4, Zenon DEF LinesInv
<1>6. Clean' => /\ Clean /\ writer[e].with = {}
                /\ \A f \in Events : f # e => writer[f].step \notin Appending
                /\ \A f \in Events : f # e /\ writer[f].step = "chained" => writer[f].with # {}
  <2> SUFFICES ASSUME Clean'
               PROVE  /\ Clean /\ writer[e].with = {}
                      /\ \A f \in Events : f # e => writer[f].step \notin Appending
                      /\ \A f \in Events : f # e /\ writer[f].step = "chained"
                             => writer[f].with # {}
    OBVIOUS
  <2>1. Clean /\ writer[e].with = {}
    BY <1>2, <1>3 DEF Clean
  <2>2. \A f \in Events : f # e /\ writer[f].step \in Overlapping => writer[f].with # {}
    BY <1>4, <2>1 DEF FallbackInv, Overlapping
  <2>3. \A f \in Events : writer[f].step \in Appending => writer[f].with = {}
    BY <1>4, <2>1 DEF LinesInv, Clean
  <2> QED
    BY <2>1, <2>2, <2>3 DEF Overlapping, Appending
<1>7. LastEvent' = e
  <2>1. Len(file') # 0 /\ Len(file') = n
    BY <1>2
  <2> QED
    BY <1>2, <2>1, Zenon DEF LastEvent
<1>8. FallbackInv'
  <2>1. \A f, g \in Events :
            writer'[f].step \in Overlapping /\ writer'[g].step \in Overlapping /\ f # g
                => f \in writer'[g].with \/ g \in writer'[f].with
    BY <1>1, <1>4 DEF FallbackInv, Overlapping
  <2>2. \A f \in Events : (f # e \/ writer'[f].step # "chained") /\ writer'[e].step \in Appending
    BY <1>1 DEF Appending
  <2>3. Clean' => \A f \in Events :
            /\ writer'[f].step = "chained" => writer'[f].with # {}
            /\ writer'[f].step \in Appending => f = e
    BY <1>1, <1>6, <2>2, Zenon
  <2> QED
    BY <1>7, <2>1, <2>2, <2>3, Zenon DEF FallbackInv
<1>9. FallbackChained'
  <2> SUFFICES ASSUME NEW j \in DOMAIN file'
               PROVE  \/ file'[j].prev = IF j = 1 THEN None ELSE file'[j - 1].event
                      \/ \E k \in 1..j : file'[k].with # {}
                      \/ \E k \in 1..(j - 1) : file'[k].event \in unsaved'
    BY Zenon DEF FallbackChained
  <2>1. CASE j \in DOMAIN file
    <3>1. \/ file[j].prev = IF j = 1 THEN None ELSE file[j - 1].event
          \/ \E k \in 1..j : file[k].with # {}
          \/ \E k \in 1..(j - 1) : file[k].event \in unsaved
      BY <2>1, Zenon DEF FileSide, FallbackChained
    <3>2. file'[j] = file[j] /\ (j # 1 => file'[j - 1] = file[j - 1])
      BY <1>2, <2>1
    <3>3. \A k \in 1..j : k \in DOMAIN file /\ file'[k] = file[k]
      BY <1>2, <2>1
    <3>4. \A k \in 1..(j - 1) : k \in DOMAIN file /\ file'[k] = file[k]
      BY <1>2, <2>1
    <3> QED
      BY <3>1, <3>2, <3>3, <3>4
  <2>2. CASE j = n
    <3>1. CASE Clean /\ writer[e].with = {}
      <4>1. file'[n].prev = LastEvent
        BY <1>2, <1>4, <3>1, Zenon DEF FallbackInv
      <4>2. LastEvent = IF n = 1 THEN None ELSE file'[n - 1].event
        BY <1>2, LastEventType
      <4> QED
        BY <2>2, <4>1, <4>2
    <3>2. CASE writer[e].with # {}
      BY <1>2, <2>2, <3>2
    <3>3. CASE ~Clean
      <4>1. PICK k \in DOMAIN file : file[k].with # {} \/ file[k].event \in unsaved
        BY <3>3 DEF Clean
      <4>2. k \in 1..n /\ k \in 1..(n - 1) /\ file'[k] = file[k]
        BY <1>2
      <4> QED
        BY <2>2, <4>1, <4>2
    <3> QED
      BY <3>1, <3>2, <3>3
  <2> QED
    BY <1>3, <2>1, <2>2
<1> QED
  BY <1>5, <1>8, <1>9, Zenon DEF FileSide

\* Calls that end, each leaving word of a hash that did not reach the state.
LEMMA FileLeaves ==
    ASSUME Types, FileSide, UNCHANGED <<file, state, log>>, unsaved \subseteq unsaved',
           \A f \in Events :
              \/ writer'[f] = writer[f]
              \/ writer'[f].step \in {"done", "dead"} /\ writer[f].step \in Early \cup {"chained"}
              \/ /\ writer'[f].step \in {"done", "dead"} /\ writer[f].step \in Appending
                 /\ f \in unsaved'
    PROVE  FileSide'
<1>1. LinesInv /\ FallbackInv
  BY Zenon DEF FileSide
<1>2. \A f \in Events :
          /\ writer'[f].step \in Overlapping => writer'[f] = writer[f]
          /\ writer[f].step \in {"done", "dead"} => writer'[f] = writer[f]
          /\ writer[f].step \in Appending => writer'[f].step \in Recorded
  BY DEF Overlapping, Appending, Early, Recorded
<1>3. LinesInv'
  <2>1. \A k \in DOMAIN file : /\ writer'[file[k].event].step \in Recorded
                               /\ file[k].event # file[k].prev
    BY <1>1, <1>2, LastEventType DEF LinesInv, Appending, Recorded
  <2>2. state # None => writer'[state].step = "done"
    BY <1>1, <1>2 DEF LinesInv, Types, FileTypes
  <2>3. \A f \in Events : writer'[f].step = "chained" => writer'[f].prev # f
    BY <1>1, <1>2 DEF LinesInv, Overlapping
  <2>4. \A f \in Events : writer'[f].step \in Appending => \E k \in DOMAIN file :
            file[k].event = f /\ file[k].with = writer'[f].with
    BY <1>1, <1>2 DEF LinesInv, Overlapping, Appending
  <2> QED
    BY <2>1, <2>2, <2>3, <2>4, Zenon DEF LinesInv
<1>4. LastEvent' = LastEvent /\ (Clean' => Clean)
  BY DEF LastEvent, Clean
<1>5. Clean' => \A f \in Events : writer[f].step \in Appending => writer'[f] = writer[f]
  <2> SUFFICES ASSUME Clean', NEW f \in Events, writer[f].step \in Appending,
                      writer'[f] # writer[f]
               PROVE  FALSE
    BY Zenon
  <2>1. f \in unsaved'
    BY DEF Appending, Early
  <2>2. PICK k \in DOMAIN file : file[k].event = f
    BY <1>1 DEF LinesInv
  <2> QED
    BY <2>1, <2>2 DEF Clean
<1>6. FallbackInv'
  <2>1. \A f, g \in Events :
            writer'[f].step \in Overlapping /\ writer'[g].step \in Overlapping /\ f # g
                => f \in writer'[g].with \/ g \in writer'[f].with
    BY <1>1, <1>2 DEF FallbackInv
  <2>2. \A f \in Events : /\ writer'[f].step \in Appending => writer'[f] = writer[f]
                          /\ writer'[f].step = "chained" => writer'[f] = writer[f]
    BY <1>2 DEF Overlapping, Appending
  <2>3. Clean' => /\ (\A f \in Events : writer'[f].step \notin Appending) => state = LastEvent
                  /\ \A f \in Events : writer'[f].step = "chained" /\ writer'[f].with = {}
                                           => writer'[f].prev = LastEvent
                  /\ \A f \in Events : writer'[f].step \in Appending => LastEvent = f
    BY <1>1, <1>4, <1>5, <2>2 DEF FallbackInv
  <2> QED
    BY <1>4, <2>1, <2>3, Zenon DEF FallbackInv
<1>7. FallbackChained'
  BY DEF FileSide, FallbackChained
<1> QED
  BY <1>3, <1>6, <1>7, Zenon DEF FileSide

LEMMA FileTruncate ==
    ASSUME Types, FileSide, NEW e \in Events, writer[e].step = "appended",
           Move(e, "truncated"), state' = None, UNCHANGED <<file, unsaved, log>>
    PROVE  FileSide'
<1>1. /\ writer'[e].step = "truncated" /\ writer'[e].prev = writer[e].prev
      /\ writer'[e].with = writer[e].with
      /\ \A f \in Events : f # e => writer'[f] = writer[f]
  BY MoveSets, Zenon DEF Set, Steps
<1>2. LinesInv /\ FallbackInv
  BY Zenon DEF FileSide
<1>3. \A f \in Events :
          /\ writer'[f].step \in Overlapping <=> writer[f].step \in Overlapping
          /\ writer'[f].step \in Appending <=> writer[f].step \in Appending
          /\ writer'[f].step = "chained" <=> writer[f].step = "chained"
          /\ writer'[f].step = "done" <=> writer[f].step = "done"
          /\ writer'[f].with = writer[f].with /\ writer'[f].prev = writer[f].prev
  BY <1>1 DEF Overlapping, Appending
<1>4. Clean' = Clean /\ LastEvent' = LastEvent
  BY Zenon DEF Clean, LastEvent
<1>5. LinesInv'
  <2>1. \A k \in DOMAIN file : /\ writer'[file[k].event].step \in Recorded
                               /\ file[k].event # file[k].prev
    BY <1>1, <1>2, LastEventType DEF LinesInv, Recorded
  <2> QED
    BY <1>2, <1>3, <2>1 DEF LinesInv
<1>6. FallbackInv'
  <2>1. writer'[e].step \in Appending
    BY <1>1 DEF Appending
  <2> QED
    BY <1>2, <1>3, <1>4, <2>1 DEF FallbackInv
<1>7. FallbackChained'
  BY DEF FileSide, FallbackChained
<1> QED
  BY <1>5, <1>6, <1>7, Zenon DEF FileSide

LEMMA FileSaved ==
    ASSUME Types, FileSide, NEW e \in Events, writer[e].step = "truncated",
           Leave(e, "done"), state' = e, UNCHANGED <<file, unsaved, log>>
    PROVE  FileSide'
<1>1. /\ writer'[e].step = "done"
      /\ \A f \in Events : f # e => writer'[f] = writer[f]
  BY LeaveSets, Zenon DEF Set, Steps
<1>2. LinesInv /\ FallbackInv
  BY Zenon DEF FileSide
<1>3. \A f \in Events : writer'[f].step \in Overlapping => writer'[f] = writer[f]
  BY <1>1 DEF Overlapping
<1>4. Clean' = Clean /\ LastEvent' = LastEvent
  BY Zenon DEF Clean, LastEvent
<1>5. writer[e].step \in Appending
  BY DEF Appending
<1>6. LinesInv'
  <2>1. \A k \in DOMAIN file : /\ writer'[file[k].event].step \in Recorded
                               /\ file[k].event # file[k].prev
    BY <1>1, <1>2, LastEventType DEF LinesInv, Recorded
  <2> QED
    BY <1>1, <1>2, <1>3, <2>1 DEF LinesInv, Overlapping, Appending
<1>7. FallbackInv'
  <2>1. Clean => state' = LastEvent
    BY <1>2, <1>5 DEF FallbackInv
  <2> QED
    BY <1>1, <1>2, <1>3, <1>4, <2>1 DEF FallbackInv, Overlapping, Appending
<1>8. FallbackChained'
  BY DEF FileSide, FallbackChained
<1> QED
  BY <1>6, <1>7, <1>8, Zenon DEF FileSide

-----------------------------------------------------------------------------
(* Each step keeps the invariant *)

\* No step of the fallback takes the lock.
LEMMA ReadersKeptBySet ==
    ASSUME NEW e \in Events, NEW step, NEW prev, NEW at, NEW with, step # "read",
           Set(e, step, prev, at, with)
    PROVE  ReadersKept
BY DEF Set, ReadersKept

LEMMA WriterKeeps ==
    ASSUME Types, LogSide, FileSide, NEW e \in Events, WriterStep(e)
    PROVE  LogSide' /\ FileSide'
<1>1. CASE ReadPrevious(e)
  <2>1. Set(e, "read", HeadOfChain, now, writer[e].with)
    BY <1>1, HeadType, ReadSets, Zenon DEF ReadPrevious
  <2>2. writer[e].step = "idle" /\ UNCHANGED <<file, state, unsaved>>
    BY <1>1, Zenon DEF ReadPrevious, fallbackVars
  <2>3. writer'[e].step = "read" /\ \A f \in Events : f # e => writer'[f] = writer[f]
    BY <2>1, Zenon DEF Set
  <2>4. writer[e].step \in Early /\ writer'[e].step \in Early \cup {"done"}
    BY <2>2, <2>3 DEF Early
  <2>5. FileSide'
    BY <2>2, <2>3, <2>4, FileBefore
  <2> QED
    BY <1>1, <2>5, LogReadPrevious
<1>2. CASE CreateRow(e)
  <2>1. /\ writer[e].step = "read" /\ writer'[e].step \in {"done", "fallback"}
        /\ \A f \in Events : f # e => writer'[f] = writer[f]
        /\ UNCHANGED <<file, state, unsaved>>
    BY <1>2, CreateRowLeaves, Zenon DEF fallbackVars
  <2>2. writer[e].step \in Early /\ writer'[e].step \in Early \cup {"done"}
    BY <2>1 DEF Early
  <2>3. FileSide'
    BY <2>1, <2>2, FileBefore
  <2> QED
    BY <1>2, <2>3, LogCreateRow
<1>3. CASE Abort(e) \/ EnsureAuditFallbackPath(e)
  <2>1. /\ writer[e].step \in Early
        /\ UNCHANGED <<now, log, file, rotated, state, unsaved, jobVars>>
        /\ Leave(e, "making") \/ Leave(e, "done") \/ Fallback(e)
    BY <1>3, Zenon DEF Abort, EnsureAuditFallbackPath, Early
  <2>2. CASE Fallback(e)
    <3>1. ReadersKept
      BY <2>2, FallbackSets, ReadersKeptBySet
    <3> QED
      BY <2>1, <2>2, <3>1, FileFallback, LogOthers, Zenon
  <2>3. ASSUME NEW step \in {"making", "done"}, Leave(e, step)
        PROVE  LogSide' /\ FileSide'
    <3>1. step \in Steps /\ step # "read" /\ step \in Early \cup {"done"}
      BY <2>3 DEF Steps, Early
    <3>2. Set(e, step, None, 0, {})
      BY <2>3, <3>1, LeaveSets, Zenon
    <3>3. ReadersKept
      BY <3>1, <3>2, ReadersKeptBySet
    <3>4. writer'[e].step \in Early \cup {"done"} /\ \A f \in Events : f # e => writer'[f] = writer[f]
      BY <3>1, <3>2, Zenon DEF Set
    <3> QED
      BY <2>1, <3>3, <3>4, FileBefore, LogOthers, Zenon
  <2> QED
    BY <2>1, <2>2, <2>3
<1>4. CASE AppendFallbackLine(e)
  <2>1. /\ writer[e].step = "chained" /\ UNCHANGED <<now, log, state, unsaved, jobVars>>
        /\ \/ /\ file' = Append(file, [event |-> e, prev |-> writer[e].prev,
                                       with |-> writer[e].with])
              /\ Move(e, "appended")
           \/ Leave(e, "done") /\ UNCHANGED file
    BY <1>4, Zenon DEF AppendFallbackLine
  <2>2. "appended" \in Steps /\ "done" \in Steps /\ "appended" # "read" /\ "done" # "read"
    BY DEF Steps
  <2>3. LogSide'
    BY <2>1, <2>2, MoveSets, LeaveSets, ReadersKeptBySet, LogOthers, Zenon
  <2>4. CASE Leave(e, "done") /\ UNCHANGED file
    <3>1. writer'[e].step = "done" /\ \A f \in Events : f # e => writer'[f] = writer[f]
      BY <2>2, <2>4, LeaveSets, Zenon DEF Set
    <3> QED
      BY <2>1, <2>3, <2>4, <3>1, FileLeaves
  <2>5. CASE Written(e) /\ Move(e, "appended")
    BY <2>1, <2>3, <2>5, FileAppend, Zenon
  <2> QED
    BY <2>1, <2>4, <2>5, AppendWrites, Zenon
<1>5. CASE WriteAuditFallbackPreviousHash(e)
  <2>1. /\ UNCHANGED <<now, log, file, jobVars>>
        /\ \/ writer[e].step = "appended" /\ Move(e, "truncated") /\ state' = None
              /\ UNCHANGED unsaved
           \/ writer[e].step = "truncated" /\ Leave(e, "done") /\ state' = e
              /\ UNCHANGED unsaved
           \/ writer[e].step \in {"appended", "truncated"}
              /\ Leave(e, "done") /\ unsaved' = unsaved \cup {e} /\ UNCHANGED state
    BY <1>5, Zenon DEF WriteAuditFallbackPreviousHash
  <2>2. /\ "truncated" \in Steps /\ "done" \in Steps
        /\ "truncated" # "read" /\ "done" # "read"
    BY DEF Steps
  <2>3. LogSide'
    BY <2>1, <2>2, MoveSets, LeaveSets, ReadersKeptBySet, LogOthers, Zenon
  <2>4. CASE writer[e].step = "appended" /\ Move(e, "truncated") /\ state' = None
             /\ UNCHANGED unsaved
    BY <2>1, <2>3, <2>4, FileTruncate, Zenon
  <2>5. CASE writer[e].step = "truncated" /\ Leave(e, "done") /\ state' = e
             /\ UNCHANGED unsaved
    BY <2>1, <2>3, <2>5, FileSaved, Zenon
  <2>6. CASE writer[e].step \in {"appended", "truncated"}
             /\ Leave(e, "done") /\ unsaved' = unsaved \cup {e} /\ UNCHANGED state
    <3>1. writer'[e].step = "done" /\ \A f \in Events : f # e => writer'[f] = writer[f]
      BY <2>2, <2>6, LeaveSets, Zenon DEF Set
    <3>2. writer[e].step \in Appending /\ e \in unsaved' /\ unsaved \subseteq unsaved'
      BY <2>6 DEF Appending
    <3> QED
      BY <2>1, <2>3, <2>6, <3>1, <3>2, FileLeaves
  <2> QED
    BY <2>1, <2>4, <2>5, <2>6, Zenon
<1> QED
  BY <1>1, <1>2, <1>3, <1>4, <1>5, Zenon DEF WriterStep

LEMMA OneCallMoves ==
    ASSUME Types, NEW e \in Events, WriterStep(e)
    PROVE  \A f \in Events : f # e => writer'[f] = writer[f]
<1>1. CASE ReadPrevious(e)
  BY <1>1, HeadType, ReadSets, Zenon DEF ReadPrevious, Set
<1>2. CASE \E step \in Steps : Leave(e, step) \/ Move(e, step)
  BY <1>2, LeaveSets, MoveSets, Zenon DEF Set
<1>3. CASE Fallback(e)
  BY <1>3, FallbackSets, Zenon DEF Set
<1>4. /\ "fallback" \in Steps /\ "making" \in Steps /\ "appended" \in Steps
      /\ "truncated" \in Steps /\ "done" \in Steps
  BY DEF Steps
<1> QED
  BY <1>1, <1>2, <1>3, <1>4, Zenon DEF WriterStep, CreateRow, Abort, EnsureAuditFallbackPath,
     AppendFallbackLine, WriteAuditFallbackPreviousHash

\* Who makes the directory goes on making it until it knows.
LEMMA PathKept ==
    ASSUME Types, PathInv, [Next]_vars
    PROVE  PathInv'
<1> SUFFICES ASSUME path' = "making" PROVE \E f \in Events : writer'[f].step = "making"
  BY Zenon DEF PathInv
<1>0. "making" \in Steps
  BY DEF Steps
<1>1. ASSUME NEW e \in Events, WriterStep(e)
      PROVE  \E f \in Events : writer'[f].step = "making"
  <2>1. CASE path = "unchecked" /\ Leave(e, "making")
    BY <1>0, <2>1, LeaveSets, Zenon DEF Set
  <2>2. CASE path = "making" /\ writer[e].step # "making"
                             /\ \A f \in Events : f # e => writer'[f] = writer[f]
    BY <2>2 DEF PathInv
  <2>3. \A f \in Events : f # e => writer'[f] = writer[f]
    BY <1>1, OneCallMoves
  <2>4. CASE Abort(e)
    BY <2>1, <2>2, <2>3, <2>4 DEF Abort
  <2>5. CASE EnsureAuditFallbackPath(e)
    BY <2>5 DEF EnsureAuditFallbackPath
  <2>6. CASE writer[e].step # "making" /\ path' = path
    BY <2>2, <2>3, <2>6
  <2>7. ReadPrevious(e) \/ CreateRow(e) \/ AppendFallbackLine(e)
            \/ WriteAuditFallbackPreviousHash(e) => writer[e].step # "making" /\ path' = path
    BY DEF ReadPrevious, CreateRow, AppendFallbackLine, WriteAuditFallbackPreviousHash,
           fallbackVars
  <2> QED
    BY <1>1, <2>4, <2>5, <2>6, <2>7, Zenon DEF WriterStep
<1>2. CASE UNCHANGED <<writer, path>>
  BY <1>2 DEF PathInv
<1>3. CASE Crash
  BY <1>3 DEF Crash
<1>4. Rotate \/ ArchiveAuditLog \/ DeleteAuditLog \/ StartVerifier \/ CheckPage
          \/ EndVerifier \/ Tick \/ UNCHANGED vars => UNCHANGED <<writer, path>>
  BY Zenon DEF Rotate, ArchiveAuditLog, DeleteAuditLog, StartVerifier, CheckPage,
               EndVerifier, Tick, vars, fallbackVars
<1> QED
  BY <1>1, <1>2, <1>3, <1>4, Zenon DEF Next

LEMMA CrashKeeps ==
    ASSUME Types, LogSide, FileSide, Crash
    PROVE  LogSide' /\ FileSide'
<1>1. Ended
  BY CrashEnds
<1>2. UNCHANGED <<now, log, file, state, jobVars>>
  BY Zenon DEF Crash
<1>3. unsaved' = unsaved \cup At("appended") \cup At("truncated")
  BY Zenon DEF Crash
<1>4. \A f \in Events : writer[f] \in Writers
  BY DEF Types, BaseTypes
<1>5. \A f \in Events : writer[f].step \in Steps
  BY <1>4, Zenon DEF Writers
<1>6. ReadersKept
  BY <1>1, <1>5 DEF Ended, ReadersKept, Steps
<1>7. \A f \in Events :
          \/ writer'[f] = writer[f]
          \/ writer'[f].step = "dead" /\ writer[f].step \in Early \cup {"chained"}
          \/ writer'[f].step = "dead" /\ writer[f].step \in Appending /\ f \in unsaved'
  BY <1>1, <1>3, <1>5 DEF Ended, Steps, Appending, Early, At
<1>8. unsaved \subseteq unsaved'
  BY <1>3
<1> QED
  BY <1>2, <1>6, <1>7, <1>8, FileLeaves, LogOthers

LEMMA OthersKeep ==
    ASSUME Types, LogSide, FileSide,
           Rotate \/ ArchiveAuditLog \/ DeleteAuditLog \/ StartVerifier \/ CheckPage
                  \/ EndVerifier \/ Tick \/ UNCHANGED vars
    PROVE  LogSide' /\ FileSide'
<1>1. UNCHANGED <<writer, file, state, unsaved, log>>
  BY Zenon DEF Rotate, ArchiveAuditLog, DeleteAuditLog, StartVerifier, CheckPage,
               EndVerifier, Tick, vars, fallbackVars
<1>2. ReadersKept
  BY <1>1, Zenon DEF ReadersKept
<1>3. FileSide'
  BY <1>1, FileStill
<1>4. CASE Rotate \/ UNCHANGED vars
  <2>1. UNCHANGED <<now, log, jobVars>>
    BY <1>4, Zenon DEF Rotate, vars, jobVars
  <2> QED
    BY <1>2, <1>3, <2>1, LogOthers
<1> QED
  BY <1>3, <1>4, LogArchive, LogDelete, LogVerifier, LogTick, Zenon

-----------------------------------------------------------------------------
(* Theorems *)

LEMMA ChainInit ==
    ASSUME Init
    PROVE  ChainInv
<1>1. /\ now = 0 /\ log = <<>> /\ file = <<>> /\ state = None /\ unsaved = {}
      /\ archived = {} /\ deleted = {} /\ verifier = NoVerifier
      /\ writer = [e \in Events |-> NoWriter] /\ cleaner = [step |-> "idle", at |-> 0]
  BY Zenon DEF Init
<1>2. NoWriter.step = "idle"
  BY Zenon DEF NoWriter
<1>3. \A e \in Events : writer[e].step = "idle"
  BY <1>1, <1>2, Zenon
<1>4. DOMAIN log = {} /\ DOMAIN file = {} /\ Len(file) = 0
  BY <1>1
<1>5. LogInv /\ ReaderInv
  BY <1>3, <1>4 DEF LogInv, ReaderInv, At
<1>6. cleaner.step # "archived"
  BY <1>1
<1>7. NoVerifier.step = "idle" /\ ~NoVerifier.bad
  BY Zenon DEF NoVerifier
<1>8. verifier.step # "walking" /\ verifier.step # "done" /\ ~verifier.bad
  BY <1>1, <1>7
<1>9. ArchiveInv /\ VerifierInv
  BY <1>6, <1>8, Zenon DEF ArchiveInv, VerifierInv
<1>10. LastEvent = None
  BY <1>4, Zenon DEF LastEvent
<1>11. LinesInv /\ FallbackInv /\ FallbackChained
  BY <1>1, <1>3, <1>4, <1>10
     DEF LinesInv, FallbackInv, FallbackChained, Overlapping, Appending
<1>12. PathInv
  BY Zenon DEF Init, PathInv
<1> QED
  BY <1>5, <1>9, <1>11, <1>12, TypesInit, Zenon DEF ChainInv

LEMMA ChainStep ==
    ASSUME ChainInv, [Next]_vars
    PROVE  ChainInv'
<1>1. Types /\ LogSide /\ FileSide
  BY Zenon DEF ChainInv, LogSide, FileSide
<1>2. Types'
  BY <1>1, TypesNext
<1>3. LogSide' /\ FileSide'
  BY <1>1, WriterKeeps, CrashKeeps, OthersKeep, Zenon DEF Next
<1>4. PathInv'
  BY PathKept, Zenon DEF ChainInv
<1> QED
  BY <1>2, <1>3, <1>4, Zenon DEF ChainInv, LogSide, FileSide

\* The inductive invariant: the log is in order of time with its oldest rows gone,
\* the one holder of the lock may append, the archive has what may be deleted, the
\* verifier has the rest ahead of it, and the state follows the file as long as
\* writers neither overlap nor fail (audit-log.ts, cleanup-db.sh,
\* verify-audit-integrity.mjs).
THEOREM Invariance == Spec => []ChainInv
BY ChainInit, ChainStep, PTL DEF Spec

\* The variables of the audit log keep their types.
THEOREM TypeCorrect == Spec => []TypeOK
<1>1. ChainInv => TypeOK
  <2> SUFFICES ASSUME ChainInv PROVE TypeOK
    OBVIOUS
  <2>1. Types /\ LogInv /\ LinesInv
    BY Zenon DEF ChainInv
  <2>2. BaseTypes /\ FileTypes /\ JobTypes
    BY <2>1, Zenon DEF Types
  <2> DEFINE S == [event : Events, prev : Events \cup {None}, at : 0..now]
  <2>3. log \in Seq(S)
    <3>1. \A i \in DOMAIN log : log[i] \in LogRows /\ log[i].at \in 0..now
      BY <2>1, RowsBounded, NumberTypes DEF LogInv
    <3>2. \A i \in DOMAIN log : log[i] \in S
      BY <3>1, Zenon DEF LogRows
    <3> HIDE DEF S
    <3>3. log \in [1..Len(log) -> S] /\ Len(log) \in Nat
      BY <2>2, <3>2 DEF BaseTypes
    <3> QED
      BY <3>3, SeqDef
  <2>4. \A i \in DOMAIN file : file[i].event \in Events /\ file[i].event # file[i].prev
    BY <2>1, LastEventType, Zenon DEF LinesInv
  <2>5. verifier.step \in {"idle", "walking", "done"} /\ verifier.bad \in BOOLEAN
        /\ verifier.cursor \in Nat
    BY <2>2, Zenon DEF JobTypes, Verifiers
  <2>6. verifier.cursor \in 0..Len(log)
    BY <2>2, <2>5, RowsBounded, <2>1 DEF JobTypes
  <2> QED
    BY <2>2, <2>3, <2>4, <2>5, <2>6, Zenon
       DEF TypeOK, BaseTypes, FileTypes, JobTypes, Writers
<1> QED
  BY <1>1, Invariance, PTL

\* However the transactions of logAudit, its failures, crashes and the deletes of
\* the clean-up interleave, a row links to the one before it (audit-log.ts:534).
THEOREM RowsStayChained == Spec => []Chained
<1>1. ChainInv => Chained
  <2> SUFFICES ASSUME ChainInv, NEW i \in Rows
               PROVE  LET before == {j \in Rows : j < i} IN
                      IF before = {} THEN log[i].prev \in {log[d].event : d \in deleted} \cup {None}
                                     ELSE log[i].prev = log[Max(before)].event
    BY Zenon DEF Chained
  <2> DEFINE before == {j \in Rows : j < i}
  <2>1. Types /\ LogInv
    BY Zenon DEF ChainInv
  <2>0. Rows \subseteq DOMAIN log /\ DOMAIN log = 1..Len(log) /\ Len(log) \in Nat
    BY <2>1, RowsBounded
  <2>2. CASE before = {}
    <3>1. Links(log, deleted, log[i].prev, i)
      BY <2>0, <2>1 DEF LogInv
    <3>2. i > 1 => i - 1 \in deleted
      BY <2>0, <2>2 DEF Rows
    <3>3. log[i].prev \in {log[d].event : d \in deleted} \cup {None}
      BY <3>1, <3>2 DEF Links
    <3> QED
      BY <2>2, <3>3
  <2>3. CASE before # {}
    <3>1. i - 1 \in Rows => i - 1 \in before
      BY <2>0
    <3>2. before \subseteq Rows /\ \A j \in before : j < i
      OBVIOUS
    <3> HIDE DEF before
    <3>3. log[i].prev = log[Max(before)].event
      BY <2>1, <2>3, <3>1, <3>2, RowBefore, Zenon
    <3> QED
      BY <2>3, <3>3, Zenon DEF before
  <2> QED
    BY <2>2, <2>3
<1> QED
  BY <1>1, Invariance, PTL

\* A call returns without its event in the log or in the file only in the step in
\* which the file system fails it, or, its transaction having failed, where the
\* process found no directory for the file or another call is still making it;
\* whichever calls overlap and whenever the process dies (audit-log.ts:150, 282).
THEOREM EventsAccountedFor == Spec => Accounted
<1> DEFINE Traced(e) == \/ e \in InLog' \cup InFile'
                        \/ writer[e].step \in {"making", "chained"} /\ faults' = faults + 1
                        \/ path = "absent"
                        \/ \E f \in Events \ {e} : writer[f].step = "making"
<1>1. ASSUME ChainInv, [Next]_vars, NEW e \in Events,
             writer[e].step # "done", writer'[e].step = "done"
      PROVE  Traced(e)
  <2>1. Types /\ LinesInv /\ PathInv
    BY <1>1, Zenon DEF ChainInv
  <2>2. CASE WriterStep(e)
    <3>1. CASE ReadPrevious(e)
      BY <1>1, <2>1, <3>1, HeadType, ReadSets DEF ReadPrevious, Set
    <3>2. CASE CreateRow(e)
      BY <2>1, <3>2, CreateRowGrows DEF Grown, InLog
    <3>3. CASE Abort(e)
      <4>1. CASE path \in {"making", "absent"}
        BY <2>1, <3>3, <4>1 DEF Abort, PathInv
      <4>2. CASE path = "unchecked" /\ Leave(e, "making")
        <5>1. writer'[e].step = "making"
          BY <2>1, <4>2, LeaveSets, Zenon DEF Set, Steps
        <5> QED
          BY <1>1, <5>1
      <4>3. CASE Fallback(e)
        <5>1. writer'[e].step = "chained"
          BY <2>1, <4>3, FallbackSets, Zenon DEF Set
        <5> QED
          BY <1>1, <5>1
      <4> QED
        BY <3>3, <4>1, <4>2, <4>3, Zenon DEF Abort
    <3>4. CASE EnsureAuditFallbackPath(e)
      <4>1. CASE Fallback(e)
        <5>1. writer'[e].step = "chained"
          BY <2>1, <4>1, FallbackSets, Zenon DEF Set
        <5> QED
          BY <1>1, <5>1
      <4> QED
        BY <3>4, <4>1 DEF EnsureAuditFallbackPath, Fault
    <3>5. CASE AppendFallbackLine(e)
      <4>1. CASE Move(e, "appended")
        <5>1. writer'[e].step = "appended"
          BY <2>1, <4>1, MoveSets, Zenon DEF Set, Steps
        <5> QED
          BY <1>1, <5>1
      <4> QED
        BY <3>5, <4>1 DEF AppendFallbackLine, Fault
    <3>6. CASE WriteAuditFallbackPreviousHash(e)
      <4>1. writer[e].step \in Appending /\ UNCHANGED file
        BY <3>6 DEF WriteAuditFallbackPreviousHash, Appending
      <4>2. e \in InFile'
        BY <2>1, <4>1 DEF LinesInv, InFile
      <4> QED
        BY <4>2
    <3> HIDE DEF Traced
    <3> QED
      BY <2>2, <3>1, <3>2, <3>3, <3>4, <3>5, <3>6, Zenon DEF WriterStep
  <2>3. ASSUME NEW d \in Events, WriterStep(d) PROVE d = e
    <3>1. \A f \in Events : f # d => writer'[f] = writer[f]
      BY <2>1, <2>3, OneCallMoves
    <3> QED
      BY <1>1, <3>1
  <2>4. ~Crash
    BY <1>1, <2>1, CrashEnds DEF Ended
  <2>5. ~UNCHANGED writer
    BY <1>1
  <2>6. ~(Rotate \/ ArchiveAuditLog \/ DeleteAuditLog \/ StartVerifier \/ CheckPage
              \/ EndVerifier \/ Tick \/ UNCHANGED vars)
    BY <2>5, Zenon DEF Rotate, ArchiveAuditLog, DeleteAuditLog, StartVerifier, CheckPage,
                       EndVerifier, Tick, vars
  <2> HIDE DEF Traced
  <2> QED
    BY <1>1, <2>2, <2>3, <2>4, <2>6, Zenon DEF Next
<1>2. ChainInv /\ [Next]_vars =>
          [\A e \in Events : writer[e].step # "done" /\ writer'[e].step = "done" => Traced(e)]_vars
  BY <1>1, Zenon
<1> QED
  BY <1>2, Invariance, PTL DEF Spec, Accounted

\* The verifier raises no alarm about a log that is right, and sees all there was
\* to see, whatever is written and deleted between its pages
\* (verify-audit-integrity.mjs).
THEOREM VerifierIsRight == Spec => []VerifierRight
<1>1. ChainInv => VerifierRight
  <2> SUFFICES ASSUME ChainInv PROVE VerifierRight
    OBVIOUS
  <2>1. VerifierInv
    BY Zenon DEF ChainInv
  <2> QED
    BY <2>1, Zenon DEF VerifierInv, VerifierRight
<1> QED
  BY <1>1, Invariance, PTL

\* A line of the fallback file follows the one before it, until writers overlap
\* or a hash is lost (writeAuditFallbackLine).
THEOREM LinesStayChained == Spec => []FallbackChained
<1>1. ChainInv => FallbackChained
  BY Zenon DEF ChainInv
<1> QED
  BY <1>1, Invariance, PTL

\* The clean-up deletes no row that it did not archive, but those that grew old
\* between its two statements: no transaction that began before the archive can
\* commit a row that was old by then (cleanup-db.sh:124).
THEOREM ArchivedBeforeDeleted == Spec => ArchivedUnlessCrossing
<1>1. ChainInv /\ [Next]_vars =>
          [\A i \in deleted' \ (deleted \cup archived) :
               cleaner.step = "archived" /\ log[i].at >= cleaner.at - Retention]_vars
  <2> SUFFICES ASSUME ChainInv, [Next]_vars, NEW i \in deleted' \ (deleted \cup archived)
               PROVE  cleaner.step = "archived" /\ log[i].at >= cleaner.at - Retention
    BY Zenon
  <2>1. ArchiveInv /\ Types
    BY Zenon DEF ChainInv
  <2>2. CASE DeleteAuditLog
    <3>1. cleaner.step = "archived" /\ i \in Rows
      BY <2>2, Zenon DEF DeleteAuditLog, Expired
    <3>2. ~(log[i].at < cleaner.at - Retention)
      BY <2>1, <3>1, Zenon DEF ArchiveInv
    <3>3. log[i].at \in Nat /\ cleaner.at \in Nat
      BY <2>1, <3>1, NumberTypes, RowsBounded
    <3> QED
      BY <3>1, <3>2, <3>3, AuditChainAssumption
  <2>3. CASE deleted' = deleted
    BY <2>3
  <2>4. DeleteAuditLog \/ deleted' = deleted
    BY Zenon DEF Next, WriterStep, ReadPrevious, CreateRow, Abort,
       EnsureAuditFallbackPath, AppendFallbackLine,
       WriteAuditFallbackPreviousHash, Crash, Rotate, ArchiveAuditLog, StartVerifier,
       CheckPage, EndVerifier, Tick, vars, jobVars
  <2> QED
    BY <2>2, <2>3, <2>4
<1> QED
  BY <1>1, Invariance, PTL DEF Spec, ArchivedUnlessCrossing
===============================================================================
