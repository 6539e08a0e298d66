-------------------------- MODULE InternalRoutesProofs --------------------------
(***************************************************************************)
(* Proofs about the rate limiter and the replay guard of the two internal  *)
(* routes, for any number of requests and deliveries, any limits and any   *)
(* windows longer than the delay of a call.                                *)
(***************************************************************************)
EXTENDS InternalRoutes, FiniteSetTheorems, SequenceTheorems, TLAPS

RouteLimits == {"dispatch-replay", "event-replay", "event-request"}
Ids         == {m[2] : m \in Messages}
UsedKeys    == RouteLimits \X {"plain", "id-device"} \X Ids
Stores      == {"redis", "db"}

AttemptRecords ==
    [key : UsedKeys, store : Stores, at : Nat, kept : BOOLEAN, score : Nat, n : Nat]
CallRecords ==
    [checks : Seq(UsedKeys), step : {"none", "redis", "eval", "insert", "allowed", "denied"},
     clock : Nat, retried : BOOLEAN, store : Stores \cup {None}, at : Nat]
RequestRecords ==
    [msg : Messages \cup {None}, step : {"idle", "replay", "event"},
     store : Stores \cup {None}, at : Nat]
RunRecords == [msg : Messages, store : Stores, at : Nat]

(***************************************************************************)
(* The keys: their numbers, and the checks of an identifier.               *)
(***************************************************************************)
LEMMA MessageKeys ==
    ASSUME NEW m \in Messages
    PROVE  /\ m[2] \in Ids /\ ReplayLimit[m[1]] \in {"dispatch-replay", "event-replay"}
           /\ m[1] = "dispatch" => ReplayLimit[m[1]] = "dispatch-replay"
           /\ m[1] = "event" => ReplayLimit[m[1]] = "event-replay"
BY InternalRoutesAssumption DEF Ids, ReplayLimit

LEMMA KeyNumbers ==
    ASSUME NEW k \in UsedKeys
    PROVE  /\ Limit(k) \in Nat \ {0} /\ Span(k) \in Nat /\ MaxDelay < Span(k) /\ MaxDelay \in Nat
           /\ k[2] = "plain" => Limit(k) = Max[k[1]] /\ Span(k) = Window[k[1]]
<1>1. k[1] \in RouteLimits
  BY DEF UsedKeys
<1>2. k[1] \in DOMAIN Window
  BY <1>1, InternalRoutesAssumption DEF RouteLimits
<1> QED
  BY <1>2, RateLimitAssumption DEF Limit, Span

LEMMA ChecksOf ==
    ASSUME NEW l \in RouteLimits, NEW id \in Ids
    PROVE  /\ IdentifierChecks(l, id) \in Seq(UsedKeys) /\ AdaptiveChecks(l, id) \in Seq(UsedKeys)
           /\ IdentifierChecks(l, id) # <<>>
           /\ Head(IdentifierChecks(l, id)) = <<l, "plain", id>>
           /\ Tail(IdentifierChecks(l, id)) = AdaptiveChecks(l, id)
           /\ Len(IdentifierChecks(l, id)) = 1 <=> ~AdaptiveEnabled
           /\ <<l, "plain", id>> \in UsedKeys /\ <<l, "id-device", id>> \in UsedKeys
           /\ AdaptiveEnabled => /\ AdaptiveChecks(l, id) # <<>> /\ Len(AdaptiveChecks(l, id)) = 1
                                 /\ Head(AdaptiveChecks(l, id)) = <<l, "id-device", id>>
<1>1. <<l, "plain", id>> \in UsedKeys /\ <<l, "id-device", id>> \in UsedKeys
  BY DEF UsedKeys
<1> DEFINE p == <<l, "plain", id>>
           d == <<l, "id-device", id>>
<1>2. \A k \in UsedKeys : <<k>> \in Seq(UsedKeys) /\ <<k>> # <<>> /\ Len(<<k>>) = 1
                         /\ Head(<<k>>) = k /\ Tail(<<k>>) = <<>>
  OBVIOUS
<1>3. \A k, q \in UsedKeys : <<k, q>> \in Seq(UsedKeys) /\ <<k, q>> # <<>> /\ Len(<<k, q>>) = 2
                            /\ Head(<<k, q>>) = k /\ Tail(<<k, q>>) = <<q>>
  OBVIOUS
<1>4. <<>> \in Seq(UsedKeys)
  OBVIOUS
<1>5. \A k, q \in UsedKeys : <<k>> \o <<q>> = <<k, q>>
  <2> SUFFICES ASSUME NEW k \in UsedKeys, NEW q \in UsedKeys PROVE <<k>> \o <<q>> = <<k, q>>
    OBVIOUS
  <2>0. PICK t : t = <<k>> \o <<q>>
    BY Zenon
  <2>1. /\ t \in Seq(UsedKeys) /\ Len(t) = Len(<<k>>) + Len(<<q>>)
        /\ \A i \in 1 .. Len(<<k>>) + Len(<<q>>) :
              t[i] = IF i <= Len(<<k>>) THEN <<k>>[i] ELSE <<q>>[i - Len(<<k>>)]
    BY <1>2, <2>0, ConcatProperties, Zenon
  <2>2. Len(<<k>>) = 1 /\ Len(<<q>>) = 1 /\ <<k>>[1] = k /\ <<q>>[1] = q
    OBVIOUS
  <2>3. Len(t) = 2 /\ t[1] = k /\ t[2] = q
    BY <2>1, <2>2
  <2>3u. PICK u : u = <<k, q>>
    BY Zenon
  <2>4. u[1] = k /\ u[2] = q /\ Len(u) = 2
    BY <2>3u
  <2>5. u \in Seq(UsedKeys)
    BY <1>3, <2>3u, Zenon
  <2>6. t = u
    <3> SUFFICES ASSUME NEW i \in 1..Len(t) PROVE t[i] = u[i]
      BY <2>1, <2>3, <2>4, <2>5, SeqEqual
    <3> QED
      BY <2>3, <2>4
  <2> QED
    BY <2>0, <2>3u, <2>6
<1>6. CASE AdaptiveEnabled
  <2>1. IdentifierChecks(l, id) = <<p, d>>
    <3>1. IdentifierChecks(l, id) = <<p>> \o <<d>>
      BY <1>6 DEF IdentifierChecks, AdaptiveChecks
    <3> HIDE DEF p, d
    <3>2. p \in UsedKeys /\ d \in UsedKeys
      BY <1>1 DEF p, d
    <3>3. <<p>> \o <<d>> = <<p, d>>
      BY <1>5, <3>2
    <3> QED
      BY <3>1, <3>3
  <2>2. AdaptiveChecks(l, id) = <<d>>
    BY <1>6 DEF AdaptiveChecks
  <2> HIDE DEF p, d
  <2>3. p \in UsedKeys /\ d \in UsedKeys
    BY <1>1 DEF p, d
  <2>4. /\ IdentifierChecks(l, id) \in Seq(UsedKeys) /\ AdaptiveChecks(l, id) \in Seq(UsedKeys)
        /\ IdentifierChecks(l, id) # <<>> /\ Head(IdentifierChecks(l, id)) = p
        /\ Tail(IdentifierChecks(l, id)) = AdaptiveChecks(l, id)
        /\ Len(IdentifierChecks(l, id)) = 2
        /\ AdaptiveChecks(l, id) # <<>> /\ Len(AdaptiveChecks(l, id)) = 1
        /\ Head(AdaptiveChecks(l, id)) = d
    BY <1>2, <1>3, <2>1, <2>2, <2>3, Zenon
  <2> QED
    BY <1>1, <1>6, <2>4 DEF p, d
<1>7. CASE ~AdaptiveEnabled
  <2>1. IdentifierChecks(l, id) = <<p>>
    BY <1>7 DEF IdentifierChecks, AdaptiveChecks
  <2>2. AdaptiveChecks(l, id) = <<>>
    BY <1>7 DEF AdaptiveChecks
  <2> HIDE DEF p, d
  <2>3. p \in UsedKeys
    BY <1>1 DEF p
  <2>4. /\ IdentifierChecks(l, id) \in Seq(UsedKeys) /\ AdaptiveChecks(l, id) \in Seq(UsedKeys)
        /\ IdentifierChecks(l, id) # <<>> /\ Head(IdentifierChecks(l, id)) = p
        /\ Tail(IdentifierChecks(l, id)) = AdaptiveChecks(l, id)
        /\ Len(IdentifierChecks(l, id)) = 1
    BY <1>2, <1>4, <2>1, <2>2, <2>3, Zenon
  <2> QED
    BY <1>1, <1>7, <2>4 DEF p
<1> QED
  BY <1>6, <1>7

(***************************************************************************)
(* Types: a slot is idle, or it checks the limit that its request is at.   *)
(***************************************************************************)
Types ==
    /\ now \in 0..MaxTime /\ faults \in 0..MaxFaults /\ deliveries \in 0..MaxDeliveries
    /\ redis \in BOOLEAN
    /\ signed \in [Messages -> (0..MaxTime) \cup {None}]
    /\ call \in [Slots -> CallRecords]
    /\ req \in [Slots -> RequestRecords]
    /\ ran \in Seq(RunRecords)
    /\ attempts \subseteq AttemptRecords /\ IsFiniteSet(attempts)

LimitOf(s) == IF req[s].step = "event" THEN "event-request" ELSE ReplayLimit[req[s].msg[1]]

Underway(s) ==
    /\ req[s].step # "idle" /\ call[s].step # "none"
    /\ req[s].msg \in Messages /\ signed[req[s].msg] # None
    /\ req[s].step = "event" => req[s].msg[1] = "event" /\ req[s].store \in Stores
    /\ req[s].step = "replay" => req[s].store = None
    /\ call[s].step = "allowed" => call[s].store \in Stores
    /\ call[s].step \in {"redis", "eval", "insert"} =>
          IF call[s].store = None THEN call[s].checks = IdentifierChecks(LimitOf(s), req[s].msg[2])
          ELSE AdaptiveEnabled /\ call[s].checks = AdaptiveChecks(LimitOf(s), req[s].msg[2])

SlotsFit == \A s \in Slots : (req[s] = Idle /\ call[s] = NoCall) \/ Underway(s)

RanFits == \A i \in DOMAIN ran : signed[ran[i].msg] # None

CallTimes ==
    \A s \in Slots :
        /\ call[s].clock <= now /\ call[s].at <= now
        /\ call[s].step \in {"eval", "insert"} => now <= call[s].clock + MaxDelay

\* An attempt is scored with the clock of its call; one that was trimmed is
\* outside of every window that ends now, but for the delay.
AttemptTimes ==
    \A a \in attempts :
        /\ a.score <= a.at /\ a.at <= now
        /\ (a.store = "redis" /\ a.kept) => a.at <= a.score + MaxDelay
        /\ (a.store = "redis" /\ ~a.kept) => a.at + Span(a.key) <= now + MaxDelay

TypeInv == Types /\ SlotsFit /\ RanFits /\ CallTimes /\ AttemptTimes

\* The key a slot is about to be counted under
CheckedKey(s) ==
    <<LimitOf(s), IF call[s].store = None THEN "plain" ELSE "id-device", req[s].msg[2]>>

LEMMA Checked ==
    ASSUME TypeInv, NEW s \in Slots, call[s].step \in {"redis", "eval", "insert"}
    PROVE  /\ Underway(s) /\ LimitOf(s) \in RouteLimits /\ req[s].msg[2] \in Ids
           /\ call[s].checks # <<>> /\ Head(call[s].checks) = CheckedKey(s) /\ CheckedKey(s) \in UsedKeys
           /\ Tail(call[s].checks) \in Seq(UsedKeys)
           /\ call[s].store = None /\ Len(call[s].checks) # 1 =>
                 AdaptiveEnabled /\ Tail(call[s].checks) = AdaptiveChecks(LimitOf(s), req[s].msg[2])
           /\ call[s].store # None => Len(call[s].checks) = 1
<1>1. Underway(s)
  BY DEF TypeInv, SlotsFit, NoCall
<1>2. LimitOf(s) \in RouteLimits /\ req[s].msg[2] \in Ids
  BY <1>1, MessageKeys DEF Underway, LimitOf, RouteLimits
<1>3. CASE call[s].store = None
  <2>1. call[s].checks = IdentifierChecks(LimitOf(s), req[s].msg[2])
    BY <1>1, <1>3 DEF Underway
  <2> QED
    BY <1>1, <1>2, <1>3, <2>1, ChecksOf, Zenon DEF CheckedKey
<1>4. CASE call[s].store # None
  <2>1. AdaptiveEnabled /\ call[s].checks = AdaptiveChecks(LimitOf(s), req[s].msg[2])
    BY <1>1, <1>4 DEF Underway
  <2>2. Len(call[s].checks) = 1 /\ call[s].checks # <<>> /\ call[s].checks \in Seq(UsedKeys)
    BY <1>2, <2>1, ChecksOf, Zenon
  <2>3. Tail(call[s].checks) \in Seq(UsedKeys)
    BY <2>2
  <2> QED
    BY <1>1, <1>2, <1>4, <2>1, <2>2, <2>3, ChecksOf, Zenon DEF CheckedKey
<1> QED
  BY <1>3, <1>4

(***************************************************************************)
(* Trimming changes no attempt's key, store and time.                      *)
(***************************************************************************)
TrimOne(a, k, clock) ==
    IF a \in Members(k) \ Remaining(k, clock) THEN [a EXCEPT !.kept = FALSE, !.score = 0] ELSE a

LEMMA TrimmedIsImage ==
    ASSUME NEW k, NEW clock
    PROVE  Trimmed(k, clock) = {TrimOne(a, k, clock) : a \in attempts}
BY DEF Trimmed, TrimOne

LEMMA TrimOneKeeps ==
    ASSUME NEW k, NEW clock, NEW a \in AttemptRecords
    PROVE  LET b == TrimOne(a, k, clock) IN
           /\ b \in AttemptRecords
           /\ b.key = a.key /\ b.store = a.store /\ b.at = a.at
           /\ b = a \/ (a \in Members(k) \ Remaining(k, clock) /\ ~b.kept /\ b.score = 0)
BY DEF TrimOne, AttemptRecords

LEMMA TrimmedFinite ==
    ASSUME NEW k, NEW clock, attempts \subseteq AttemptRecords, IsFiniteSet(attempts)
    PROVE  Trimmed(k, clock) \subseteq AttemptRecords /\ IsFiniteSet(Trimmed(k, clock))
<1> DEFINE f == [a \in attempts |-> TrimOne(a, k, clock)]
<1>1. f \in Surjection(attempts, Trimmed(k, clock))
  BY TrimmedIsImage DEF Surjection
<1>2. IsFiniteSet(Trimmed(k, clock))
  BY <1>1, FS_Surjection
<1> QED
  BY <1>2, TrimmedIsImage, TrimOneKeeps
\* What a check may do to its slot
LEMMA Switched ==
    ASSUME TypeInv, NEW s \in Slots, call[s].step \in {"redis", "eval", "insert"},
           NEW step \in {"eval", "insert", "denied"}, NEW clock \in {call[s].clock, now},
           NEW retried \in BOOLEAN,
           call' = [call EXCEPT ![s] = [call[s] EXCEPT !.step = step, !.clock = clock, !.retried = retried]],
           step \in {"eval", "insert"} => now <= clock + MaxDelay,
           UNCHANGED <<now, signed, req>>
    PROVE  call' \in [Slots -> CallRecords] /\ SlotsFit' /\ CallTimes'
<1>0. call[s] \in CallRecords /\ call \in [Slots -> CallRecords] /\ now \in Nat
  BY DEF TypeInv, Types
<1>1. Underway(s)
  BY Checked
<1>2. call'[s] \in CallRecords
  BY <1>0 DEF CallRecords
<1>3. \A o \in Slots \ {s} : call'[o] = call[o]
  BY <1>0
<1>4. /\ call'[s].step = step /\ call'[s].clock = clock /\ call'[s].at = call[s].at
      /\ call'[s].store = call[s].store /\ call'[s].checks = call[s].checks
  BY <1>0 DEF CallRecords
<1>5. call' \in [Slots -> CallRecords]
  BY <1>0, <1>2
<1>6. Underway(s)'
  BY <1>1, <1>4 DEF Underway, LimitOf
<1>7. SlotsFit'
  <2> SUFFICES ASSUME NEW o \in Slots, o # s PROVE ((req[o] = Idle /\ call[o] = NoCall) \/ Underway(o))'
    BY <1>6, Zenon DEF SlotsFit
  <2>1. (req[o] = Idle /\ call[o] = NoCall) \/ Underway(o)
    BY DEF TypeInv, SlotsFit
  <2> QED
    BY <1>3, <2>1 DEF Underway, LimitOf
<1>8. CallTimes'
  <2> SUFFICES ASSUME NEW o \in Slots
               PROVE  /\ call'[o].clock <= now /\ call'[o].at <= now
                      /\ call'[o].step \in {"eval", "insert"} => now <= call'[o].clock + MaxDelay
    BY Zenon DEF CallTimes
  <2> QED
    BY <1>0, <1>3, <1>4 DEF TypeInv, CallTimes
<1> QED
  BY <1>5, <1>7, <1>8

LEMMA AllowedFits ==
    ASSUME TypeInv, NEW s \in Slots, call[s].step \in {"eval", "insert"}, NEW store \in Stores,
           Allowed(s, store), UNCHANGED <<now, signed, req>>
    PROVE  /\ call' \in [Slots -> CallRecords] /\ SlotsFit' /\ CallTimes'
           /\ \A o \in Slots \ {s} : call'[o] = call[o]
           /\ call'[s].store \in Stores
           /\ call[s].store # None => call'[s].store = call[s].store /\ call'[s].at = call[s].at
                                      /\ call'[s].step = "allowed"
           /\ call[s].store = None => call'[s].store = store /\ call'[s].at = now
           /\ call'[s].step \in {"redis", "allowed"}
<1>0. call[s] \in CallRecords /\ call \in [Slots -> CallRecords] /\ now \in Nat
  BY DEF TypeInv, Types
<1> DEFINE step == IF Len(call[s].checks) = 1 THEN "allowed" ELSE "redis"
           where == IF call[s].store = None THEN store ELSE call[s].store
           at == IF call[s].store = None THEN now ELSE call[s].at
           c == [call[s] EXCEPT !.checks = Tail(call[s].checks), !.retried = FALSE, !.clock = 0,
                                !.step = step, !.store = where, !.at = at]
<1>1. call' = [call EXCEPT ![s] = c]
  BY DEF Allowed
<1>2. Underway(s) /\ Tail(call[s].checks) \in Seq(UsedKeys)
  BY Checked
<1>3. where \in Stores /\ at \in Nat /\ step \in {"allowed", "redis"} /\ where # None
  BY <1>0, RateLimitAssumption DEF CallRecords, Stores
<1>4. /\ c \in CallRecords /\ c.step = step /\ c.clock = 0 /\ c.at = at /\ c.store = where
      /\ c.checks = Tail(call[s].checks)
  BY <1>0, <1>2, <1>3 DEF CallRecords
<1> HIDE DEF c
<1>5. call'[s] = c /\ \A o \in Slots \ {s} : call'[o] = call[o]
  BY <1>0, <1>1
<1>6. call' \in [Slots -> CallRecords]
  BY <1>0, <1>1, <1>4
<1>7. Underway(s)'
  <2>1. step = "redis" => call[s].store = None /\ AdaptiveEnabled
            /\ Tail(call[s].checks) = AdaptiveChecks(LimitOf(s), req[s].msg[2])
    BY Checked
  <2>2. LimitOf(s)' = LimitOf(s)
    BY DEF LimitOf
  <2> HIDE DEF step, where, at
  <2> QED
    BY <1>2, <1>3, <1>4, <1>5, <2>1, <2>2 DEF Underway
<1>8. SlotsFit'
  <2> SUFFICES ASSUME NEW o \in Slots, o # s PROVE ((req[o] = Idle /\ call[o] = NoCall) \/ Underway(o))'
    BY <1>7, Zenon DEF SlotsFit
  <2>1. (req[o] = Idle /\ call[o] = NoCall) \/ Underway(o)
    BY DEF TypeInv, SlotsFit
  <2> QED
    BY <1>5, <2>1 DEF Underway, LimitOf
<1>9. CallTimes'
  <2> SUFFICES ASSUME NEW o \in Slots
               PROVE  /\ call'[o].clock <= now /\ call'[o].at <= now
                      /\ call'[o].step \in {"eval", "insert"} => now <= call'[o].clock + MaxDelay
    BY Zenon DEF CallTimes
  <2>1. at <= now
    BY <1>0 DEF TypeInv, CallTimes
  <2> QED
    BY <1>0, <1>3, <1>4, <1>5, <2>1 DEF TypeInv, CallTimes
<1>10. call[s].store # None => step = "allowed"
  BY Checked
<1> QED
  BY <1>3, <1>4, <1>5, <1>6, <1>8, <1>9, <1>10

LEMMA AttemptIsRecord ==
    ASSUME TypeInv, NEW s \in Slots, call[s].step \in {"eval", "insert"}, NEW store \in Stores
    PROVE  /\ Attempt(s, store) \in AttemptRecords
           /\ Attempt(s, store).key = CheckedKey(s) /\ Attempt(s, store).store = store
           /\ Attempt(s, store).at = now /\ Attempt(s, store).kept
           /\ Attempt(s, store).score = IF store = "redis" THEN call[s].clock ELSE 0
<1> DEFINE k == Head(call[s].checks)
           same == {a \in attempts : a.key = k /\ a.store = store /\ a.at = now}
<1>1. IsFiniteSet(same)
  BY FS_Subset DEF TypeInv, Types
<1>2. Cardinality(same) \in Nat
  BY <1>1, FS_CardinalityType
<1>3. k = CheckedKey(s) /\ k \in UsedKeys
  BY Checked
<1>4. call[s].clock \in Nat /\ now \in Nat
  BY DEF TypeInv, Types, CallRecords
<1>5. Attempt(s, store) = [key |-> k, store |-> store, at |-> now, kept |-> TRUE,
         score |-> IF store = "redis" THEN call[s].clock ELSE 0, n |-> Cardinality(same)]
  BY DEF Attempt
<1> HIDE DEF k, same
<1> QED
  BY <1>2, <1>3, <1>4, <1>5 DEF AttemptRecords
(***************************************************************************)
(* What becomes of the attempts: k is the key that slot s is at.           *)
(***************************************************************************)
TrimmedNow(s) == Trimmed(CheckedKey(s), call[s].clock)

InRedis(s) ==
    /\ call[s].step = "eval"
    /\ Cardinality(Remaining(CheckedKey(s), call[s].clock)) < Limit(CheckedKey(s))
    /\ attempts' = TrimmedNow(s) \cup {Attempt(s, "redis")}

InDatabase(s) ==
    /\ call[s].step = "insert"
    /\ Cardinality(Rows(CheckedKey(s), call[s].clock - Span(CheckedKey(s)))) < Limit(CheckedKey(s))
    /\ attempts' = attempts \cup {Attempt(s, "db")}

NotCounted(s) == attempts' = attempts \/ (call[s].step = "eval" /\ attempts' = TrimmedNow(s))

\* A slot that is refused, goes on to the database or tries again
Held(s) ==
    \E step \in {"eval", "insert", "denied"}, clock \in {call[s].clock, now}, retried \in BOOLEAN :
        /\ call' = [call EXCEPT ![s] = [call[s] EXCEPT !.step = step, !.clock = clock, !.retried = retried]]
        /\ step \in {"eval", "insert"} => clock = now

\* The refusals of a full window
Full(s) ==
    \/ Cardinality(Remaining(CheckedKey(s), call[s].clock)) >= Limit(CheckedKey(s))
    \/ Cardinality(Rows(CheckedKey(s), call[s].clock - Span(CheckedKey(s)))) >= Limit(CheckedKey(s))

LEMMA CountTypes ==
    ASSUME TypeInv, NEW k \in UsedKeys, NEW clock
    PROVE  /\ Cardinality(Remaining(k, clock)) \in Nat /\ IsFiniteSet(Remaining(k, clock))
           /\ Cardinality(Rows(k, clock)) \in Nat /\ IsFiniteSet(Rows(k, clock))
           /\ Limit(k) \in Nat \ {0}
<1>1. Remaining(k, clock) \subseteq attempts /\ Rows(k, clock) \subseteq attempts
  BY DEF Remaining, Rows, Members
<1>2. IsFiniteSet(Remaining(k, clock)) /\ IsFiniteSet(Rows(k, clock))
  BY <1>1, FS_Subset DEF TypeInv, Types
<1> QED
  BY <1>2, FS_CardinalityType, KeyNumbers

\* The outcomes of a step of checkRateLimit
LEMMA CheckOutcomes ==
    ASSUME TypeInv, NEW s \in Slots, CheckRateLimit(s)
    PROVE  /\ call[s].step \in {"redis", "eval", "insert"}
           /\ now' = now /\ redis' = redis
           /\ \/ faults' = faults
              \/ faults \in 0..(MaxFaults - 1) /\ faults' = faults + 1
           /\ \/ Allowed(s, "redis") /\ InRedis(s)
              \/ Allowed(s, "db") /\ InDatabase(s)
              \/ Held(s) /\ NotCounted(s) /\ (faults' = faults + 1 \/ call'[s].step # "denied" \/ Full(s))
              \/ Held(s) /\ InRedis(s) /\ faults' = faults + 1
<1> DEFINE k == Head(call[s].checks)
           clock == call[s].clock
<1>0. /\ call[s] \in CallRecords /\ call \in [Slots -> CallRecords] /\ now \in Nat
      /\ faults \in 0..MaxFaults /\ MaxFaults \in Nat
  BY RateLimitAssumption DEF TypeInv, Types
<1>1. ASSUME NEW step \in {"eval", "insert", "denied"}, NEW to \in {clock, now}, NEW retried \in BOOLEAN,
             call' = [call EXCEPT ![s].step = step, ![s].clock = to, ![s].retried = retried],
             step \in {"eval", "insert"} => to = now
      PROVE  Held(s)
  <2>1. call' = [call EXCEPT ![s] = [call[s] EXCEPT !.step = step, !.clock = to, !.retried = retried]]
    BY <1>0, <1>1
  <2> QED
    BY <1>1, <2>1 DEF Held
<1>2. ASSUME Denied(s) PROVE Held(s)
  <2>1. call' = [call EXCEPT ![s].step = "denied", ![s].clock = clock, ![s].retried = call[s].retried]
    BY <1>0, <1>2 DEF Denied, Goto, CallRecords
  <2>2. call[s].retried \in BOOLEAN
    BY <1>0 DEF CallRecords
  <2> QED
    BY <1>1, <2>1, <2>2
<1>3. ASSUME NEW step \in {"eval", "insert"},
             call' = [call EXCEPT ![s].step = step, ![s].clock = now]
      PROVE  Held(s) /\ call'[s].step # "denied"
  <2>1. call' = [call EXCEPT ![s].step = step, ![s].clock = now, ![s].retried = call[s].retried]
    BY <1>0, <1>3 DEF CallRecords
  <2>2. call[s].retried \in BOOLEAN
    BY <1>0 DEF CallRecords
  <2>3. call'[s].step = step
    BY <1>0, <1>3 DEF CallRecords
  <2> QED
    BY <1>1, <2>1, <2>2, <2>3
<1>4. Fault => faults \in 0..(MaxFaults - 1) /\ faults' = faults + 1
  BY <1>0 DEF Fault
<1>5. CASE GetLocalRedisClient(s)
  <2>1. Held(s) /\ call'[s].step # "denied"
    BY <1>3, <1>5 DEF GetLocalRedisClient, ToDatabase
  <2> QED
    BY <1>4, <1>5, <2>1 DEF GetLocalRedisClient, NotCounted
<1>6. CASE CheckLocalRedis(s)
  <2>1. call[s].step = "eval" /\ k = CheckedKey(s) /\ CheckedKey(s) \in UsedKeys
        /\ now' = now /\ redis' = redis
    BY <1>6, Checked DEF CheckLocalRedis
  <2>2. Cardinality(Remaining(k, clock)) \in Nat /\ Limit(k) \in Nat
    BY <2>1, CountTypes
  <2> DEFINE full == Cardinality(Remaining(k, clock)) >= Limit(k)
  <2>3. CASE UNCHANGED attempts /\ Fault /\ ToDatabase(s)
    <3>1. Held(s)
      BY <1>3, <2>3 DEF ToDatabase
    <3> QED
      BY <1>4, <2>1, <2>3, <3>1 DEF NotCounted
  <2>4. CASE attempts' = Trimmed(k, clock) \cup {} /\ full /\ UNCHANGED faults /\ Denied(s)
    <3>1. Held(s) /\ Full(s)
      BY <1>2, <2>1, <2>4 DEF Full
    <3> QED
      BY <2>1, <2>4, <3>1 DEF NotCounted, TrimmedNow
  <2>5. CASE attempts' = Trimmed(k, clock) \cup {} /\ full /\ Fault /\ ToDatabase(s)
    <3>1. Held(s)
      BY <1>3, <2>5 DEF ToDatabase
    <3> QED
      BY <1>4, <2>1, <2>5, <3>1 DEF NotCounted, TrimmedNow
  <2>6. CASE attempts' = Trimmed(k, clock) \cup {Attempt(s, "redis")} /\ ~full
             /\ UNCHANGED faults /\ Allowed(s, "redis")
    <3>1. InRedis(s)
      BY <2>1, <2>2, <2>6 DEF InRedis, TrimmedNow
    <3> QED
      BY <2>1, <2>6, <3>1
  <2>7. CASE attempts' = Trimmed(k, clock) \cup {Attempt(s, "redis")} /\ ~full /\ Fault /\ ToDatabase(s)
    <3>1. Held(s)
      BY <1>3, <2>7 DEF ToDatabase
    <3>2. InRedis(s)
      BY <2>1, <2>2, <2>7 DEF InRedis, TrimmedNow
    <3> QED
      BY <1>4, <2>1, <2>7, <3>1, <3>2
  <2> QED
    BY <1>6, <2>3, <2>4, <2>5, <2>6, <2>7, Zenon DEF CheckLocalRedis
<1>7. CASE CheckPrismaFallback(s)
  <2>1. call[s].step = "insert" /\ k = CheckedKey(s) /\ CheckedKey(s) \in UsedKeys
        /\ now' = now /\ redis' = redis
    BY <1>7, Checked DEF CheckPrismaFallback
  <2>2. Cardinality(Rows(k, clock - Span(k))) \in Nat /\ Limit(k) \in Nat
    BY <2>1, CountTypes
  <2> DEFINE full == Cardinality(Rows(k, clock - Span(k))) >= Limit(k)
  <2>3. CASE full /\ Denied(s) /\ UNCHANGED <<attempts, faults>>
    <3>1. Held(s) /\ Full(s)
      BY <1>2, <2>1, <2>3 DEF Full
    <3> QED
      BY <2>1, <2>3, <3>1 DEF NotCounted
  <2>4. CASE ~full /\ Allowed(s, "db") /\ attempts' = attempts \cup {Attempt(s, "db")} /\ UNCHANGED faults
    <3>1. InDatabase(s)
      BY <2>1, <2>2, <2>4 DEF InDatabase
    <3> QED
      BY <2>1, <2>4, <3>1
  <2>5. CASE Fault /\ call' = [call EXCEPT ![s].clock = now, ![s].retried = TRUE] /\ UNCHANGED attempts
    <3>1. call' = [call EXCEPT ![s].step = "insert", ![s].clock = now, ![s].retried = TRUE]
      BY <1>0, <2>1, <2>5 DEF CallRecords
    <3>2. Held(s)
      BY <1>1, <3>1
    <3> QED
      BY <1>4, <2>1, <2>5, <3>2 DEF NotCounted
  <2>6. CASE Denied(s) /\ Fault /\ UNCHANGED attempts
    <3>1. Held(s)
      BY <1>2, <2>6
    <3> QED
      BY <1>4, <2>1, <2>6, <3>1 DEF NotCounted
  <2> QED
    BY <1>7, <2>3, <2>4, <2>5, <2>6, Zenon DEF CheckPrismaFallback
<1> QED
  BY <1>5, <1>6, <1>7 DEF CheckRateLimit
\* No attempt is lost, and only the one of slot s is new
LEMMA AttemptsStay ==
    ASSUME TypeInv, NEW s \in Slots, call[s].step \in {"redis", "eval", "insert"},
           NotCounted(s) \/ InRedis(s) \/ InDatabase(s)
    PROVE  /\ attempts' \subseteq AttemptRecords /\ IsFiniteSet(attempts')
           /\ \A a \in attempts : \E b \in attempts' : b.key = a.key /\ b.store = a.store /\ b.at = a.at
           /\ \A b \in attempts' :
                 \/ \E a \in attempts : b = a \/ b = TrimOne(a, CheckedKey(s), call[s].clock)
                 \/ InRedis(s) /\ b = Attempt(s, "redis")
                 \/ InDatabase(s) /\ b = Attempt(s, "db")
           /\ InRedis(s) => Attempt(s, "redis") \in attempts'
           /\ InDatabase(s) => Attempt(s, "db") \in attempts'
<1>0. attempts \subseteq AttemptRecords /\ IsFiniteSet(attempts)
  BY DEF TypeInv, Types
<1>1. TrimmedNow(s) \subseteq AttemptRecords /\ IsFiniteSet(TrimmedNow(s))
  BY <1>0, TrimmedFinite DEF TrimmedNow
<1>2. \A b \in TrimmedNow(s) : \E a \in attempts : b = TrimOne(a, CheckedKey(s), call[s].clock)
  BY TrimmedIsImage DEF TrimmedNow
<1>3. \A a \in attempts : \E b \in TrimmedNow(s) : b.key = a.key /\ b.store = a.store /\ b.at = a.at
  <2> TAKE a \in attempts
  <2>1. TrimOne(a, CheckedKey(s), call[s].clock) \in TrimmedNow(s)
    BY TrimmedIsImage DEF TrimmedNow
  <2> QED
    BY <1>0, <2>1, TrimOneKeeps
<1>4. CASE NotCounted(s) /\ ~InRedis(s) /\ ~InDatabase(s)
  BY <1>0, <1>1, <1>2, <1>3, <1>4 DEF NotCounted
<1>5. CASE InRedis(s)
  <2>1. attempts' = TrimmedNow(s) \cup {Attempt(s, "redis")} /\ ~InDatabase(s)
    BY <1>5 DEF InRedis, InDatabase
  <2>2. Attempt(s, "redis") \in AttemptRecords
    BY <1>5, AttemptIsRecord DEF InRedis, Stores
  <2>3. IsFiniteSet(attempts')
    BY <1>1, <2>1, FS_AddElement
  <2> HIDE DEF TrimmedNow
  <2> QED
    BY <1>1, <1>2, <1>3, <1>5, <2>1, <2>2, <2>3
<1>6. CASE InDatabase(s)
  <2>1. attempts' = attempts \cup {Attempt(s, "db")} /\ ~InRedis(s)
    BY <1>6 DEF InRedis, InDatabase
  <2>2. Attempt(s, "db") \in AttemptRecords
    BY <1>6, AttemptIsRecord DEF InDatabase, Stores
  <2>3. IsFiniteSet(attempts')
    BY <1>0, <2>1, FS_AddElement
  <2> QED
    BY <1>0, <1>6, <2>1, <2>2, <2>3
<1> QED
  BY <1>4, <1>5, <1>6

LEMMA AttemptTimesKept ==
    ASSUME TypeInv, NEW s \in Slots, call[s].step \in {"redis", "eval", "insert"},
           NotCounted(s) \/ InRedis(s) \/ InDatabase(s), now' = now
    PROVE  AttemptTimes'
<1> SUFFICES ASSUME NEW b \in attempts'
             PROVE  /\ b.score <= b.at /\ b.at <= now
                    /\ (b.store = "redis" /\ b.kept) => b.at <= b.score + MaxDelay
                    /\ (b.store = "redis" /\ ~b.kept) => b.at + Span(b.key) <= now + MaxDelay
  BY Zenon DEF AttemptTimes
<1> DEFINE k == CheckedKey(s)
           clock == call[s].clock
<1>0. /\ now \in Nat /\ clock \in Nat /\ clock <= now /\ MaxDelay \in Nat
      /\ call[s].step \in {"eval", "insert"} => now <= clock + MaxDelay
  BY RateLimitAssumption DEF TypeInv, Types, CallTimes, CallRecords
<1>1. ASSUME NEW a \in attempts
      PROVE  /\ a \in AttemptRecords /\ a.score \in Nat /\ a.at \in Nat /\ Span(a.key) \in Nat
             /\ a.score <= a.at /\ a.at <= now
             /\ (a.store = "redis" /\ a.kept) => a.at <= a.score + MaxDelay
             /\ (a.store = "redis" /\ ~a.kept) => a.at + Span(a.key) <= now + MaxDelay
  <2>1. a \in AttemptRecords
    BY DEF TypeInv, Types
  <2>2. a.score \in Nat /\ a.at \in Nat /\ a.key \in UsedKeys
    BY <2>1 DEF AttemptRecords
  <2> QED
    BY <2>1, <2>2, KeyNumbers DEF TypeInv, AttemptTimes
<1>2. CASE b \in attempts
  BY <1>1, <1>2
<1>3. ASSUME NEW a \in attempts, b = TrimOne(a, k, clock), b # a
      PROVE  /\ b.score <= b.at /\ b.at <= now
             /\ (b.store = "redis" /\ b.kept) => b.at <= b.score + MaxDelay
             /\ (b.store = "redis" /\ ~b.kept) => b.at + Span(b.key) <= now + MaxDelay
  <2>1. /\ b.key = a.key /\ b.store = a.store /\ b.at = a.at /\ ~b.kept /\ b.score = 0
        /\ a \in Members(k) \ Remaining(k, clock)
    BY <1>1, <1>3, TrimOneKeeps
  <2>2. a.key = k /\ a.store = "redis" /\ a.kept
    BY <2>1 DEF Members
  <2>3. ~Alive(k) \/ ~(a.score > clock - Span(k))
    BY <2>1 DEF Remaining
  <2>4. ~Alive(k) => ~(now < a.at + Span(k))
    BY <2>1 DEF Alive
  <2> HIDE DEF k, clock
  <2> QED
    BY <1>0, <1>1, <2>1, <2>2, <2>3, <2>4
<1>4. CASE InRedis(s) /\ b = Attempt(s, "redis")
  <2>1. call[s].step = "eval"
    BY <1>4 DEF InRedis
  <2>2. b.score = clock /\ b.at = now /\ b.kept
    BY <1>4, <2>1, AttemptIsRecord DEF Stores
  <2> QED
    BY <1>0, <2>1, <2>2
<1>5. CASE InDatabase(s) /\ b = Attempt(s, "db")
  <2>1. call[s].step = "insert"
    BY <1>5 DEF InDatabase
  <2>2. b.score = 0 /\ b.at = now /\ b.store = "db"
    BY <1>5, <2>1, AttemptIsRecord DEF Stores
  <2> QED
    BY <1>0, <2>1, <2>2
<1> QED
  BY <1>2, <1>3, <1>4, <1>5, AttemptsStay

LEMMA TypeInit == Init => TypeInv
<1> SUFFICES ASSUME Init PROVE TypeInv
  OBVIOUS
<1> USE DEF Init, LimitInit
<1>1. NoCall \in CallRecords /\ Idle \in RequestRecords
  BY DEF NoCall, Idle, CallRecords, RequestRecords
<1>2. Types
  <2>1. attempts \subseteq AttemptRecords /\ IsFiniteSet(attempts)
    BY FS_EmptySet
  <2>2. ran \in Seq(RunRecords)
    OBVIOUS
  <2> QED
    BY <1>1, <2>1, <2>2, RateLimitAssumption, InternalRoutesAssumption DEF Types
<1>3. SlotsFit
  BY DEF SlotsFit
<1>4. RanFits
  BY DEF RanFits
<1>5. CallTimes
  BY DEF CallTimes, NoCall
<1>6. AttemptTimes
  BY DEF AttemptTimes
<1> QED
  BY <1>2, <1>3, <1>4, <1>5, <1>6 DEF TypeInv
LEMMA CheckKeepsTypes ==
    ASSUME TypeInv, NEW s \in Slots, CheckRateLimit(s), UNCHANGED <<signed, req, deliveries, ran>>
    PROVE  TypeInv'
<1>1. /\ call[s].step \in {"redis", "eval", "insert"}
      /\ now' = now /\ redis' = redis /\ faults' \in 0..MaxFaults
      /\ NotCounted(s) \/ InRedis(s) \/ InDatabase(s)
      /\ Held(s) \/ (Allowed(s, "redis") /\ InRedis(s)) \/ (Allowed(s, "db") /\ InDatabase(s))
  <2>1. faults \in 0..MaxFaults /\ MaxFaults \in Nat
    BY RateLimitAssumption DEF TypeInv, Types
  <2>2. faults' = faults \/ (faults \in 0..(MaxFaults - 1) /\ faults' = faults + 1)
    BY CheckOutcomes, Zenon
  <2>3. faults' \in 0..MaxFaults
    BY <2>1, <2>2
  <2> QED
    BY <2>3, CheckOutcomes, Zenon
<1>2. call' \in [Slots -> CallRecords] /\ SlotsFit' /\ CallTimes'
  <2>1. CASE Held(s)
    <3> PICK step \in {"eval", "insert", "denied"}, clock \in {call[s].clock, now}, retried \in BOOLEAN :
           /\ call' = [call EXCEPT ![s] = [call[s] EXCEPT !.step = step, !.clock = clock, !.retried = retried]]
           /\ step \in {"eval", "insert"} => clock = now
      BY <2>1, Zenon DEF Held
    <3>1. step \in {"eval", "insert"} => now <= clock + MaxDelay
      BY RateLimitAssumption DEF TypeInv, Types
    <3> QED
      BY <1>1, <3>1, Switched
  <2>2. CASE Allowed(s, "redis") /\ InRedis(s)
    BY <1>1, <2>2, AllowedFits DEF InRedis, Stores
  <2>3. CASE Allowed(s, "db") /\ InDatabase(s)
    BY <1>1, <2>3, AllowedFits DEF InDatabase, Stores
  <2> QED
    BY <1>1, <2>1, <2>2, <2>3
<1>3. attempts' \subseteq AttemptRecords /\ IsFiniteSet(attempts')
  BY <1>1, AttemptsStay
<1>4. AttemptTimes'
  BY <1>1, AttemptTimesKept
<1>5. Types'
  BY <1>1, <1>2, <1>3 DEF TypeInv, Types
<1>6. RanFits'
  BY DEF TypeInv, RanFits
<1> QED
  BY <1>2, <1>4, <1>5, <1>6 DEF TypeInv

\* A step of the routes changes one slot, and time only passes for the rest.
LEMMA OtherSlots ==
    ASSUME TypeInv, NEW s \in Slots,
           \A o \in Slots \ {s} : call'[o] = call[o] /\ req'[o] = req[o],
           \A m \in Messages : signed[m] # None => signed'[m] # None,
           (req'[s] = Idle /\ call'[s] = NoCall) \/ Underway(s)'
    PROVE  SlotsFit'
<1> SUFFICES ASSUME NEW o \in Slots, o # s PROVE ((req[o] = Idle /\ call[o] = NoCall) \/ Underway(o))'
  BY Zenon DEF SlotsFit
<1>1. (req[o] = Idle /\ call[o] = NoCall) \/ Underway(o)
  BY DEF TypeInv, SlotsFit
<1> QED
  BY <1>1 DEF Underway, LimitOf

LEMMA OtherCalls ==
    ASSUME TypeInv, NEW s \in Slots, now' = now,
           \A o \in Slots \ {s} : call'[o] = call[o],
           call'[s].clock = 0, call'[s].at = 0, call'[s].step \notin {"eval", "insert"}
    PROVE  CallTimes'
<1> SUFFICES ASSUME NEW o \in Slots
             PROVE  /\ call'[o].clock <= now /\ call'[o].at <= now
                    /\ call'[o].step \in {"eval", "insert"} => now <= call'[o].clock + MaxDelay
  BY Zenon DEF CallTimes
<1> QED
  BY DEF TypeInv, Types, CallTimes

LEMMA Beginning ==
    ASSUME TypeInv, NEW s \in Slots, NEW l \in RouteLimits, NEW id \in Ids,
           Begin(s, IdentifierChecks(l, id))
    PROVE  /\ call' \in [Slots -> CallRecords]
           /\ call'[s].step = "redis" /\ call'[s].store = None /\ call'[s].clock = 0 /\ call'[s].at = 0
           /\ call'[s].checks = IdentifierChecks(l, id)
           /\ \A o \in Slots \ {s} : call'[o] = call[o]
<1>1. IdentifierChecks(l, id) \in Seq(UsedKeys)
  BY ChecksOf
<1> QED
  BY <1>1 DEF Begin, NoCall, TypeInv, Types, CallRecords

LEMMA Answering ==
    ASSUME TypeInv, NEW s \in Slots, Answer(s)
    PROVE  /\ call' \in [Slots -> CallRecords] /\ req' \in [Slots -> RequestRecords]
           /\ req'[s] = Idle /\ call'[s] = NoCall
           /\ \A o \in Slots \ {s} : call'[o] = call[o] /\ req'[o] = req[o]
<1>1. NoCall \in CallRecords /\ Idle \in RequestRecords
  BY DEF NoCall, Idle, CallRecords, RequestRecords
<1> QED
  BY <1>1 DEF Answer, TypeInv, Types

LEMMA AnswerKeepsTypes ==
    ASSUME TypeInv, NEW s \in Slots, Answer(s), UNCHANGED <<now, attempts, redis, signed, deliveries>>,
           faults' \in 0..MaxFaults, ran' \in Seq(RunRecords), RanFits'
    PROVE  TypeInv'
<1>1. Types'
  BY Answering DEF TypeInv, Types
<1>2. SlotsFit'
  BY Answering, OtherSlots
<1>3. CallTimes'
  BY Answering, OtherCalls DEF NoCall
<1>4. AttemptTimes'
  BY DEF TypeInv, AttemptTimes
<1> QED
  BY <1>1, <1>2, <1>3, <1>4 DEF TypeInv

LEMMA RunsAreRecords ==
    ASSUME TypeInv, NEW i \in DOMAIN ran
    PROVE  ran[i].msg \in Messages /\ ran[i].store \in Stores /\ ran[i].at \in Nat /\ i \in Nat
<1>1. ran \in Seq(RunRecords)
  BY DEF TypeInv, Types
<1>2. ran[i] \in RunRecords /\ i \in 1..Len(ran) /\ Len(ran) \in Nat
  BY <1>1
<1> QED
  BY <1>2 DEF RunRecords

\* A slot whose call is over
LEMMA RunIsRecord ==
    ASSUME TypeInv, NEW s \in Slots, NEW store \in Stores, NEW at \in Nat,
           req[s].step # "idle", Run(req[s].msg, store, at), UNCHANGED signed
    PROVE  /\ ran' \in Seq(RunRecords) /\ RanFits'
           /\ Len(ran') = Len(ran) + 1 /\ Len(ran) \in Nat
           /\ DOMAIN ran = 1..Len(ran) /\ DOMAIN ran' = 1..Len(ran')
           /\ \A i \in 1..Len(ran) : ran'[i] = ran[i]
           /\ ran'[Len(ran) + 1] = [msg |-> req[s].msg, store |-> store, at |-> at]
<1> DEFINE r == [msg |-> req[s].msg, store |-> store, at |-> at]
<1>1. Underway(s)
  BY DEF TypeInv, SlotsFit, Idle
<1>2. ran \in Seq(RunRecords) /\ r \in RunRecords /\ ran' = Append(ran, r)
  BY <1>1 DEF TypeInv, Types, RunRecords, Underway, Run
<1>3. r.msg = req[s].msg
  OBVIOUS
<1> HIDE DEF r
<1>4. /\ ran' \in Seq(RunRecords) /\ Len(ran') = Len(ran) + 1 /\ Len(ran) \in Nat
      /\ DOMAIN ran = 1..Len(ran) /\ DOMAIN ran' = 1..Len(ran')
      /\ \A i \in 1..Len(ran) : ran'[i] = ran[i]
      /\ ran'[Len(ran) + 1] = r
  BY <1>2
<1>5. RanFits'
  <2> SUFFICES ASSUME NEW i \in DOMAIN ran' PROVE signed[ran'[i].msg] # None
    BY Zenon DEF RanFits
  <2>1. CASE i \in 1..Len(ran)
    BY <1>4, <2>1 DEF TypeInv, RanFits
  <2>2. CASE i = Len(ran) + 1
    BY <1>1, <1>3, <1>4, <2>2 DEF Underway
  <2> QED
    BY <1>4, <2>1, <2>2
<1> QED
  BY <1>4, <1>5 DEF r
LEMMA VerifyKeepsTypes ==
    ASSUME TypeInv, NEW s \in Slots, NEW m \in Messages, VerifyInternalRequest(s, m)
    PROVE  TypeInv'
<1> USE DEF VerifyInternalRequest, CheckReplay
<1>0. now \in 0..MaxTime /\ now # None /\ MaxTime \in Nat /\ signed \in [Messages -> (0..MaxTime) \cup {None}]
  BY RateLimitAssumption, InternalRoutesAssumption DEF TypeInv, Types
<1>1. SignedAt(m) \in 0..MaxTime /\ SignedAt(m) # None
  BY <1>0 DEF SignedAt
<1>2. /\ signed' \in [Messages -> (0..MaxTime) \cup {None}] /\ signed'[m] # None
      /\ \A o \in Messages : signed[o] # None => signed'[o] # None
  BY <1>0, <1>1
<1>3. ReplayLimit[m[1]] \in RouteLimits /\ m[2] \in Ids
  BY MessageKeys DEF RouteLimits
<1>4. /\ call' \in [Slots -> CallRecords]
      /\ call'[s].step = "redis" /\ call'[s].store = None /\ call'[s].clock = 0 /\ call'[s].at = 0
      /\ call'[s].checks = IdentifierChecks(ReplayLimit[m[1]], m[2])
      /\ \A o \in Slots \ {s} : call'[o] = call[o]
  BY <1>3, Beginning
<1>5. /\ req' \in [Slots -> RequestRecords]
      /\ req'[s].msg = m /\ req'[s].step = "replay" /\ req'[s].store = None
      /\ \A o \in Slots \ {s} : req'[o] = req[o]
  BY DEF TypeInv, Types, RequestRecords, Idle
<1>6. Underway(s)'
  BY <1>2, <1>4, <1>5 DEF Underway, LimitOf
<1>7. deliveries' \in 0..MaxDeliveries
  BY InternalRoutesAssumption DEF TypeInv, Types
<1>8. Types'
  BY <1>2, <1>4, <1>5, <1>7 DEF TypeInv, Types
<1>9. SlotsFit'
  BY <1>2, <1>4, <1>5, <1>6, OtherSlots
<1>10. CallTimes'
  BY <1>4, OtherCalls
<1>11. RanFits'
  <2> SUFFICES ASSUME NEW i \in DOMAIN ran PROVE signed'[ran[i].msg] # None
    BY Zenon DEF RanFits
  <2>1. ran[i].msg \in Messages
    BY RunsAreRecords
  <2> QED
    BY <1>2, <2>1 DEF TypeInv, RanFits
<1>12. AttemptTimes'
  BY DEF TypeInv, AttemptTimes
<1> QED
  BY <1>8, <1>9, <1>10, <1>11, <1>12 DEF TypeInv

LEMMA ParseKeepsTypes ==
    ASSUME TypeInv, NEW s \in Slots, ParseSecurityEvent(s)
    PROVE  TypeInv'
<1> USE DEF ParseSecurityEvent, UnchangedAround
<1>0. Underway(s) /\ faults' \in 0..MaxFaults /\ ran' \in Seq(RunRecords) /\ RanFits'
  BY DEF TypeInv, SlotsFit, Idle, Types, RanFits
<1>1. CASE Answer(s)
  BY <1>0, <1>1, AnswerKeepsTypes
<1>2. CASE /\ req' = [req EXCEPT ![s].step = "event", ![s].store = call[s].store, ![s].at = call[s].at]
           /\ Begin(s, IdentifierChecks("event-request", req[s].msg[2]))
  <2>1. req[s].msg[2] \in Ids /\ "event-request" \in RouteLimits
    BY <1>0, MessageKeys DEF Underway, RouteLimits
  <2>2. /\ call' \in [Slots -> CallRecords]
        /\ call'[s].step = "redis" /\ call'[s].store = None /\ call'[s].clock = 0 /\ call'[s].at = 0
        /\ call'[s].checks = IdentifierChecks("event-request", req[s].msg[2])
        /\ \A o \in Slots \ {s} : call'[o] = call[o]
    BY <1>2, <2>1, Beginning
  <2>3. call[s].store \in Stores /\ call[s].at \in Nat
    BY <1>0 DEF Underway, TypeInv, Types, CallRecords
  <2>4. /\ req' \in [Slots -> RequestRecords]
        /\ req'[s].msg = req[s].msg /\ req'[s].step = "event" /\ req'[s].store = call[s].store
        /\ \A o \in Slots \ {s} : req'[o] = req[o]
    BY <1>2, <2>3 DEF TypeInv, Types, RequestRecords
  <2>5. Underway(s)'
    BY <1>0, <2>2, <2>3, <2>4 DEF Underway, LimitOf
  <2>6. Types'
    BY <2>2, <2>4 DEF TypeInv, Types
  <2>7. SlotsFit'
    BY <2>2, <2>4, <2>5, OtherSlots
  <2>8. CallTimes'
    BY <2>2, OtherCalls
  <2>9. AttemptTimes'
    BY DEF TypeInv, AttemptTimes
  <2> QED
    BY <1>0, <2>6, <2>7, <2>8, <2>9 DEF TypeInv
<1> QED
  BY <1>1, <1>2

LEMMA TypeStep == TypeInv /\ [Next]_vars => TypeInv'
<1> SUFFICES ASSUME TypeInv, [Next]_vars PROVE TypeInv'
  OBVIOUS
<1>0. faults \in 0..MaxFaults /\ ran \in Seq(RunRecords) /\ RanFits /\ MaxFaults \in Nat
  BY RateLimitAssumption DEF TypeInv, Types
<1>1. ASSUME NEW s \in Slots, CheckRateLimit(s) /\ UNCHANGED <<signed, req, deliveries, ran>>
      PROVE  TypeInv'
  BY <1>1, CheckKeepsTypes
<1>2. ASSUME NEW s \in Slots, Refuse(s)
      PROVE  TypeInv'
  <2>1. Answer(s) /\ UNCHANGED <<now, attempts, redis, faults, signed, deliveries, ran>> /\ RanFits'
    BY <1>0, <1>2 DEF Refuse, UnchangedAround, RanFits
  <2> QED
    BY <1>0, <2>1, AnswerKeepsTypes
<1>3. ASSUME NEW s \in Slots, NEW m \in Messages, VerifyInternalRequest(s, m)
      PROVE  TypeInv'
  BY <1>3, VerifyKeepsTypes
<1>4. ASSUME NEW s \in Slots, DispatchBatch(s)
      PROVE  TypeInv'
  <2>1. Underway(s) /\ req[s].step # "idle"
    BY <1>4 DEF DispatchBatch, TypeInv, SlotsFit, Idle
  <2>2. call[s].store \in Stores /\ call[s].at \in Nat
    BY <1>4, <2>1 DEF DispatchBatch, Underway, TypeInv, Types, CallRecords
  <2>3. ran' \in Seq(RunRecords) /\ RanFits'
    BY <1>4, <2>1, <2>2, RunIsRecord DEF DispatchBatch
  <2> QED
    BY <1>0, <1>4, <2>3, AnswerKeepsTypes DEF DispatchBatch
<1>5. ASSUME NEW s \in Slots, ParseSecurityEvent(s)
      PROVE  TypeInv'
  BY <1>5, ParseKeepsTypes
<1>6. ASSUME NEW s \in Slots, RecordSecurityEvent(s)
      PROVE  TypeInv'
  <2>1. Underway(s) /\ req[s].step # "idle"
    BY <1>6 DEF RecordSecurityEvent, TypeInv, SlotsFit, Idle
  <2>2. req[s].store \in Stores /\ req[s].at \in Nat
    BY <1>6, <2>1 DEF RecordSecurityEvent, Underway, TypeInv, Types, RequestRecords
  <2>3. ran' \in Seq(RunRecords) /\ RanFits'
    BY <1>6, <2>1, <2>2, RunIsRecord DEF RecordSecurityEvent
  <2> QED
    BY <1>0, <1>6, <2>3, AnswerKeepsTypes DEF RecordSecurityEvent
<1>7. ASSUME NEW s \in Slots, Fail(s)
      PROVE  TypeInv'
  <2>1. faults' \in 0..MaxFaults
    BY <1>0, <1>7 DEF Fail, Fault
  <2>2. Answer(s) /\ UNCHANGED <<now, attempts, redis, signed, deliveries, ran>> /\ RanFits'
    BY <1>0, <1>7 DEF Fail, RanFits
  <2> QED
    BY <1>0, <2>1, <2>2, AnswerKeepsTypes
<1>8. CASE Tick /\ UNCHANGED <<signed, req, deliveries, ran>>
  <2>1. /\ now \in Nat /\ now' = now + 1 /\ now' \in 0..MaxTime /\ MaxDelay \in Nat
        /\ \A s \in Slots : call[s].step \in {"eval", "insert"} => now < call[s].clock + MaxDelay
        /\ UNCHANGED <<attempts, redis, call, faults>>
    BY <1>8, RateLimitAssumption DEF Tick, TypeInv, Types
  <2>2. Types' /\ SlotsFit' /\ RanFits'
    BY <1>8, <2>1 DEF TypeInv, Types, SlotsFit, Underway, LimitOf, RanFits
  <2>3. CallTimes'
    <3> SUFFICES ASSUME NEW s \in Slots
                 PROVE  /\ call[s].clock <= now + 1 /\ call[s].at <= now + 1
                        /\ call[s].step \in {"eval", "insert"} => now + 1 <= call[s].clock + MaxDelay
      BY <2>1, Zenon DEF CallTimes
    <3>1. call[s].clock \in Nat /\ call[s].at \in Nat
      BY DEF TypeInv, Types, CallRecords
    <3> QED
      BY <2>1, <3>1 DEF TypeInv, CallTimes
  <2>4. AttemptTimes'
    <3> SUFFICES ASSUME NEW a \in attempts
                 PROVE  /\ a.score <= a.at /\ a.at <= now + 1
                        /\ (a.store = "redis" /\ a.kept) => a.at <= a.score + MaxDelay
                        /\ (a.store = "redis" /\ ~a.kept) => a.at + Span(a.key) <= now + 1 + MaxDelay
      BY <2>1, Zenon DEF AttemptTimes, Span
    <3>1. a \in AttemptRecords
      BY DEF TypeInv, Types
    <3>2. a.at \in Nat /\ a.score \in Nat /\ Span(a.key) \in Nat
      BY <3>1, KeyNumbers DEF AttemptRecords
    <3> QED
      BY <2>1, <3>2 DEF TypeInv, AttemptTimes
  <2> QED
    BY <2>2, <2>3, <2>4 DEF TypeInv
<1>9. CASE UNCHANGED vars
  BY <1>9 DEF vars, limitVars, TypeInv, Types, SlotsFit, Underway, LimitOf, RanFits, CallTimes,
     AttemptTimes
<1> QED
  BY <1>1, <1>2, <1>3, <1>4, <1>5, <1>6, <1>7, <1>8, <1>9, Zenon DEF Next, Handle
LEMMA TypesHold == Spec => []TypeInv
<1> QED
  BY TypeInit, TypeStep, PTL DEF Spec

\* A request under way has a signed message, and a check under way has a key: the
\* adaptive check of an identifier follows the plain one and nothing follows it
\* (withRateLimitByIdentifier, the POST handlers of the internal routes).
THEOREM TypeCorrect == Spec => []TypeOK
<1>1. TypeInv => TypeOK
  <2> SUFFICES ASSUME TypeInv PROVE TypeOK
    OBVIOUS
  <2>1. LimitTypeOK
    <3>1. ASSUME NEW s \in Slots
          PROVE  /\ call[s].step \in {"none", "redis", "eval", "insert", "allowed", "denied"}
                 /\ call[s].clock \in 0..now /\ call[s].at \in 0..now
                 /\ call[s].step \in {"redis", "eval", "insert"} => call[s].checks # <<>>
      <4>1. call[s] \in CallRecords /\ now \in Nat /\ call[s].clock <= now /\ call[s].at <= now
        BY DEF TypeInv, Types, CallTimes
      <4>2. call[s].clock \in 0..now /\ call[s].at \in 0..now
        BY <4>1 DEF CallRecords
      <4>3. call[s].step \in {"redis", "eval", "insert"} => call[s].checks # <<>>
        BY Checked
      <4> QED
        BY <4>1, <4>2, <4>3 DEF CallRecords
    <3> QED
      BY <3>1 DEF LimitTypeOK, TypeInv, Types, AttemptTimes
  <2>2. signed \in [Messages -> (0..MaxTime) \cup {None}] /\ deliveries \in 0..MaxDeliveries
    BY DEF TypeInv, Types
  <2>3. ASSUME NEW s \in Slots
        PROVE  /\ req[s].step \in {"idle", "replay", "event"}
               /\ req[s].step = "idle" <=> req[s] = Idle
               /\ req[s].step = "idle" <=> call[s] = NoCall
    <3>1. req[s].step \in {"idle", "replay", "event"}
      BY DEF TypeInv, Types, RequestRecords
    <3>2. (req[s] = Idle /\ call[s] = NoCall) \/ (req[s].step # "idle" /\ call[s].step # "none")
      BY DEF TypeInv, SlotsFit, Underway
    <3>3. Idle.step = "idle" /\ NoCall.step = "none"
      BY DEF Idle, NoCall
    <3> QED
      BY <3>1, <3>2, <3>3
  <2>4. ASSUME NEW i \in DOMAIN ran
        PROVE  signed[ran[i].msg] # None /\ ran[i].store \in {"redis", "db"}
    BY RunsAreRecords DEF TypeInv, RanFits, Stores
  <2> QED
    BY <2>1, <2>2, <2>3, <2>4 DEF TypeOK
<1> QED
  BY <1>1, TypesHold, PTL

(***************************************************************************)
(* The limits.  Counted are the attempts in the window that starts at some *)
(* time: it is bounded whichever time that is.                             *)
(***************************************************************************)
InWindow(b, k, store, at) ==
    /\ b.key = k /\ b.store = store /\ at <= b.at
    /\ IF store = "redis" THEN b.at < at + Span(k) - MaxDelay ELSE b.at <= at + Span(k)

Counted(S, k, store, at) == {b \in S : InWindow(b, k, store, at)}

Bounded == \A k \in UsedKeys, store \in Stores, at \in Nat :
              Cardinality(Counted(attempts, k, store, at)) <= Limit(k)

LEMMA CountedTypes ==
    ASSUME NEW S, IsFiniteSet(S), NEW k, NEW store, NEW at
    PROVE  IsFiniteSet(Counted(S, k, store, at)) /\ Cardinality(Counted(S, k, store, at)) \in Nat
<1>1. Counted(S, k, store, at) \subseteq S
  BY DEF Counted
<1> QED
  BY <1>1, FS_Subset, FS_CardinalityType

\* Trimming adds nothing to a window.
LEMMA TrimmedCountsNoMore ==
    ASSUME TypeInv, NEW s \in Slots, NEW k, NEW store, NEW at
    PROVE  Cardinality(Counted(TrimmedNow(s), k, store, at)) <= Cardinality(Counted(attempts, k, store, at))
<1> DEFINE q == CheckedKey(s)
           clock == call[s].clock
           A == Counted(attempts, k, store, at)
           B == Counted(TrimmedNow(s), k, store, at)
           C == {TrimOne(a, q, clock) : a \in A}
           f == [a \in A |-> TrimOne(a, q, clock)]
<1>0. attempts \subseteq AttemptRecords /\ IsFiniteSet(attempts)
  BY DEF TypeInv, Types
<1>1. B \subseteq C
  <2> SUFFICES ASSUME NEW b \in B PROVE b \in C
    OBVIOUS
  <2>1. b \in TrimmedNow(s) /\ InWindow(b, k, store, at)
    BY DEF Counted
  <2>2. PICK a \in attempts : b = TrimOne(a, q, clock)
    BY <2>1, TrimmedIsImage DEF TrimmedNow
  <2>3. b.key = a.key /\ b.store = a.store /\ b.at = a.at
    BY <1>0, <2>2, TrimOneKeeps
  <2>4. a \in A
    BY <2>1, <2>3 DEF Counted, InWindow
  <2> QED
    BY <2>2, <2>4
<1>2. IsFiniteSet(A)
  BY <1>0, CountedTypes
<1>3. f \in Surjection(A, C)
  BY DEF Surjection
<1> HIDE DEF A, B, C, f
<1>4. IsFiniteSet(C) /\ Cardinality(C) <= Cardinality(A)
  BY <1>2, <1>3, FS_Surjection
<1>5. IsFiniteSet(B) /\ Cardinality(B) <= Cardinality(C)
  BY <1>1, <1>4, FS_Subset
<1>6. Cardinality(A) \in Nat /\ Cardinality(B) \in Nat /\ Cardinality(C) \in Nat
  BY <1>2, <1>4, <1>5, FS_CardinalityType
<1> QED
  BY <1>4, <1>5, <1>6 DEF A, B

\* Whatever is counted in a window that has not ended is in sight of the one who
\* counts now, although the clock it counts with is late.
LEMMA InSightOfRedis ==
    ASSUME TypeInv, NEW s \in Slots, call[s].step = "eval", NEW at \in Nat,
           now < at + Span(CheckedKey(s)) - MaxDelay
    PROVE  Counted(attempts, CheckedKey(s), "redis", at) \subseteq Remaining(CheckedKey(s), call[s].clock)
<1> DEFINE k == CheckedKey(s)
           clock == call[s].clock
<1> SUFFICES ASSUME NEW b \in attempts, InWindow(b, k, "redis", at)
             PROVE  b \in Remaining(k, clock)
  BY DEF Counted
<1>0. k \in UsedKeys /\ Span(k) \in Nat /\ MaxDelay \in Nat /\ now \in Nat /\ clock \in Nat /\ clock <= now
  BY Checked, KeyNumbers DEF TypeInv, Types, CallRecords, CallTimes
<1>1. b.key = k /\ b.store = "redis" /\ at <= b.at
  BY DEF InWindow
<1>2. /\ b.at \in Nat /\ b.score \in Nat /\ b.kept \in BOOLEAN
      /\ b.kept => b.at <= b.score + MaxDelay
      /\ ~b.kept => b.at + Span(k) <= now + MaxDelay
  BY <1>1 DEF TypeInv, Types, AttemptRecords, AttemptTimes
<1> HIDE DEF k, clock
<1>3. b.kept
  BY <1>0, <1>1, <1>2 DEF k
<1>4. b \in Members(k)
  BY <1>1, <1>3 DEF Members
<1>5. now < b.at + Span(k) /\ b.score > clock - Span(k)
  BY <1>0, <1>1, <1>2, <1>3 DEF k
<1> QED
  BY <1>4, <1>5 DEF Remaining, Alive

LEMMA InSightOfDatabase ==
    ASSUME TypeInv, NEW s \in Slots, call[s].step = "insert", NEW at \in Nat,
           now <= at + Span(CheckedKey(s))
    PROVE  Counted(attempts, CheckedKey(s), "db", at)
               \subseteq Rows(CheckedKey(s), call[s].clock - Span(CheckedKey(s)))
<1> DEFINE k == CheckedKey(s)
           clock == call[s].clock
<1> SUFFICES ASSUME NEW b \in attempts, InWindow(b, k, "db", at)
             PROVE  b \in Rows(k, clock - Span(k))
  BY DEF Counted
<1>0. Span(k) \in Nat /\ now \in Nat /\ clock \in Nat /\ clock <= now
  BY Checked, KeyNumbers DEF TypeInv, Types, CallRecords, CallTimes
<1>1. b.key = k /\ b.store = "db" /\ at <= b.at /\ b.at \in Nat
  BY DEF InWindow, TypeInv, Types, AttemptRecords
<1> HIDE DEF k, clock
<1>2. b.at >= clock - Span(k)
  BY <1>0, <1>1 DEF k
<1> QED
  BY <1>1, <1>2 DEF Rows
LEMMA CountOneMore ==
    ASSUME NEW S, IsFiniteSet(S), NEW x, NEW k, NEW store, NEW at
    PROVE  /\ ~InWindow(x, k, store, at) => Counted(S \cup {x}, k, store, at) = Counted(S, k, store, at)
           /\ Cardinality(Counted(S \cup {x}, k, store, at)) <= Cardinality(Counted(S, k, store, at)) + 1
<1>1. CASE ~InWindow(x, k, store, at)
  <2>1. Counted(S \cup {x}, k, store, at) = Counted(S, k, store, at)
    BY <1>1 DEF Counted
  <2>2. Cardinality(Counted(S, k, store, at)) \in Nat
    BY CountedTypes
  <2> QED
    BY <2>1, <2>2
<1>2. CASE InWindow(x, k, store, at)
  <2>1. Counted(S \cup {x}, k, store, at) = Counted(S, k, store, at) \cup {x}
    BY <1>2 DEF Counted
  <2>2. IsFiniteSet(Counted(S, k, store, at)) /\ Cardinality(Counted(S, k, store, at)) \in Nat
    BY CountedTypes
  <2>3. Cardinality(Counted(S, k, store, at) \cup {x}) <= Cardinality(Counted(S, k, store, at)) + 1
    BY <2>2, FS_AddElement
  <2> QED
    BY <1>2, <2>1, <2>3
<1> QED
  BY <1>1, <1>2

LEMMA CheckKeepsBounds ==
    ASSUME TypeInv, Bounded, NEW s \in Slots, CheckRateLimit(s)
    PROVE  Bounded'
<1> SUFFICES ASSUME NEW k \in UsedKeys, NEW store \in Stores, NEW at \in Nat
             PROVE  Cardinality(Counted(attempts', k, store, at)) <= Limit(k)
  BY Zenon DEF Bounded, Counted, Limit
<1> DEFINE q == CheckedKey(s)
           before == Cardinality(Counted(attempts, k, store, at))
<1>0. /\ call[s].step \in {"redis", "eval", "insert"}
      /\ NotCounted(s) \/ InRedis(s) \/ InDatabase(s)
      /\ IsFiniteSet(attempts) /\ IsFiniteSet(TrimmedNow(s))
      /\ now \in Nat /\ MaxDelay \in Nat
  <2>1. /\ call[s].step \in {"redis", "eval", "insert"}
        /\ NotCounted(s) \/ InRedis(s) \/ InDatabase(s)
    BY CheckOutcomes, Zenon
  <2>2. attempts \subseteq AttemptRecords /\ IsFiniteSet(attempts) /\ now \in Nat /\ MaxDelay \in Nat
    BY RateLimitAssumption DEF TypeInv, Types
  <2>3. IsFiniteSet(TrimmedNow(s))
    BY <2>2, TrimmedFinite DEF TrimmedNow
  <2> QED
    BY <2>1, <2>2, <2>3
<1>1. before \in Nat /\ Limit(k) \in Nat /\ Span(k) \in Nat /\ before <= Limit(k)
  BY <1>0, CountedTypes, KeyNumbers DEF Bounded
<1>2. /\ Cardinality(Counted(TrimmedNow(s), k, store, at)) <= before
      /\ Cardinality(Counted(TrimmedNow(s), k, store, at)) \in Nat
  BY <1>0, TrimmedCountsNoMore, CountedTypes
<1>3. CASE NotCounted(s)
  BY <1>1, <1>2, <1>3 DEF NotCounted
<1>4. CASE InRedis(s)
  <2> DEFINE x == Attempt(s, "redis")
  <2>1. /\ call[s].step = "eval" /\ attempts' = TrimmedNow(s) \cup {x}
        /\ Cardinality(Remaining(q, call[s].clock)) < Limit(q)
    BY <1>4 DEF InRedis
  <2>2. x.key = q /\ x.store = "redis" /\ x.at = now
    BY <2>1, AttemptIsRecord DEF Stores
  <2> HIDE DEF x
  <2>3. CASE ~InWindow(x, k, store, at)
    <3>1. Counted(attempts', k, store, at) = Counted(TrimmedNow(s), k, store, at)
      BY <1>0, <2>1, <2>3, CountOneMore
    <3> QED
      BY <1>1, <1>2, <3>1
  <2>4. CASE InWindow(x, k, store, at)
    <3>1. k = q /\ store = "redis" /\ now < at + Span(k) - MaxDelay
      BY <2>2, <2>4 DEF InWindow
    <3>2. Counted(attempts, k, store, at) \subseteq Remaining(q, call[s].clock)
      BY <2>1, <3>1, InSightOfRedis
    <3>3. IsFiniteSet(Remaining(q, call[s].clock)) /\ Cardinality(Remaining(q, call[s].clock)) \in Nat
      BY <3>1, CountTypes
    <3>4. before <= Cardinality(Remaining(q, call[s].clock))
      BY <3>2, <3>3, FS_Subset
    <3>5. Cardinality(Counted(attempts', k, store, at)) <= Cardinality(Counted(TrimmedNow(s), k, store, at)) + 1
      BY <1>0, <2>1, CountOneMore
    <3>6. IsFiniteSet(attempts') /\ Cardinality(Counted(attempts', k, store, at)) \in Nat
      BY <1>0, <1>4, AttemptsStay, CountedTypes
    <3> HIDE DEF q, before
    <3> QED
      BY <1>1, <1>2, <2>1, <3>1, <3>3, <3>4, <3>5, <3>6
  <2> QED
    BY <2>3, <2>4
<1>5. CASE InDatabase(s)
  <2> DEFINE x == Attempt(s, "db")
             from == call[s].clock - Span(q)
  <2>1. /\ call[s].step = "insert" /\ attempts' = attempts \cup {x}
        /\ Cardinality(Rows(q, from)) < Limit(q)
    BY <1>5 DEF InDatabase
  <2>2. x.key = q /\ x.store = "db" /\ x.at = now
    BY <2>1, AttemptIsRecord DEF Stores
  <2> HIDE DEF x
  <2>3. CASE ~InWindow(x, k, store, at)
    <3>1. Counted(attempts', k, store, at) = Counted(attempts, k, store, at)
      BY <1>0, <2>1, <2>3, CountOneMore
    <3> QED
      BY <1>1, <3>1
  <2>4. CASE InWindow(x, k, store, at)
    <3>1. k = q /\ store = "db" /\ now <= at + Span(k)
      BY <2>2, <2>4 DEF InWindow
    <3>2. Counted(attempts, k, store, at) \subseteq Rows(q, from)
      BY <2>1, <3>1, InSightOfDatabase
    <3>3. IsFiniteSet(Rows(q, from)) /\ Cardinality(Rows(q, from)) \in Nat
      BY <3>1, CountTypes
    <3>4. before <= Cardinality(Rows(q, from))
      BY <3>2, <3>3, FS_Subset
    <3>5. Cardinality(Counted(attempts', k, store, at)) <= before + 1
      BY <1>0, <2>1, CountOneMore
    <3>6. IsFiniteSet(attempts') /\ Cardinality(Counted(attempts', k, store, at)) \in Nat
      BY <1>0, <1>5, AttemptsStay, CountedTypes
    <3> HIDE DEF q, before, from
    <3> QED
      BY <1>1, <2>1, <3>1, <3>3, <3>4, <3>5, <3>6
  <2> QED
    BY <2>3, <2>4
<1> QED
  BY <1>0, <1>3, <1>4, <1>5

\* Only a check counts.
LEMMA OnlyChecksCount ==
    ASSUME TypeInv, [Next]_vars
    PROVE  attempts' = attempts \/ \E s \in Slots : CheckRateLimit(s) /\ UNCHANGED <<signed, req, deliveries, ran>>
BY Zenon DEF Next, Handle, vars, limitVars, Refuse, UnchangedAround, VerifyInternalRequest, DispatchBatch,
   ParseSecurityEvent, RecordSecurityEvent, Fail, Tick

\* However calls overlap, whichever replies are lost and whenever the counters change
\* place, each of the two counters keeps its limit (checkRateLimit).
THEOREM LimitsAreKept == Spec => []AdmissionsBounded
<1>1. Init => Bounded
  <2> SUFFICES ASSUME Init, NEW k \in UsedKeys, NEW store \in Stores, NEW at \in Nat
               PROVE  Cardinality(Counted(attempts, k, store, at)) <= Limit(k)
    BY Zenon DEF Bounded
  <2>1. Counted(attempts, k, store, at) = {}
    BY DEF Init, LimitInit, Counted
  <2> QED
    BY <2>1, FS_EmptySet, KeyNumbers
<1>2. TypeInv /\ Bounded /\ [Next]_vars => Bounded'
  <2> SUFFICES ASSUME TypeInv, Bounded, [Next]_vars PROVE Bounded'
    OBVIOUS
  <2>1. CASE attempts' = attempts
    BY <2>1 DEF Bounded, Counted, InWindow, Limit, Span
  <2> QED
    BY <2>1, CheckKeepsBounds, OnlyChecksCount
<1>3. TypeInv /\ Bounded => AdmissionsBounded
  <2> SUFFICES ASSUME TypeInv, Bounded, NEW a \in attempts
               PROVE  Cardinality({b \in attempts :
                         /\ b.key = a.key /\ b.store = a.store
                         /\ a.at <= b.at
                         /\ IF a.store = "redis" THEN b.at < a.at + Span(a.key) - MaxDelay
                                                 ELSE b.at <= a.at + Span(a.key)}) <= Limit(a.key)
    BY Zenon DEF AdmissionsBounded
  <2>1. a.key \in UsedKeys /\ a.store \in Stores /\ a.at \in Nat
    BY DEF TypeInv, Types, AttemptRecords
  <2>2. Cardinality(Counted(attempts, a.key, a.store, a.at)) <= Limit(a.key)
    BY <2>1 DEF Bounded
  <2> QED
    BY <2>2 DEF Counted, InWindow
<1> QED
  BY <1>1, <1>2, <1>3, TypesHold, PTL DEF Spec
(***************************************************************************)
(* The replay guard.  A delivery that passed it holds the attempt that was *)
(* counted for it, first in its slot and then in what was run.             *)
(***************************************************************************)
ReplayKey(m) == <<ReplayLimit[m[1]], "plain", m[2]>>

Passed(s) ==
    IF req[s].step = "replay" THEN [store |-> call[s].store, at |-> call[s].at]
                              ELSE [store |-> req[s].store, at |-> req[s].at]

HasPassed(s) == req[s].step # "idle" /\ Passed(s).store \in Stores

Recorded(m, store, at) ==
    \E a \in attempts : a.key = ReplayKey(m) /\ a.store = store /\ a.at = at

Apart(m, t, u) ==
    \/ t.store # u.store
    \/ t.at - u.at >= Window[ReplayLimit[m[1]]] - MaxDelay
    \/ u.at - t.at >= Window[ReplayLimit[m[1]]] - MaxDelay

GuardInv ==
    /\ \A i \in DOMAIN ran : Recorded(ran[i].msg, ran[i].store, ran[i].at)
    /\ \A s \in Slots : HasPassed(s) => Recorded(req[s].msg, Passed(s).store, Passed(s).at)
    /\ \A i, j \in DOMAIN ran : (i # j /\ ran[i].msg = ran[j].msg) => Apart(ran[i].msg, ran[i], ran[j])
    /\ \A i \in DOMAIN ran, s \in Slots :
          (HasPassed(s) /\ req[s].msg = ran[i].msg) => Apart(ran[i].msg, ran[i], Passed(s))
    /\ \A s, o \in Slots :
          (s # o /\ HasPassed(s) /\ HasPassed(o) /\ req[s].msg = req[o].msg)
              => Apart(req[s].msg, Passed(s), Passed(o))

LEMMA PassedTypes ==
    ASSUME TypeInv, NEW s \in Slots
    PROVE  Passed(s).at \in Nat /\ (HasPassed(s) => Underway(s))
BY DEF TypeInv, Types, CallRecords, RequestRecords, Passed, HasPassed, SlotsFit, Idle

\* The limit of one attempt: whoever passes finds no attempt in sight.
LEMMA NobodyInSight ==
    ASSUME TypeInv, NEW s \in Slots, NEW m \in Messages, CheckedKey(s) = ReplayKey(m),
           NEW a \in attempts, a.key = ReplayKey(m),
           (InRedis(s) /\ a.store = "redis") \/ (InDatabase(s) /\ a.store = "db")
    PROVE  now - a.at >= Window[ReplayLimit[m[1]]] - MaxDelay
<1> DEFINE k == ReplayKey(m)
           clock == call[s].clock
<1>0. call[s].step \in {"eval", "insert"}
  BY DEF InRedis, InDatabase
<1>1. ReplayLimit[m[1]] \in RouteLimits /\ k \in UsedKeys /\ Limit(k) = 1 /\ Span(k) = Window[ReplayLimit[m[1]]]
  <2>1. ReplayLimit[m[1]] \in {"dispatch-replay", "event-replay"} /\ m[2] \in Ids
    BY MessageKeys
  <2>2. k \in UsedKeys /\ k[1] = ReplayLimit[m[1]] /\ k[2] = "plain"
    BY <2>1 DEF UsedKeys, RouteLimits, ReplayKey
  <2> QED
    BY <2>1, <2>2, KeyNumbers, InternalRoutesAssumption DEF RouteLimits
<1>2. /\ now \in Nat /\ clock \in Nat /\ clock <= now /\ now <= clock + MaxDelay
      /\ MaxDelay \in Nat /\ Span(k) \in Nat
  BY <1>0, <1>1, KeyNumbers DEF TypeInv, Types, CallTimes, CallRecords
<1>3. /\ a.at \in Nat /\ a.score \in Nat /\ a.kept \in BOOLEAN
      /\ (a.store = "redis" /\ a.kept) => a.at <= a.score + MaxDelay
      /\ (a.store = "redis" /\ ~a.kept) => a.at + Span(k) <= now + MaxDelay
  BY DEF TypeInv, Types, AttemptRecords, AttemptTimes
<1>4. CASE InRedis(s) /\ a.store = "redis"
  <2>1. Cardinality(Remaining(k, clock)) < 1
    BY <1>1, <1>4 DEF InRedis
  <2>2. Remaining(k, clock) = {}
    BY <1>1, <2>1, CountTypes, FS_EmptySet
  <2>3. ~a.kept \/ ~Alive(k) \/ ~(a.score > clock - Span(k))
    BY <1>4, <2>2 DEF Remaining, Members
  <2>4. (a.kept /\ ~Alive(k)) => ~(now < a.at + Span(k))
    BY <1>4 DEF Alive, Members
  <2> HIDE DEF k, clock
  <2> QED
    BY <1>1, <1>2, <1>3, <1>4, <2>3, <2>4
<1>5. CASE InDatabase(s) /\ a.store = "db"
  <2>1. Cardinality(Rows(k, clock - Span(k))) < 1
    BY <1>1, <1>5 DEF InDatabase
  <2>2. Rows(k, clock - Span(k)) = {}
    BY <1>1, <2>1, CountTypes, FS_EmptySet
  <2>3. ~(a.at >= clock - Span(k))
    BY <1>5, <2>2 DEF Rows
  <2> HIDE DEF k, clock
  <2> QED
    BY <1>1, <1>2, <1>3, <2>3
<1> QED
  BY <1>4, <1>5
\* Nobody passes and nothing is run.
LEMMA GuardSame ==
    ASSUME GuardInv, ran' = ran,
           \A a \in attempts : \E b \in attempts' : b.key = a.key /\ b.store = a.store /\ b.at = a.at,
           \A o \in Slots : HasPassed(o)' =>
               HasPassed(o) /\ req'[o].msg = req[o].msg /\ Passed(o)' = Passed(o)
    PROVE  GuardInv'
<1>1. ASSUME NEW m, NEW store, NEW at, Recorded(m, store, at)
      PROVE  Recorded(m, store, at)'
  BY <1>1 DEF Recorded, ReplayKey
<1>2. \A i \in DOMAIN ran' : Recorded(ran[i].msg, ran[i].store, ran[i].at)'
  BY <1>1 DEF GuardInv
<1>3. ASSUME NEW s \in Slots, HasPassed(s)'
      PROVE  Recorded(req[s].msg, Passed(s).store, Passed(s).at)'
  <2>1. Recorded(req[s].msg, Passed(s).store, Passed(s).at)
    BY <1>3 DEF GuardInv
  <2>2. \E b \in attempts' : b.key = ReplayKey(req[s].msg) /\ b.store = Passed(s).store /\ b.at = Passed(s).at
    BY <2>1 DEF Recorded
  <2>3. req'[s].msg = req[s].msg /\ Passed(s)' = Passed(s)
    BY <1>3
  <2> QED
    BY <2>2, <2>3 DEF Recorded, ReplayKey
<1>4. /\ \A i, j \in DOMAIN ran' : (i # j /\ ran'[i].msg = ran'[j].msg) => Apart(ran'[i].msg, ran'[i], ran'[j])
      /\ \A i \in DOMAIN ran', s \in Slots :
            (HasPassed(s)' /\ req'[s].msg = ran'[i].msg) => Apart(ran'[i].msg, ran'[i], Passed(s)')
      /\ \A s, o \in Slots :
            (s # o /\ HasPassed(s)' /\ HasPassed(o)' /\ req'[s].msg = req'[o].msg)
                => Apart(req'[s].msg, Passed(s)', Passed(o)')
  BY DEF GuardInv
<1> QED
  BY <1>2, <1>3, <1>4, Zenon DEF GuardInv, Apart

\* One more slot passes.
LEMMA GuardPasses ==
    ASSUME TypeInv, TypeInv', GuardInv, NEW s \in Slots, NEW m \in Messages, ran' = ran, now' = now,
           \A a \in attempts : \E b \in attempts' : b.key = a.key /\ b.store = a.store /\ b.at = a.at,
           \A o \in Slots \ {s} : HasPassed(o)' =>
               HasPassed(o) /\ req'[o].msg = req[o].msg /\ Passed(o)' = Passed(o),
           req'[s].msg = m, Passed(s)'.at = now,
           \A a \in attempts : (a.key = ReplayKey(m) /\ a.store = Passed(s)'.store)
               => now - a.at >= Window[ReplayLimit[m[1]]] - MaxDelay,
           \E b \in attempts' : b.key = ReplayKey(m) /\ b.store = Passed(s)'.store /\ b.at = now
    PROVE  GuardInv'
<1>1. ASSUME NEW q, NEW store, NEW at, Recorded(q, store, at)
      PROVE  \E b \in attempts' : b.key = ReplayKey(q) /\ b.store = store /\ b.at = at
  BY <1>1 DEF Recorded
<1>2. ASSUME NEW t, t.store \in Stores, Recorded(m, t.store, t.at)
      PROVE  Apart(m, t, Passed(s)') /\ Apart(m, Passed(s)', t)
  <2>1. t.store = Passed(s)'.store => now - t.at >= Window[ReplayLimit[m[1]]] - MaxDelay
    BY <1>2 DEF Recorded
  <2> QED
    BY <2>1 DEF Apart
<1>3. ASSUME NEW i \in DOMAIN ran'
      PROVE  Recorded(ran[i].msg, ran[i].store, ran[i].at)'
  <2>1. Recorded(ran[i].msg, ran[i].store, ran[i].at)
    BY DEF GuardInv
  <2>2. \E b \in attempts' : b.key = ReplayKey(ran[i].msg) /\ b.store = ran[i].store /\ b.at = ran[i].at
    BY <1>1, <2>1
  <2> QED
    BY <2>2 DEF Recorded, ReplayKey
<1>4. ASSUME NEW o \in Slots, HasPassed(o)'
      PROVE  Recorded(req[o].msg, Passed(o).store, Passed(o).at)'
  <2>1. CASE o = s
    BY <2>1 DEF Recorded, ReplayKey
  <2>2. CASE o # s
    <3>1. HasPassed(o) /\ req'[o].msg = req[o].msg /\ Passed(o)' = Passed(o)
      BY <1>4, <2>2
    <3>2. \E b \in attempts' : b.key = ReplayKey(req[o].msg) /\ b.store = Passed(o).store /\ b.at = Passed(o).at
      BY <1>1, <3>1 DEF GuardInv
    <3> QED
      BY <3>1, <3>2 DEF Recorded, ReplayKey
  <2> QED
    BY <2>1, <2>2
<1>5. \A i, j \in DOMAIN ran' : (i # j /\ ran'[i].msg = ran'[j].msg) => Apart(ran'[i].msg, ran'[i], ran'[j])
  BY DEF GuardInv
<1>6. ASSUME NEW i \in DOMAIN ran', NEW o \in Slots, HasPassed(o)', req'[o].msg = ran'[i].msg
      PROVE  Apart(ran'[i].msg, ran'[i], Passed(o)')
  <2>1. CASE o = s
    <3>1. ran[i].msg = m /\ ran[i].store \in Stores
      BY <1>6, <2>1, RunsAreRecords
    <3>2. Recorded(m, ran[i].store, ran[i].at)
      BY <3>1 DEF GuardInv
    <3> QED
      BY <1>2, <2>1, <3>1, <3>2
  <2>2. CASE o # s
    BY <1>6, <2>2 DEF GuardInv
  <2> QED
    BY <2>1, <2>2
<1>7. ASSUME NEW o \in Slots, o # s, HasPassed(o)', req'[o].msg = m
      PROVE  Apart(m, Passed(s)', Passed(o)') /\ Apart(m, Passed(o)', Passed(s)')
  <2>1. HasPassed(o) /\ req[o].msg = m /\ Passed(o)' = Passed(o)
    BY <1>7
  <2>2. Passed(o).store \in Stores /\ Recorded(m, Passed(o).store, Passed(o).at)
    BY <2>1 DEF GuardInv, HasPassed
  <2> QED
    BY <1>2, <2>1, <2>2
<1>8. ASSUME NEW o \in Slots, NEW p \in Slots, o # p, HasPassed(o)', HasPassed(p)', req'[o].msg = req'[p].msg
      PROVE  Apart(req'[o].msg, Passed(o)', Passed(p)')
  <2>1. CASE o = s
    BY <1>7, <1>8, <2>1
  <2>2. CASE p = s
    BY <1>7, <1>8, <2>2
  <2>3. CASE o # s /\ p # s
    BY <1>8, <2>3 DEF GuardInv
  <2> QED
    BY <2>1, <2>2, <2>3
<1> QED
  BY <1>3, <1>4, <1>5, <1>6, <1>8, Zenon DEF GuardInv, Apart

\* What a slot holds goes into what was run.
LEMMA GuardRuns ==
    ASSUME TypeInv, GuardInv, NEW s \in Slots, HasPassed(s), attempts' = attempts, UNCHANGED signed,
           Run(req[s].msg, Passed(s).store, Passed(s).at), ~HasPassed(s)',
           \A o \in Slots \ {s} : HasPassed(o)' =>
               HasPassed(o) /\ req'[o].msg = req[o].msg /\ Passed(o)' = Passed(o)
    PROVE  GuardInv'
<1> DEFINE n == Len(ran)
           r == [msg |-> req[s].msg, store |-> Passed(s).store, at |-> Passed(s).at]
<1>1. /\ n \in Nat /\ DOMAIN ran = 1..n /\ DOMAIN ran' = 1..(n + 1)
      /\ \A i \in 1..n : ran'[i] = ran[i]
      /\ ran'[n + 1] = r
  <2>1. Passed(s).store \in Stores /\ Passed(s).at \in Nat /\ req[s].step # "idle"
    BY PassedTypes DEF HasPassed
  <2> QED
    BY <2>1, RunIsRecord
<1>2. r.msg = req[s].msg /\ r.store = Passed(s).store /\ r.at = Passed(s).at
  OBVIOUS
<1> HIDE DEF n, r
<1>3. \A i \in DOMAIN ran' : Recorded(ran'[i].msg, ran'[i].store, ran'[i].at)
  <2> SUFFICES ASSUME NEW i \in DOMAIN ran' PROVE Recorded(ran'[i].msg, ran'[i].store, ran'[i].at)
    OBVIOUS
  <2>1. CASE i \in 1..n
    BY <1>1, <2>1 DEF GuardInv
  <2>2. CASE i = n + 1
    <3>1. Recorded(req[s].msg, Passed(s).store, Passed(s).at)
      BY DEF GuardInv
    <3> QED
      BY <1>1, <1>2, <2>2, <3>1
  <2> QED
    BY <1>1, <2>1, <2>2
<1>4. ASSUME NEW i \in 1..n, ran[i].msg = req[s].msg
      PROVE  Apart(req[s].msg, ran[i], r) /\ Apart(req[s].msg, r, ran[i])
  <2>1. Apart(ran[i].msg, ran[i], Passed(s))
    BY <1>1, <1>4 DEF GuardInv
  <2> QED
    BY <1>2, <1>4, <2>1 DEF Apart
<1>5. ASSUME NEW i \in DOMAIN ran', NEW j \in DOMAIN ran', i # j, ran'[i].msg = ran'[j].msg
      PROVE  Apart(ran'[i].msg, ran'[i], ran'[j])
  <2>1. CASE i \in 1..n /\ j \in 1..n
    BY <1>1, <1>5, <2>1 DEF GuardInv
  <2>2. CASE i = n + 1 /\ j \in 1..n
    BY <1>1, <1>2, <1>4, <1>5, <2>2
  <2>3. CASE i \in 1..n /\ j = n + 1
    BY <1>1, <1>2, <1>4, <1>5, <2>3
  <2> QED
    BY <1>1, <1>5, <2>1, <2>2, <2>3
<1>6. ASSUME NEW i \in DOMAIN ran', NEW o \in Slots, HasPassed(o)', req'[o].msg = ran'[i].msg
      PROVE  Apart(ran'[i].msg, ran'[i], Passed(o)')
  <2>0. o # s /\ HasPassed(o) /\ req'[o].msg = req[o].msg /\ Passed(o)' = Passed(o)
    BY <1>6
  <2>1. CASE i \in 1..n
    BY <1>1, <1>6, <2>0, <2>1 DEF GuardInv
  <2>2. CASE i = n + 1
    <3>1. ran'[i] = r /\ req[o].msg = req[s].msg
      BY <1>1, <1>2, <1>6, <2>0, <2>2
    <3>2. Apart(req[s].msg, Passed(s), Passed(o))
      BY <2>0, <3>1 DEF GuardInv
    <3> QED
      BY <1>2, <2>0, <3>1, <3>2 DEF Apart
  <2> QED
    BY <1>1, <2>1, <2>2
<1>7. \A o \in Slots : HasPassed(o)' => Recorded(req'[o].msg, Passed(o)'.store, Passed(o)'.at)
  BY DEF GuardInv
<1>8. \A o, p \in Slots : (o # p /\ HasPassed(o)' /\ HasPassed(p)' /\ req'[o].msg = req'[p].msg)
                             => Apart(req'[o].msg, Passed(o)', Passed(p)')
  BY DEF GuardInv
<1> QED
  BY <1>3, <1>5, <1>6, <1>7, <1>8, Zenon DEF GuardInv, Apart, Recorded, ReplayKey
LEMMA NotPassedIdle ==
    ASSUME TypeInv, NEW s \in Slots, Answer(s)
    PROVE  /\ ~HasPassed(s)'
           /\ \A o \in Slots \ {s} : HasPassed(o)' =>
                  HasPassed(o) /\ req'[o].msg = req[o].msg /\ Passed(o)' = Passed(o)
BY Answering DEF HasPassed, Passed, Idle

LEMMA CheckKeepsGuard ==
    ASSUME TypeInv, GuardInv, NEW s \in Slots, CheckRateLimit(s), UNCHANGED <<signed, req, deliveries, ran>>
    PROVE  GuardInv'
<1>0. TypeInv'
  BY CheckKeepsTypes
<1>1. /\ call[s].step \in {"redis", "eval", "insert"} /\ now' = now
      /\ NotCounted(s) \/ InRedis(s) \/ InDatabase(s)
      /\ Held(s) \/ (Allowed(s, "redis") /\ InRedis(s)) \/ (Allowed(s, "db") /\ InDatabase(s))
  BY CheckOutcomes, Zenon
<1>2. \A a \in attempts : \E b \in attempts' : b.key = a.key /\ b.store = a.store /\ b.at = a.at
  BY <1>1, AttemptsStay
<1>3. Underway(s) /\ call \in [Slots -> CallRecords] /\ call[s] \in CallRecords
  BY <1>1, Checked DEF TypeInv, Types
<1>4. CASE Held(s)
  <2>1. /\ call'[s].store = call[s].store /\ call'[s].at = call[s].at
        /\ \A o \in Slots \ {s} : call'[o] = call[o]
    BY <1>3, <1>4 DEF Held, CallRecords
  <2>2. \A o \in Slots : HasPassed(o)' =>
            HasPassed(o) /\ req'[o].msg = req[o].msg /\ Passed(o)' = Passed(o)
    BY <2>1 DEF HasPassed, Passed
  <2> QED
    BY <1>2, <2>2, GuardSame
<1>5. ASSUME NEW store \in Stores, Allowed(s, store), call[s].step \in {"eval", "insert"},
             (store = "redis" /\ InRedis(s)) \/ (store = "db" /\ InDatabase(s))
      PROVE  GuardInv'
  <2>1. /\ \A o \in Slots \ {s} : call'[o] = call[o]
        /\ call[s].store # None => call'[s].store = call[s].store /\ call'[s].at = call[s].at
        /\ call[s].store = None => call'[s].store = store /\ call'[s].at = now
    BY <1>1, <1>5, AllowedFits
  <2>2. \A o \in Slots \ {s} : HasPassed(o)' =>
            HasPassed(o) /\ req'[o].msg = req[o].msg /\ Passed(o)' = Passed(o)
    BY <2>1 DEF HasPassed, Passed
  <2>3. CASE call[s].store # None \/ req[s].step # "replay"
    <3>1. HasPassed(s)' => HasPassed(s) /\ req'[s].msg = req[s].msg /\ Passed(s)' = Passed(s)
      BY <2>1, <2>3 DEF HasPassed, Passed
    <3> QED
      BY <1>2, <2>2, <3>1, GuardSame
  <2>4. CASE call[s].store = None /\ req[s].step = "replay"
    <3> DEFINE m == req[s].msg
    <3>1. m \in Messages /\ CheckedKey(s) = ReplayKey(m)
      BY <1>3, <2>4 DEF Underway, CheckedKey, LimitOf, ReplayKey
    <3>2. Passed(s)' = [store |-> store, at |-> now]
      BY <2>1, <2>4 DEF Passed
    <3>3. \A a \in attempts : (a.key = ReplayKey(m) /\ a.store = store)
              => now - a.at >= Window[ReplayLimit[m[1]]] - MaxDelay
      BY <1>5, <3>1, NobodyInSight
    <3>4. Attempt(s, store) \in attempts' /\ Attempt(s, store).key = ReplayKey(m)
          /\ Attempt(s, store).store = store /\ Attempt(s, store).at = now
      BY <1>1, <1>5, <3>1, AttemptsStay, AttemptIsRecord
    <3> HIDE DEF m
    <3>5. req'[s].msg = m
      BY DEF m
    <3>6. Passed(s)'.store = store /\ Passed(s)'.at = now
      BY <3>2
    <3>7. \E b \in attempts' : b.key = ReplayKey(m) /\ b.store = Passed(s)'.store /\ b.at = now
      BY <3>4, <3>6
    <3>8. \A a \in attempts : (a.key = ReplayKey(m) /\ a.store = Passed(s)'.store)
              => now - a.at >= Window[ReplayLimit[m[1]]] - MaxDelay
      BY <3>3, <3>6
    <3> QED
      BY <1>0, <1>1, <1>2, <2>2, <3>1, <3>5, <3>6, <3>7, <3>8, GuardPasses
  <2> QED
    BY <2>3, <2>4
<1>6. InRedis(s) => call[s].step = "eval"
  BY DEF InRedis
<1>7. InDatabase(s) => call[s].step = "insert"
  BY DEF InDatabase
<1> QED
  BY <1>1, <1>4, <1>5, <1>6, <1>7 DEF Stores

LEMMA GuardStep == TypeInv /\ GuardInv /\ [Next]_vars => GuardInv'
<1> SUFFICES ASSUME TypeInv, GuardInv, [Next]_vars PROVE GuardInv'
  OBVIOUS
<1>0. attempts' = attempts =>
          \A a \in attempts : \E b \in attempts' : b.key = a.key /\ b.store = a.store /\ b.at = a.at
  OBVIOUS
<1>1. ASSUME NEW s \in Slots, CheckRateLimit(s) /\ UNCHANGED <<signed, req, deliveries, ran>>
      PROVE  GuardInv'
  BY <1>1, CheckKeepsGuard
<1>2. ASSUME NEW s \in Slots, Refuse(s) \/ Fail(s)
      PROVE  GuardInv'
  <2>1. Answer(s) /\ attempts' = attempts /\ ran' = ran
    BY <1>2 DEF Refuse, Fail, UnchangedAround
  <2> QED
    BY <1>0, <2>1, NotPassedIdle, GuardSame
<1>3. ASSUME NEW s \in Slots, NEW m \in Messages, VerifyInternalRequest(s, m)
      PROVE  GuardInv'
  <2> USE DEF VerifyInternalRequest, CheckReplay
  <2>1. ReplayLimit[m[1]] \in RouteLimits /\ m[2] \in Ids
    BY MessageKeys DEF RouteLimits
  <2>2. call'[s].store = None /\ \A o \in Slots \ {s} : call'[o] = call[o]
    BY <1>3, <2>1, Beginning
  <2>3. req'[s].step = "replay" /\ \A o \in Slots \ {s} : req'[o] = req[o]
    BY <1>3 DEF TypeInv, Types
  <2>4. None \notin Stores
    BY RateLimitAssumption DEF Stores
  <2>5. \A o \in Slots : HasPassed(o)' =>
            HasPassed(o) /\ req'[o].msg = req[o].msg /\ Passed(o)' = Passed(o)
    BY <2>2, <2>3, <2>4 DEF HasPassed, Passed
  <2>6. attempts' = attempts /\ ran' = ran
    BY <1>3
  <2> QED
    BY <1>0, <2>5, <2>6, GuardSame
<1>4. ASSUME NEW s \in Slots, DispatchBatch(s) \/ RecordSecurityEvent(s)
      PROVE  GuardInv'
  <2>1. Underway(s) /\ Answer(s) /\ attempts' = attempts /\ signed' = signed
    BY <1>4 DEF TypeInv, SlotsFit, Idle, DispatchBatch, RecordSecurityEvent
  <2>2. HasPassed(s) /\ Run(req[s].msg, Passed(s).store, Passed(s).at)
    BY <1>4, <2>1 DEF DispatchBatch, RecordSecurityEvent, Underway, HasPassed, Passed
  <2> QED
    BY <2>1, <2>2, NotPassedIdle, GuardRuns
<1>5. ASSUME NEW s \in Slots, ParseSecurityEvent(s)
      PROVE  GuardInv'
  <2>0. Underway(s) /\ req[s].step = "replay" /\ call[s].step = "allowed" /\ attempts' = attempts /\ ran' = ran
    BY <1>5 DEF TypeInv, SlotsFit, Idle, ParseSecurityEvent, UnchangedAround
  <2>1. CASE Answer(s)
    BY <1>0, <2>0, <2>1, NotPassedIdle, GuardSame
  <2>2. CASE /\ req' = [req EXCEPT ![s].step = "event", ![s].store = call[s].store, ![s].at = call[s].at]
             /\ Begin(s, IdentifierChecks("event-request", req[s].msg[2]))
    <3>1. /\ req'[s].msg = req[s].msg /\ req'[s].step = "event" /\ req'[s].store = call[s].store
          /\ req'[s].at = call[s].at
          /\ \A o \in Slots \ {s} : req'[o] = req[o]
      BY <2>2 DEF TypeInv, Types, RequestRecords
    <3>2. \A o \in Slots \ {s} : call'[o] = call[o]
      BY <2>2 DEF Begin, TypeInv, Types
    <3>3. \A o \in Slots : HasPassed(o)' =>
              HasPassed(o) /\ req'[o].msg = req[o].msg /\ Passed(o)' = Passed(o)
      BY <2>0, <3>1, <3>2 DEF HasPassed, Passed, Underway
    <3> QED
      BY <1>0, <2>0, <3>3, GuardSame
  <2> QED
    BY <1>5, <2>1, <2>2 DEF ParseSecurityEvent
<1>6. CASE UNCHANGED <<attempts, call, req, ran>>
  BY <1>0, <1>6, GuardSame DEF HasPassed, Passed
<1>7. Tick /\ UNCHANGED <<signed, req, deliveries, ran>> => UNCHANGED <<attempts, call, req, ran>>
  BY DEF Tick
<1>8. UNCHANGED vars => UNCHANGED <<attempts, call, req, ran>>
  BY DEF vars, limitVars
<1> QED
  BY <1>1, <1>2, <1>3, <1>4, <1>5, <1>6, <1>7, <1>8, Zenon DEF Next, Handle

\* "single-use replay window via identifier limiter" (CHANGELOG.md:1791): two of the
\* deliveries of one signed request run only a window apart, but for the delay of a
\* call, or under different counters (DispatchBatch, RecordSecurityEvent).
THEOREM RunOncePerWindow == Spec => []OneRunPerWindow
<1>1. Init => GuardInv
  BY DEF Init, LimitInit, GuardInv, HasPassed, Idle
<1>2. TypeInv /\ GuardInv => OneRunPerWindow
  <2> SUFFICES ASSUME TypeInv, GuardInv, NEW i \in DOMAIN ran, NEW j \in DOMAIN ran, i < j, ran[i].msg = ran[j].msg
               PROVE  \/ ran[i].store # ran[j].store
                      \/ ran[j].at - ran[i].at >= Window[ReplayLimit[ran[i].msg[1]]] - MaxDelay
                      \/ ran[i].at - ran[j].at >= Window[ReplayLimit[ran[i].msg[1]]] - MaxDelay
    BY Zenon DEF OneRunPerWindow
  <2>1. i # j
    BY RunsAreRecords
  <2> QED
    BY <2>1 DEF GuardInv, Apart
<1> QED
  BY <1>1, <1>2, GuardStep, TypesHold, PTL DEF Spec
(***************************************************************************)
(* While nothing fails, an attempt of the replay limit of a dispatch is    *)
(* that of a delivery which ran or goes on to run.  The adaptive limit is  *)
(* counted last, so that its attempts are those of deliveries let through. *)
(***************************************************************************)
LetThrough(m) ==
    \/ \E i \in DOMAIN ran : ran[i].msg = m
    \/ \E o \in Slots : req[o].msg = m /\ req[o].step = "replay" /\ call[o].step = "allowed"

OnItsWay(m) ==
    \E o \in Slots : /\ req[o].msg = m /\ req[o].step = "replay"
                     /\ call[o].store \in Stores /\ call[o].step # "denied"

Explained(m) == LetThrough(m) \/ OnItsWay(m)

Dispatches == {m \in Messages : m[1] = "dispatch"}

ExplainInv ==
    faults = 0 =>
        /\ \A m \in Dispatches : \A a \in attempts :
              /\ a.key = <<"dispatch-replay", "plain", m[2]>> => Explained(m)
              /\ a.key = <<"dispatch-replay", "id-device", m[2]>> => LetThrough(m)
        /\ \A s \in Slots :
              (req[s].step = "replay" /\ req[s].msg \in Dispatches /\ call[s].step = "denied")
                  => Explained(req[s].msg)

LEMMA DispatchKeys ==
    ASSUME NEW m \in Dispatches
    PROVE  ReplayLimit[m[1]] = "dispatch-replay" /\ m \in Messages /\ m[2] \in Ids /\ m = <<"dispatch", m[2]>>
BY MessageKeys, InternalRoutesAssumption DEF Dispatches

\* An attempt under a key of the dispatches is refused or counted for a delivery of
\* the same request.
LEMMA KeyTellsMessage ==
    ASSUME TypeInv, NEW s \in Slots, call[s].step \in {"redis", "eval", "insert"}, NEW m \in Dispatches,
           CheckedKey(s)[1] = "dispatch-replay", CheckedKey(s)[3] = m[2]
    PROVE  req[s].step = "replay" /\ req[s].msg = m
<1>1. Underway(s) /\ req[s] \in RequestRecords
  BY Checked DEF TypeInv, Types
<1>2. LimitOf(s) = "dispatch-replay" /\ req[s].msg[2] = m[2]
  BY DEF CheckedKey
<1>3. req[s].step # "event"
  BY <1>2 DEF LimitOf
<1>4. req[s].step = "replay" /\ ReplayLimit[req[s].msg[1]] = "dispatch-replay"
  BY <1>1, <1>2, <1>3 DEF Underway, LimitOf, RequestRecords
<1>5. req[s].msg[1] = "dispatch" /\ req[s].msg = <<req[s].msg[1], req[s].msg[2]>>
  BY <1>1, <1>4, MessageKeys, InternalRoutesAssumption DEF Underway
<1>6. req[s].msg \in Dispatches
  BY <1>1, <1>5 DEF Dispatches, Underway
<1> QED
  BY <1>2, <1>4, <1>5, DispatchKeys

\* A full window has an attempt under its key.
LEMMA FullHasAttempt ==
    ASSUME TypeInv, NEW s \in Slots, call[s].step \in {"redis", "eval", "insert"}, Full(s)
    PROVE  \E a \in attempts : a.key = CheckedKey(s)
<1> DEFINE k == CheckedKey(s)
           R == Remaining(k, call[s].clock)
           D == Rows(k, call[s].clock - Span(k))
<1>1. /\ Cardinality(R) \in Nat /\ Cardinality(D) \in Nat /\ IsFiniteSet(R) /\ IsFiniteSet(D)
      /\ Limit(k) \in Nat \ {0}
      /\ Cardinality(R) >= Limit(k) \/ Cardinality(D) >= Limit(k)
  <2>1. k \in UsedKeys
    BY Checked
  <2>2. Cardinality(R) >= Limit(k) \/ Cardinality(D) >= Limit(k)
    BY DEF Full
  <2> QED
    BY <2>1, <2>2, CountTypes
<1>2. R # {} \/ D # {}
  <2> HIDE DEF k, R, D
  <2>1. R = {} => Cardinality(R) = 0
    BY FS_EmptySet
  <2>2. D = {} => Cardinality(D) = 0
    BY FS_EmptySet
  <2> QED
    BY <1>1, <2>1, <2>2
<1> QED
  BY <1>2 DEF Remaining, Rows, Members
\* Enough for a step: what was explained stays so, and what is new is explained.
LEMMA ExplainKept ==
    ASSUME TypeInv, ExplainInv, faults' = 0 => faults = 0,
           ASSUME NEW m \in Dispatches, faults' = 0, LetThrough(m) PROVE LetThrough(m)',
           ASSUME NEW m \in Dispatches, faults' = 0, OnItsWay(m) PROVE Explained(m)',
           ASSUME NEW m \in Dispatches, faults' = 0, NEW b \in attempts',
                  b.key \in {<<"dispatch-replay", "plain", m[2]>>, <<"dispatch-replay", "id-device", m[2]>>}
           PROVE  \/ \E a \in attempts : a.key = b.key
                  \/ LetThrough(m)'
                  \/ b.key = <<"dispatch-replay", "plain", m[2]>> /\ Explained(m)',
           ASSUME NEW s \in Slots, faults' = 0, req'[s].step = "replay", req'[s].msg \in Dispatches,
                  call'[s].step = "denied"
           PROVE  Explained(req'[s].msg)
    PROVE  ExplainInv'
<1> SUFFICES ASSUME faults' = 0 PROVE ExplainInv'
  BY Zenon DEF ExplainInv
<1>0. faults = 0
  OBVIOUS
<1>1. ASSUME NEW m \in Dispatches, Explained(m) PROVE Explained(m)'
  BY <1>1, Zenon DEF Explained
<1>2. ASSUME NEW m \in Dispatches, NEW b \in attempts'
      PROVE  /\ b.key = <<"dispatch-replay", "plain", m[2]>> => Explained(m)'
             /\ b.key = <<"dispatch-replay", "id-device", m[2]>> => LetThrough(m)'
  <2>1. CASE b.key = <<"dispatch-replay", "plain", m[2]>>
    <3>1. b.key # <<"dispatch-replay", "id-device", m[2]>>
      BY <2>1
    <3>2. (\E a \in attempts : a.key = b.key) => Explained(m)
      BY <1>0, <2>1 DEF ExplainInv
    <3>3. LetThrough(m)' => Explained(m)'
      BY DEF Explained
    <3> QED
      BY <1>1, <2>1, <3>1, <3>2, <3>3
  <2>2. CASE b.key = <<"dispatch-replay", "id-device", m[2]>>
    <3>1. b.key # <<"dispatch-replay", "plain", m[2]>>
      BY <2>2
    <3>2. (\E a \in attempts : a.key = b.key) => LetThrough(m)
      BY <1>0, <2>2 DEF ExplainInv
    <3> QED
      BY <2>2, <3>1, <3>2
  <2> QED
    BY <2>1, <2>2
<1>3. ASSUME NEW s \in Slots, req'[s].step = "replay", req'[s].msg \in Dispatches, call'[s].step = "denied"
      PROVE  Explained(req[s].msg)'
  BY <1>1, <1>3 DEF Explained, LetThrough, OnItsWay
<1> QED
  BY <1>2, <1>3 DEF ExplainInv, Dispatches

LEMMA CheckKeepsExplained ==
    ASSUME TypeInv, ExplainInv, NEW s \in Slots, CheckRateLimit(s), UNCHANGED <<signed, req, deliveries, ran>>,
           faults' = 0
    PROVE  ExplainInv'
<1>0. /\ call[s].step \in {"redis", "eval", "insert"}
      /\ faults = 0
      /\ \/ Allowed(s, "redis") /\ InRedis(s)
         \/ Allowed(s, "db") /\ InDatabase(s)
         \/ Held(s) /\ NotCounted(s) /\ (call'[s].step # "denied" \/ Full(s))
  <2>1. faults \in Nat
    BY DEF TypeInv, Types
  <2>2. faults' = faults \/ (faults \in 0..(MaxFaults - 1) /\ faults' = faults + 1)
    BY CheckOutcomes, Zenon
  <2>3. faults' # faults + 1
    BY <2>1
  <2> QED
    BY <2>2, <2>3, CheckOutcomes, Zenon
<1>1. /\ Underway(s) /\ call[s] \in CallRecords /\ call \in [Slots -> CallRecords]
      /\ CheckedKey(s) \in UsedKeys
  BY <1>0, Checked DEF TypeInv, Types
<1>2. \A o \in Slots \ {s} : call'[o] = call[o]
  BY <1>0, <1>1 DEF Allowed, Held
<1>3. \A m : LetThrough(m) => LetThrough(m)'
  BY <1>0, <1>2 DEF LetThrough
<1>4. CASE Held(s) /\ NotCounted(s) /\ (call'[s].step # "denied" \/ Full(s))
  <2>1. call'[s].store = call[s].store
    BY <1>1, <1>4 DEF Held, CallRecords
  <2>2. \A b \in attempts' : \E a \in attempts : a.key = b.key
    <3> SUFFICES ASSUME NEW b \in attempts' PROVE \E a \in attempts : a.key = b.key
      OBVIOUS
    <3>1. CASE b \in attempts
      BY <3>1
    <3>2. CASE b \in TrimmedNow(s)
      <4>1. PICK a \in attempts : b = TrimOne(a, CheckedKey(s), call[s].clock)
        BY <3>2, TrimmedIsImage DEF TrimmedNow
      <4>2. b.key = a.key
        BY <4>1, TrimOneKeeps DEF TypeInv, Types
      <4> QED
        BY <4>2
    <3> QED
      BY <1>4, <3>1, <3>2 DEF NotCounted
  <2>3. ASSUME Full(s), req[s].step = "replay", req[s].msg \in Dispatches
        PROVE  IF call[s].store = None THEN Explained(req[s].msg) ELSE LetThrough(req[s].msg)
    <3>1. PICK a \in attempts : a.key = CheckedKey(s)
      BY <1>0, <2>3, FullHasAttempt
    <3>2. LimitOf(s) = "dispatch-replay"
      BY <2>3, DispatchKeys DEF LimitOf
    <3> QED
      BY <1>0, <2>3, <3>1, <3>2 DEF CheckedKey, ExplainInv
  <2>4. None \notin Stores
    BY RateLimitAssumption DEF Stores
  <2>5. ASSUME NEW m \in Dispatches, NEW o \in Slots, o # s, req[o].msg = m, req[o].step = "replay",
               call[o].store \in Stores, call[o].step # "denied"
        PROVE  Explained(m)'
    BY <1>2, <2>5 DEF Explained, OnItsWay
  <2>6. ASSUME NEW m \in Dispatches, OnItsWay(m)
        PROVE  Explained(m)'
    <3>1. PICK o \in Slots : /\ req[o].msg = m /\ req[o].step = "replay"
                             /\ call[o].store \in Stores /\ call[o].step # "denied"
      BY <2>6 DEF OnItsWay
    <3>2. CASE o # s
      BY <2>5, <3>1, <3>2
    <3>3. CASE o = s /\ call'[s].step # "denied"
      BY <2>1, <3>1, <3>3 DEF Explained, OnItsWay
    <3>4. CASE o = s /\ Full(s)
      <4>1. LetThrough(m)
        BY <2>3, <2>4, <3>1, <3>4
      <4> QED
        BY <1>3, <4>1 DEF Explained
    <3> QED
      BY <1>4, <3>2, <3>3, <3>4
  <2>7. ASSUME NEW o \in Slots, req'[o].step = "replay", req'[o].msg \in Dispatches, call'[o].step = "denied"
        PROVE  Explained(req'[o].msg)
    <3>1. CASE o # s
      BY <1>0, <1>2, <2>7, <3>1 DEF ExplainInv
    <3>2. CASE o = s
      BY <1>4, <2>3, <2>7, <3>2 DEF Explained
    <3> QED
      BY <3>1, <3>2
  <2> QED
    BY <1>0, <1>3, <2>2, <2>6, <2>7, ExplainKept
<1>5. ASSUME NEW store \in Stores, Allowed(s, store), call[s].step \in {"eval", "insert"},
             (store = "redis" /\ InRedis(s)) \/ (store = "db" /\ InDatabase(s))
      PROVE  ExplainInv'
  <2>1. /\ call'[s].store \in Stores /\ call'[s].step \in {"redis", "allowed"}
        /\ call[s].store # None => call'[s].step = "allowed"
    BY <1>5, CheckOutcomes, AllowedFits
  <2>2. ASSUME NEW m \in Dispatches, OnItsWay(m)
        PROVE  Explained(m)'
    <3>1. OnItsWay(m)'
      BY <1>2, <2>1, <2>2 DEF OnItsWay
    <3> QED
      BY <3>1 DEF Explained
  <2>3. ASSUME NEW m \in Dispatches, NEW b \in attempts', b = Attempt(s, store),
               b.key \in {<<"dispatch-replay", "plain", m[2]>>, <<"dispatch-replay", "id-device", m[2]>>}
        PROVE  LetThrough(m)' \/ (b.key = <<"dispatch-replay", "plain", m[2]>> /\ Explained(m)')
    <3>1. b.key = CheckedKey(s)
      BY <1>5, <2>3, AttemptIsRecord
    <3>2. req[s].step = "replay" /\ req[s].msg = m
      BY <1>0, <2>3, <3>1, KeyTellsMessage
    <3>3. CASE call[s].store = None
      <4>1. b.key = <<"dispatch-replay", "plain", m[2]>>
        BY <2>3, <3>1, <3>3 DEF CheckedKey
      <4>2. OnItsWay(m)'
        BY <2>1, <3>2 DEF OnItsWay
      <4> QED
        BY <4>1, <4>2 DEF Explained
    <3>4. CASE call[s].store # None
      BY <2>1, <3>2, <3>4 DEF LetThrough
    <3> QED
      BY <3>3, <3>4
  <2>4. ASSUME NEW b \in attempts'
        PROVE  b = Attempt(s, store) \/ \E a \in attempts : a.key = b.key
    <3>1. \/ \E a \in attempts : b = a \/ b = TrimOne(a, CheckedKey(s), call[s].clock)
          \/ InRedis(s) /\ b = Attempt(s, "redis")
          \/ InDatabase(s) /\ b = Attempt(s, "db")
      BY <1>0, <1>5, AttemptsStay
    <3>2. ~(InRedis(s) /\ InDatabase(s))
      BY DEF InRedis, InDatabase
    <3>3. ASSUME NEW a \in attempts, b = a \/ b = TrimOne(a, CheckedKey(s), call[s].clock)
          PROVE  a.key = b.key
      BY <3>3, TrimOneKeeps DEF TypeInv, Types
    <3> QED
      BY <1>5, <3>1, <3>2, <3>3
  <2>5. ASSUME NEW o \in Slots, req'[o].step = "replay", req'[o].msg \in Dispatches, call'[o].step = "denied"
        PROVE  Explained(req'[o].msg)
    BY <1>0, <1>2, <2>1, <2>5 DEF ExplainInv
  <2> QED
    BY <1>0, <1>3, <2>2, <2>3, <2>4, <2>5, ExplainKept
<1>6. (InRedis(s) => call[s].step = "eval") /\ (InDatabase(s) => call[s].step = "insert")
  BY DEF InRedis, InDatabase
<1> QED
  BY <1>0, <1>4, <1>5, <1>6 DEF Stores
LEMMA ExplainStep == TypeInv /\ ExplainInv /\ [Next]_vars => ExplainInv'
<1> SUFFICES ASSUME TypeInv, ExplainInv, [Next]_vars, faults' = 0 PROVE ExplainInv'
  BY Zenon DEF ExplainInv
<1>0. faults \in Nat
  BY DEF TypeInv, Types
<1>1. ASSUME NEW s \in Slots, CheckRateLimit(s) /\ UNCHANGED <<signed, req, deliveries, ran>>
      PROVE  ExplainInv'
  BY <1>1, CheckKeepsExplained
\* Any other step leaves the slots alone but one, which is neither let through nor
\* on its way, or its message is run.
<1>2. ASSUME NEW s \in Slots, faults' = faults, attempts' = attempts,
             \A o \in Slots \ {s} : call'[o] = call[o] /\ req'[o] = req[o],
             call'[s].step # "denied",
             DOMAIN ran \subseteq DOMAIN ran', \A i \in DOMAIN ran : ran'[i] = ran[i],
             \/ req[s].step # "replay" \/ call[s].step = "denied" \/ req[s].msg \notin Dispatches
             \/ \E i \in DOMAIN ran' : ran'[i].msg = req[s].msg
      PROVE  ExplainInv'
  <2>1. ASSUME NEW m \in Dispatches, LetThrough(m) PROVE LetThrough(m)'
    <3>1. CASE \E i \in DOMAIN ran : ran[i].msg = m
      BY <1>2, <3>1 DEF LetThrough
    <3>2. CASE \E o \in Slots : req[o].msg = m /\ req[o].step = "replay" /\ call[o].step = "allowed"
      <4> PICK o \in Slots : req[o].msg = m /\ req[o].step = "replay" /\ call[o].step = "allowed"
        BY <3>2
      <4>1. CASE o = s
        BY <1>2, <4>1 DEF LetThrough
      <4>2. CASE o # s
        BY <1>2, <4>2 DEF LetThrough
      <4> QED
        BY <4>1, <4>2
    <3> QED
      BY <2>1, <3>1, <3>2 DEF LetThrough
  <2>2. ASSUME NEW m \in Dispatches, OnItsWay(m) PROVE Explained(m)'
    <3> PICK o \in Slots : /\ req[o].msg = m /\ req[o].step = "replay"
                           /\ call[o].store \in Stores /\ call[o].step # "denied"
      BY <2>2 DEF OnItsWay
    <3>1. CASE o = s
      BY <1>2, <3>1 DEF Explained, LetThrough
    <3>2. CASE o # s
      BY <1>2, <3>2 DEF Explained, OnItsWay
    <3> QED
      BY <3>1, <3>2
  <2>3. ASSUME NEW o \in Slots, req'[o].step = "replay", req'[o].msg \in Dispatches, call'[o].step = "denied"
        PROVE  Explained(req'[o].msg)
    BY <1>2, <2>3 DEF ExplainInv
  <2> QED
    BY <1>2, <2>1, <2>2, <2>3, ExplainKept
<1>3. ASSUME NEW s \in Slots, Answer(s)
      PROVE  /\ \A o \in Slots \ {s} : call'[o] = call[o] /\ req'[o] = req[o]
             /\ call'[s].step # "denied"
  BY <1>3, Answering DEF NoCall
<1>4. ASSUME NEW s \in Slots, Refuse(s)
      PROVE  ExplainInv'
  BY <1>2, <1>3, <1>4 DEF Refuse, UnchangedAround
<1>5. ASSUME NEW s \in Slots, NEW m \in Messages, VerifyInternalRequest(s, m)
      PROVE  ExplainInv'
  <2>1. ReplayLimit[m[1]] \in RouteLimits /\ m[2] \in Ids
    BY MessageKeys DEF RouteLimits
  <2>2. call'[s].step = "redis" /\ \A o \in Slots \ {s} : call'[o] = call[o]
    BY <1>5, <2>1, Beginning DEF VerifyInternalRequest, CheckReplay
  <2>3. req[s].step = "idle" /\ \A o \in Slots \ {s} : req'[o] = req[o]
    BY <1>5 DEF VerifyInternalRequest, CheckReplay, Idle, TypeInv, Types
  <2> QED
    BY <1>2, <1>5, <2>2, <2>3 DEF VerifyInternalRequest
<1>6. ASSUME NEW s \in Slots, DispatchBatch(s)
      PROVE  ExplainInv'
  <2>1. Underway(s) /\ req[s].step = "replay" /\ call[s].step = "allowed"
    BY <1>6 DEF DispatchBatch, TypeInv, SlotsFit, Idle
  <2>2. call[s].store \in Stores /\ call[s].at \in Nat
    BY <2>1 DEF Underway, TypeInv, Types, CallRecords
  <2>3. /\ Len(ran) \in Nat /\ Len(ran') = Len(ran) + 1
        /\ DOMAIN ran = 1..Len(ran) /\ DOMAIN ran' = 1..Len(ran')
        /\ \A i \in 1..Len(ran) : ran'[i] = ran[i]
        /\ ran'[Len(ran) + 1] = [msg |-> req[s].msg, store |-> call[s].store, at |-> call[s].at]
    BY <1>6, <2>1, <2>2, RunIsRecord DEF DispatchBatch
  <2>4. ran'[Len(ran) + 1].msg = req[s].msg
    BY <2>3
  <2>5. /\ DOMAIN ran \subseteq DOMAIN ran' /\ \A i \in DOMAIN ran : ran'[i] = ran[i]
        /\ \E i \in DOMAIN ran' : ran'[i].msg = req[s].msg
    BY <2>3, <2>4
  <2> QED
    BY <1>2, <1>3, <1>6, <2>5 DEF DispatchBatch
<1>7. ASSUME NEW s \in Slots, ParseSecurityEvent(s)
      PROVE  ExplainInv'
  <2>1. req[s].msg \notin Dispatches
    BY <1>7 DEF ParseSecurityEvent, Dispatches
  <2>2. CASE Answer(s)
    BY <1>2, <1>3, <1>7, <2>1, <2>2 DEF ParseSecurityEvent, UnchangedAround
  <2>3. CASE /\ req' = [req EXCEPT ![s].step = "event", ![s].store = call[s].store, ![s].at = call[s].at]
             /\ Begin(s, IdentifierChecks("event-request", req[s].msg[2]))
    <3>1. call'[s].step = "redis" /\ \A o \in Slots \ {s} : call'[o] = call[o] /\ req'[o] = req[o]
      BY <2>3 DEF Begin, NoCall, TypeInv, Types
    <3> QED
      BY <1>2, <1>7, <2>1, <3>1 DEF ParseSecurityEvent, UnchangedAround
  <2> QED
    BY <1>7, <2>2, <2>3 DEF ParseSecurityEvent
<1>8. ASSUME NEW s \in Slots, RecordSecurityEvent(s)
      PROVE  ExplainInv'
  <2>1. Underway(s) /\ req[s].step = "event" /\ call[s].step = "allowed"
    BY <1>8 DEF RecordSecurityEvent, TypeInv, SlotsFit, Idle
  <2>2. req[s].store \in Stores /\ req[s].at \in Nat
    BY <2>1 DEF Underway, TypeInv, Types, RequestRecords
  <2>3. /\ Len(ran) \in Nat /\ Len(ran') = Len(ran) + 1
        /\ DOMAIN ran = 1..Len(ran) /\ DOMAIN ran' = 1..Len(ran')
        /\ \A i \in 1..Len(ran) : ran'[i] = ran[i]
    BY <1>8, <2>1, <2>2, RunIsRecord DEF RecordSecurityEvent
  <2>4. DOMAIN ran \subseteq DOMAIN ran' /\ \A i \in DOMAIN ran : ran'[i] = ran[i]
    BY <2>3
  <2> QED
    BY <1>2, <1>3, <1>8, <2>1, <2>4 DEF RecordSecurityEvent
<1>9. ASSUME NEW s \in Slots, Fail(s)
      PROVE  ExplainInv'
  BY <1>0, <1>9 DEF Fail, Fault
<1>10. CASE UNCHANGED <<attempts, call, req, ran, faults>>
  BY <1>10 DEF ExplainInv, Explained, LetThrough, OnItsWay
<1>11. Tick /\ UNCHANGED <<signed, req, deliveries, ran>> => UNCHANGED <<attempts, call, req, ran, faults>>
  BY DEF Tick
<1>12. UNCHANGED vars => UNCHANGED <<attempts, call, req, ran, faults>>
  BY DEF vars, limitVars
<1> QED
  BY <1>1, <1>4, <1>5, <1>6, <1>7, <1>8, <1>9, <1>10, <1>11, <1>12, Zenon DEF Next, Handle

\* While no part fails a dispatch is turned away only for another delivery of the same
\* request, which ran or goes on to run: one out of each gets through, although two
\* limits are asked one after the other (DispatchBatch, withRateLimitByIdentifier).
THEOREM ReplaysAreExplained == Spec => []ReplayExplained
<1>1. Init => ExplainInv
  BY DEF Init, LimitInit, ExplainInv, Idle
<1>2. TypeInv /\ ExplainInv => ReplayExplained
  <2> SUFFICES ASSUME TypeInv, ExplainInv, NEW s \in Slots, req[s].step = "replay", call[s].step = "denied",
                      req[s].msg[1] = "dispatch", faults = 0
               PROVE  \/ \E i \in DOMAIN ran : ran[i].msg = req[s].msg
                      \/ \E o \in Slots \ {s} :
                            req[o].msg = req[s].msg /\ req[o].step = "replay" /\ call[o].store # None
    BY Zenon DEF ReplayExplained
  <2>1. req[s].msg \in Dispatches
    BY DEF TypeInv, SlotsFit, Idle, Underway, Dispatches
  <2>2. Explained(req[s].msg)
    BY <2>1 DEF ExplainInv
  <2>3. ASSUME NEW o \in Slots, req[o].step = "replay", call[o].step = "allowed"
        PROVE  call[o].store \in Stores
    BY <2>3 DEF TypeInv, SlotsFit, Idle, Underway
  <2>4. None \notin Stores
    BY RateLimitAssumption DEF Stores
  <2> QED
    BY <2>2, <2>3, <2>4 DEF Explained, LetThrough, OnItsWay
<1> QED
  BY <1>1, <1>2, ExplainStep, TypesHold, PTL DEF Spec
===============================================================================
