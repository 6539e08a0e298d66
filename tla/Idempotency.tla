----------------------------- MODULE Idempotency ------------------------------
(***************************************************************************)
(* withIdempotency: requests that carry the same idempotency key (and the  *)
(* same action and subject) share one row of IdempotencyRecord.  One of    *)
(* them reserves the row, runs the handler and stores its response; the    *)
(* others replay the stored response or are told to come back.  Keys share *)
(* nothing, so there is one row here.  A request that carries no key       *)
(* bypasses all of this.                                                   *)
(*                                                                         *)
(* Every database statement is a step of its own; in between, a request    *)
(* acts on the row it read before.  Time is relative, in ticks.            *)
(***************************************************************************)
EXTENDS Naturals, FiniteSets

CONSTANTS
    Calls,              \* each is made once
    NoCall,             \* no request
    TTL,                \* ttlSeconds
    LongTTL,            \* PERSIST_FAILURE_RESERVATION_SECONDS
    WaitMax,            \* WAIT_FOR_PENDING_MAX_MS
    PersistAttempts,    \* PERSIST_MAX_RETRY_ATTEMPTS
    HandlerMax          \* bound: ticks a handler may run

ASSUME IdempotencyAssumption ==
    /\ NoCall \notin Calls
    /\ IsFiniteSet(Calls)
    /\ {TTL, LongTTL, WaitMax, PersistAttempts, HandlerMax} \subseteq Nat \ {0}

VARIABLES
    \* the row: is it there, pending (statusCode = -1) or done; time until
    \* expiresAt; whose response it stores
    row, left, response,
    \* the requests: control point, time spent in it, failed stores
    pc, elapsed, tries,
    \* what came back: whose response, if any
    answer,
    \* what an observer knows: handlers started, expired rows found
    ran, expiries

record   == <<row, left, response>>
requests == <<pc, elapsed, tries, answer>>
keyVars  == <<record, requests, ran, expiries>>

Rows   == {"none", "pending", "done"}
Points == {"new", "drop", "reserve", "run", "persist", "upsert", "extend",
           "wait", "waitDrop", "answered"}

KeyInit ==
    /\ row = "none"
    /\ left = 0
    /\ response = NoCall
    /\ pc = [r \in Calls |-> "new"]
    /\ elapsed = [r \in Calls |-> 0]
    /\ tries = [r \in Calls |-> 0]
    /\ answer = [r \in Calls |-> NoCall]
    /\ ran = {}
    /\ expiries = 0

Goto(r, p) == pc' = [pc EXCEPT ![r] = p]

\* The response of request x is sent as the answer to r; without a response
\* (409, 503, an exception) x is NoCall.
Reply(r, x) ==
    /\ Goto(r, "answered")
    /\ answer' = [answer EXCEPT ![r] = x]
    /\ elapsed' = [elapsed EXCEPT ![r] = 0]
    /\ tries' = [tries EXCEPT ![r] = 0]

Store(state, time, x) ==
    /\ row' = state
    /\ left' = time
    /\ response' = x

DeleteRow == Store("none", 0, NoCall)

Expired == row # "none" /\ left = 0

(***************************************************************************)
(* getCachedResponse and reservePendingSlot                                *)
(***************************************************************************)
\* A stored response is replayed at once.
Replay(r) ==
    /\ pc[r] = "new"
    /\ row = "done"
    /\ ~Expired
    /\ Reply(r, response)
    /\ UNCHANGED <<record, ran, expiries>>

LookUp(r) ==
    /\ pc[r] = "new"
    /\ ~(row = "done" /\ ~Expired)
    /\ Goto(r, IF Expired THEN "drop" ELSE "reserve")
    /\ expiries' = IF Expired THEN expiries + 1 ELSE expiries
    /\ UNCHANGED <<record, elapsed, tries, answer, ran>>

\* deleteMany by key: whatever row has the key by now.  Failures are ignored.
DropExpired(r) ==
    /\ pc[r] = "drop"
    /\ DeleteRow \/ UNCHANGED record
    /\ Goto(r, "reserve")
    /\ UNCHANGED <<elapsed, tries, answer, ran, expiries>>

\* Faulty: an upsert in place of a create.
ReserveAnyway(r) ==
    /\ pc[r] = "reserve"
    /\ Store("pending", TTL, NoCall)
    /\ ran' = ran \cup {r}
    /\ Goto(r, "run")
    /\ UNCHANGED <<elapsed, tries, answer, expiries>>

\* create succeeds for one request; P2002 sends the others to wait.
Reserve(r) ==
    /\ pc[r] = "reserve"
    /\ IF row = "none"
       THEN /\ Store("pending", TTL, NoCall)
            /\ ran' = ran \cup {r}
            /\ Goto(r, "run")
       ELSE /\ Goto(r, "wait")
            /\ UNCHANGED <<record, ran>>
    /\ UNCHANGED <<elapsed, tries, answer, expiries>>

\* create fails otherwise, its row inserted or not: 503, fail closed.
ReserveFails(r) ==
    /\ pc[r] = "reserve"
    /\ (row = "none" /\ Store("pending", TTL, NoCall)) \/ UNCHANGED record
    /\ Reply(r, NoCall)
    /\ UNCHANGED <<ran, expiries>>

(***************************************************************************)
(* The handler and persistResponseWithRetry                                *)
(***************************************************************************)
HandlerReturns(r) ==
    /\ pc[r] = "run"
    /\ Goto(r, "persist")
    /\ elapsed' = [elapsed EXCEPT ![r] = 0]
    /\ UNCHANGED <<record, tries, answer, ran, expiries>>

\* The exception leaves the reservation behind.
HandlerThrows(r) ==
    /\ pc[r] = "run"
    /\ Reply(r, NoCall)
    /\ UNCHANGED <<record, ran, expiries>>

\* updateMany WHERE statusCode = PENDING: any reservation, not only its own.
PersistPending(r) ==
    /\ pc[r] = "persist"
    /\ IF row = "pending"
       THEN /\ Store("done", TTL, r)
            /\ Reply(r, r)
       ELSE /\ Goto(r, "upsert")
            /\ UNCHANGED <<record, elapsed, tries, answer>>
    /\ UNCHANGED <<ran, expiries>>

\* No row was pending: the response is stored over whatever is there.
Upsert(r) ==
    /\ pc[r] = "upsert"
    /\ Store("done", TTL, r)
    /\ Reply(r, r)
    /\ UNCHANGED <<ran, expiries>>

\* Faulty: retries for ever.
PersistThrowsUncounted(r) ==
    /\ pc[r] \in {"persist", "upsert"}
    /\ Goto(r, "persist")
    /\ UNCHANGED <<record, elapsed, tries, answer, ran, expiries>>

\* Faulty: one attempt too many.
PersistThrowsOnceMore(r) ==
    /\ pc[r] \in {"persist", "upsert"}
    /\ tries' = [tries EXCEPT ![r] = @ + 1]
    /\ Goto(r, IF tries[r] < PersistAttempts THEN "persist" ELSE "extend")
    /\ UNCHANGED <<record, elapsed, answer, ran, expiries>>

\* One of the two statements throws, committed or not; after the last attempt
\* the reservation is extended.
PersistThrows(r) ==
    /\ pc[r] \in {"persist", "upsert"}
    /\ \/ /\ pc[r] = "upsert" \/ row = "pending"
          /\ Store("done", TTL, r)
       \/ UNCHANGED record
    /\ tries' = [tries EXCEPT ![r] = @ + 1]
    /\ Goto(r, IF tries[r] + 1 < PersistAttempts THEN "persist" ELSE "extend")
    /\ UNCHANGED <<elapsed, answer, ran, expiries>>

\* extendPendingReservationOnPersistFailure; its own failure is ignored.  The
\* caller has its answer all the same.
ExtendReservation(r) ==
    /\ pc[r] = "extend"
    /\ (row = "pending" /\ Store("pending", LongTTL, NoCall)) \/ UNCHANGED record
    /\ Reply(r, r)
    /\ UNCHANGED <<ran, expiries>>

(***************************************************************************)
(* waitForCompletedResponse                                                *)
(***************************************************************************)
\* One poll.  It goes on waiting only while the row is pending and the
\* deadline has not passed.
Poll(r) ==
    /\ pc[r] = "wait"
    /\ IF elapsed[r] >= WaitMax \/ row = "none"
       THEN Reply(r, NoCall) /\ UNCHANGED expiries
       ELSE IF Expired
       THEN /\ Goto(r, "waitDrop")
            /\ expiries' = expiries + 1
            /\ UNCHANGED <<elapsed, tries, answer>>
       ELSE row = "done" /\ Reply(r, response) /\ UNCHANGED expiries
    /\ UNCHANGED <<record, ran>>

WaitDrop(r) ==
    /\ pc[r] = "waitDrop"
    /\ DeleteRow \/ UNCHANGED record
    /\ Reply(r, NoCall)
    /\ UNCHANGED <<ran, expiries>>

\* The process dies, or a read throws: nothing more happens to the row.
Crash(r) ==
    /\ pc[r] # "answered"
    /\ Reply(r, NoCall)
    /\ UNCHANGED <<record, ran, expiries>>

(***************************************************************************)
(* Elsewhere                                                               *)
(***************************************************************************)
\* Faulty: only completed rows are cleaned up.
CleanUpDone ==
    /\ row = "done"
    /\ left = 0
    /\ DeleteRow
    /\ expiries' = expiries + 1
    /\ UNCHANGED <<requests, ran>>

\* The nightly clean-up of IdempotencyRecord.
CleanUp ==
    /\ Expired
    /\ DeleteRow
    /\ expiries' = expiries + 1
    /\ UNCHANGED <<requests, ran>>

\* Only waiting and the handler take time worth counting.
Lasts(r) == (pc[r] = "wait" /\ elapsed[r] < WaitMax) \/ pc[r] = "run"

Tick ==
    /\ left > 0 \/ \E r \in Calls : Lasts(r)
    /\ \A r \in Calls : pc[r] = "run" => elapsed[r] < HandlerMax
    /\ left' = IF left > 0 THEN left - 1 ELSE 0
    /\ elapsed' = [r \in Calls |-> IF Lasts(r) THEN elapsed[r] + 1 ELSE elapsed[r]]
    /\ UNCHANGED <<row, response, pc, tries, answer, ran, expiries>>

\* What a request does by itself until it has an answer.
Step(r) ==
    \/ Replay(r)
    \/ LookUp(r)
    \/ DropExpired(r)
    \/ Reserve(r)
    \/ ReserveFails(r)
    \/ HandlerReturns(r)
    \/ HandlerThrows(r)
    \/ PersistPending(r)
    \/ Upsert(r)
    \/ PersistThrows(r)
    \/ ExtendReservation(r)
    \/ Poll(r)
    \/ WaitDrop(r)

KeyNext ==
    \/ \E r \in Calls : Step(r) \/ Crash(r)
    \/ CleanUp
    \/ Tick

KeySpec == KeyInit /\ [][KeyNext]_keyVars

\* A request that has begun keeps running, the clean-up runs every night.
FairSpec ==
    /\ KeySpec
    /\ WF_keyVars(Tick)
    /\ WF_keyVars(CleanUp)
    /\ \A r \in Calls : WF_keyVars(pc[r] # "new" /\ Step(r))
-------------------------------------------------------------------------------
(***************************************************************************)
(* Properties                                                              *)
(***************************************************************************)
KeyTypeOK ==
    /\ row \in Rows
    /\ left \in Nat
    /\ response \in Calls \cup {NoCall}
    /\ row = "done" <=> response # NoCall
    /\ pc \in [Calls -> Points]
    /\ elapsed \in [Calls -> Nat]
    /\ tries \in [Calls -> 0..PersistAttempts]
    /\ answer \in [Calls -> Calls \cup {NoCall}]
    /\ ran \subseteq Calls
    /\ expiries \in Nat

\* Retries and concurrent requests run the handler once; every further run is
\* owed to somebody, a request or the clean-up, who found the row expired.
\* Failed stores, dead requests and exceptions never cause one.
RunsExplained == Cardinality(ran) <= 1 + expiries

\* As long as nobody found the row expired, all requests that get a response
\* get the response of one and the same run of the handler.
OneResponse ==
    expiries = 0 =>
        \A r, q \in Calls : answer[r] # NoCall /\ answer[q] # NoCall => answer[r] = answer[q]

\* Every request that has begun is answered.
EveryRequestAnswered == \A r \in Calls : pc[r] # "new" ~> pc[r] = "answered"

\* A reservation left behind by a dead request or a failed handler does not
\* block its key for ever.
ReservationEnds == row = "pending" ~> row # "pending"

\* "returns 409 IDEMPOTENCY_IN_PROGRESS when a concurrent request is still
\* processing": no two requests are in the handler at the same time.
OneHandlerAtATime == \A r, q \in Calls : pc[r] = "run" /\ pc[q] = "run" => r = q
===============================================================================
