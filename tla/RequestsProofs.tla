---------------------------- MODULE RequestsProofs -----------------------------
(***************************************************************************)
(* Proofs about a request on its way through the application: first about  *)
(* Idempotency, for any finite set of calls under one key and any times,   *)
(* then about ApiRoutes and Navigation, for any requests, keys and texts   *)
(* and any tabs.  The two models share no state; of a name that both need, *)
(* Idempotency has the one with Key or Call in it.                         *)
(***************************************************************************)
EXTENDS Idempotency, Navigation, FiniteSetTheorems, TLAPS

(***************************************************************************)
(* The inductive invariant.  Besides the types: a request that can still   *)
(* fail to store its response has attempts left; whoever has found the row *)
(* expired and has not deleted it yet has used up none of what expiries    *)
(* allows; and every response there is comes from a run of the handler.    *)
(***************************************************************************)
TriesInv == \A r \in Calls : pc[r] # "extend" => tries[r] < PersistAttempts

\* The requests about to delete the row they found expired.
Dropping == {r \in Calls : pc[r] \in {"drop", "waitDrop"}}

CountInv ==
    Cardinality(ran) + Cardinality(Dropping) <= expiries + (IF row = "none" THEN 0 ELSE 1)

OriginInv ==
    /\ response # NoCall => response \in ran
    /\ \A r \in Calls :
        /\ pc[r] \in {"run", "persist", "upsert", "extend"} => r \in ran
        /\ answer[r] # NoCall => answer[r] \in ran

KeyInv == KeyTypeOK /\ TriesInv /\ CountInv /\ OriginInv
-------------------------------------------------------------------------------
(***************************************************************************)
(* Types                                                                   *)
(***************************************************************************)
LEMMA AnswerType ==
    ASSUME KeyTypeOK, TriesInv, NEW r \in Calls, NEW x \in Calls \cup {NoCall}, Reply(r, x)
    PROVE  /\ pc' \in [Calls -> Points]
           /\ elapsed' \in [Calls -> Nat]
           /\ tries' \in [Calls -> 0..PersistAttempts]
           /\ answer' \in [Calls -> Calls \cup {NoCall}]
           /\ TriesInv'
  BY IdempotencyAssumption DEF KeyTypeOK, TriesInv, Reply, Goto, Points

LEMMA GotoType ==
    ASSUME KeyTypeOK, TriesInv, NEW r \in Calls, NEW p \in Points, Goto(r, p)
    PROVE  pc' \in [Calls -> Points]
  BY DEF KeyTypeOK, Goto

LEMMA KeyTypeStep == KeyTypeOK /\ TriesInv /\ [KeyNext]_keyVars => KeyTypeOK' /\ TriesInv'
<1> SUFFICES ASSUME KeyTypeOK, TriesInv, [KeyNext]_keyVars PROVE KeyTypeOK' /\ TriesInv'
  OBVIOUS
<1> USE IdempotencyAssumption DEF KeyTypeOK, Rows, record, requests
<1>1. ASSUME NEW r \in Calls, Replay(r) PROVE KeyTypeOK' /\ TriesInv'
  BY <1>1, AnswerType DEF Replay
<1>2. ASSUME NEW r \in Calls, LookUp(r) PROVE KeyTypeOK' /\ TriesInv'
  BY <1>2 DEF LookUp, Goto, Points, TriesInv
<1>3. ASSUME NEW r \in Calls, DropExpired(r) PROVE KeyTypeOK' /\ TriesInv'
  BY <1>3 DEF DropExpired, DeleteRow, Store, Goto, Points, TriesInv
<1>4. ASSUME NEW r \in Calls, Reserve(r) PROVE KeyTypeOK' /\ TriesInv'
  BY <1>4 DEF Reserve, Store, Goto, Points, TriesInv
<1>5. ASSUME NEW r \in Calls, ReserveFails(r) PROVE KeyTypeOK' /\ TriesInv'
  BY <1>5, AnswerType DEF ReserveFails, Store
<1>6. ASSUME NEW r \in Calls, HandlerReturns(r) PROVE KeyTypeOK' /\ TriesInv'
  BY <1>6 DEF HandlerReturns, Goto, Points, TriesInv
<1>7. ASSUME NEW r \in Calls, HandlerThrows(r) PROVE KeyTypeOK' /\ TriesInv'
  BY <1>7, AnswerType DEF HandlerThrows
<1>8. ASSUME NEW r \in Calls, PersistPending(r) PROVE KeyTypeOK' /\ TriesInv'
  <2>1. CASE row = "pending"
    BY <1>8, <2>1, AnswerType DEF PersistPending, Store
  <2>2. CASE row # "pending"
    BY <1>8, <2>2 DEF PersistPending, Goto, Points, TriesInv
  <2> QED
    BY <2>1, <2>2
<1>9. ASSUME NEW r \in Calls, Upsert(r) PROVE KeyTypeOK' /\ TriesInv'
  BY <1>9, AnswerType DEF Upsert, Store
<1>10. ASSUME NEW r \in Calls, PersistThrows(r) PROVE KeyTypeOK' /\ TriesInv'
  BY <1>10 DEF PersistThrows, Store, Goto, Points, TriesInv
<1>11. ASSUME NEW r \in Calls, ExtendReservation(r) PROVE KeyTypeOK' /\ TriesInv'
  BY <1>11, AnswerType DEF ExtendReservation, Store
<1>12. ASSUME NEW r \in Calls, Poll(r) PROVE KeyTypeOK' /\ TriesInv'
  <2>1. ASSUME NEW x \in Calls \cup {NoCall}, Reply(r, x), UNCHANGED expiries
        PROVE  KeyTypeOK' /\ TriesInv'
    BY <1>12, <2>1, AnswerType DEF Poll
  <2>2. ASSUME Goto(r, "waitDrop"), expiries' = expiries + 1, UNCHANGED <<elapsed, tries, answer>>
        PROVE  KeyTypeOK' /\ TriesInv'
    BY <1>12, <2>2 DEF Poll, Goto, Points, TriesInv
  <2> QED
    BY <1>12, <2>1, <2>2 DEF Poll
<1>13. ASSUME NEW r \in Calls, WaitDrop(r) PROVE KeyTypeOK' /\ TriesInv'
  BY <1>13, AnswerType DEF WaitDrop, DeleteRow, Store
<1>14. ASSUME NEW r \in Calls, Crash(r) PROVE KeyTypeOK' /\ TriesInv'
  BY <1>14, AnswerType DEF Crash
<1>15. ASSUME CleanUp PROVE KeyTypeOK' /\ TriesInv'
  BY <1>15 DEF CleanUp, DeleteRow, Store, TriesInv
<1>16. ASSUME Tick PROVE KeyTypeOK' /\ TriesInv'
  BY <1>16 DEF Tick, TriesInv
<1>17. ASSUME UNCHANGED keyVars PROVE KeyTypeOK' /\ TriesInv'
  BY <1>17 DEF keyVars, TriesInv
<1> QED
  BY <1>1, <1>2, <1>3, <1>4, <1>5, <1>6, <1>7, <1>8, <1>9, <1>10, <1>11, <1>12,
     <1>13, <1>14, <1>15, <1>16, <1>17 DEF KeyNext, Step

\* The types of the variables, for any number of requests.
THEOREM KeyTypeCorrect == KeySpec => []KeyTypeOK
<1>1. KeyInit => KeyTypeOK /\ TriesInv
  BY IdempotencyAssumption DEF KeyInit, KeyTypeOK, TriesInv, Rows, Points
<1> QED
  BY <1>1, KeyTypeStep, PTL DEF KeySpec
-------------------------------------------------------------------------------
(***************************************************************************)
(* Where responses come from                                               *)
(***************************************************************************)
LEMMA OriginStep ==
    ASSUME KeyTypeOK, TriesInv, OriginInv, [KeyNext]_keyVars
    PROVE  OriginInv'
<1> USE IdempotencyAssumption DEF KeyTypeOK, OriginInv, Store, DeleteRow, Goto, Reply, record, requests
<1>1. ASSUME NEW r \in Calls,
             \/ Replay(r) \/ LookUp(r) \/ DropExpired(r) \/ ReserveFails(r) \/ HandlerReturns(r)
             \/ HandlerThrows(r) \/ WaitDrop(r) \/ Crash(r)
      PROVE  OriginInv'
  BY <1>1 DEF Replay, LookUp, DropExpired, ReserveFails, HandlerReturns, HandlerThrows, WaitDrop, Crash
<1>2. ASSUME NEW r \in Calls, Reserve(r) PROVE OriginInv'
  BY <1>2 DEF Reserve
<1>3. ASSUME NEW r \in Calls, PersistPending(r) PROVE OriginInv'
  BY <1>3 DEF PersistPending
<1>4. ASSUME NEW r \in Calls, Upsert(r) PROVE OriginInv'
  BY <1>4 DEF Upsert
<1>5. ASSUME NEW r \in Calls, PersistThrows(r) PROVE OriginInv'
  BY <1>5 DEF PersistThrows
<1>6. ASSUME NEW r \in Calls, ExtendReservation(r) PROVE OriginInv'
  BY <1>6 DEF ExtendReservation
<1>7. ASSUME NEW r \in Calls, Poll(r) PROVE OriginInv'
  BY <1>7 DEF Poll
<1>8. ASSUME CleanUp \/ Tick \/ UNCHANGED keyVars PROVE OriginInv'
  BY <1>8 DEF CleanUp, Tick, keyVars
<1> QED
  BY <1>1, <1>2, <1>3, <1>4, <1>5, <1>6, <1>7, <1>8 DEF KeyNext, Step
-------------------------------------------------------------------------------
(***************************************************************************)
(* How many runs there are                                                 *)
(***************************************************************************)
LEMMA Finite ==
    ASSUME KeyTypeOK
    PROVE  /\ IsFiniteSet(ran) /\ Cardinality(ran) \in Nat
           /\ IsFiniteSet(Dropping) /\ Cardinality(Dropping) \in Nat
<1>1. ran \in SUBSET Calls /\ Dropping \in SUBSET Calls
  BY DEF KeyTypeOK, Dropping
<1> QED
  BY <1>1, FS_Subset, FS_CardinalityType, IdempotencyAssumption

\* Steps that neither delete the row, nor enter or leave Dropping, nor run
\* the handler.
LEMMA QuietStep ==
    ASSUME KeyTypeOK, KeyTypeOK', CountInv, Dropping' = Dropping, ran' = ran, expiries' = expiries,
           row = "none" \/ row' # "none"
    PROVE  CountInv'
  BY Finite DEF CountInv, KeyTypeOK

LEMMA CountStep ==
    ASSUME KeyTypeOK, TriesInv, CountInv, [KeyNext]_keyVars, KeyTypeOK'
    PROVE  CountInv'
<1> USE DEF record, requests
<1>1. ASSUME NEW r \in Calls,
             \/ Replay(r) \/ HandlerReturns(r) \/ HandlerThrows(r) \/ ReserveFails(r)
             \/ PersistPending(r) \/ Upsert(r) \/ PersistThrows(r) \/ ExtendReservation(r)
      PROVE  CountInv'
  <2>1. Dropping' = Dropping
    BY <1>1 DEF KeyTypeOK, Dropping, Replay, HandlerReturns, HandlerThrows, ReserveFails,
                PersistPending, Upsert, PersistThrows, ExtendReservation, Reply, Goto
  <2>2. /\ ran' = ran /\ expiries' = expiries
        /\ row = "none" \/ row' # "none"
    BY <1>1 DEF Replay, HandlerReturns, HandlerThrows, ReserveFails,
                PersistPending, Upsert, PersistThrows, ExtendReservation, Store
  <2> QED
    BY <2>1, <2>2, QuietStep
\* Whoever finds the row expired is counted, and the row is there.
<1>2. ASSUME NEW r \in Calls, r \notin Dropping, Dropping' = Dropping \cup {r},
             expiries' = expiries + 1, ran' = ran, row # "none", row' = row
      PROVE  CountInv'
  <2>1. Cardinality(Dropping') = Cardinality(Dropping) + 1
    BY <1>2, FS_AddElement, Finite
  <2> QED
    BY <1>2, <2>1, Finite DEF CountInv, KeyTypeOK
\* Whoever deletes it is no longer counted.
<1>3. ASSUME NEW r \in Calls, r \in Dropping, Dropping' = Dropping \ {r},
             expiries' = expiries, ran' = ran
      PROVE  CountInv'
  <2>1. Cardinality(Dropping') = Cardinality(Dropping) - 1
    BY <1>3, FS_RemoveElement, Finite
  <2> QED
    BY <1>3, <2>1, Finite DEF CountInv, KeyTypeOK
<1>4. ASSUME NEW r \in Calls, LookUp(r) PROVE CountInv'
  <2>1. CASE Expired
    <3>1. r \notin Dropping /\ Dropping' = Dropping \cup {r}
      BY <1>4, <2>1 DEF KeyTypeOK, Dropping, LookUp, Goto
    <3> QED
      BY <1>2, <1>4, <2>1, <3>1 DEF LookUp, Expired
  <2>2. CASE ~Expired
    <3>1. Dropping' = Dropping
      BY <1>4, <2>2 DEF KeyTypeOK, Dropping, LookUp, Goto
    <3> QED
      BY <1>4, <2>2, <3>1, QuietStep DEF LookUp
  <2> QED
    BY <2>1, <2>2
<1>5. ASSUME NEW r \in Calls, DropExpired(r) \/ WaitDrop(r) PROVE CountInv'
  <2>1. r \in Dropping /\ Dropping' = Dropping \ {r}
    BY <1>5 DEF KeyTypeOK, Dropping, DropExpired, WaitDrop, Reply, Goto
  <2> QED
    BY <1>3, <1>5, <2>1 DEF DropExpired, WaitDrop
<1>6. ASSUME NEW r \in Calls, Reserve(r) PROVE CountInv'
  <2>1. Dropping' = Dropping
    BY <1>6 DEF KeyTypeOK, Dropping, Reserve, Goto
  <2>2. CASE row = "none"
    <3>1. ran' = ran \cup {r} /\ row' # "none" /\ expiries' = expiries
      BY <1>6, <2>2 DEF Reserve, Store
    <3>2. Cardinality(ran \cup {r}) \in {Cardinality(ran), Cardinality(ran) + 1}
      BY FS_AddElement, Finite
    <3> QED
      BY <2>1, <2>2, <3>1, <3>2, Finite DEF CountInv, KeyTypeOK
  <2>3. CASE row # "none"
    BY <1>6, <2>1, <2>3, QuietStep DEF Reserve
  <2> QED
    BY <2>2, <2>3
<1>7. ASSUME NEW r \in Calls, Poll(r) PROVE CountInv'
  <2>1. CASE pc'[r] = "waitDrop"
    <3>1. r \notin Dropping /\ Dropping' = Dropping \cup {r}
      BY <1>7, <2>1 DEF KeyTypeOK, Dropping, Poll, Reply, Goto
    <3>2. expiries' = expiries + 1 /\ row # "none"
      BY <1>7, <2>1 DEF KeyTypeOK, Poll, Reply, Goto
    <3> QED
      BY <1>2, <1>7, <3>1, <3>2 DEF Poll
  <2>2. CASE pc'[r] # "waitDrop"
    <3>1. Dropping' = Dropping /\ expiries' = expiries
      BY <1>7, <2>2 DEF KeyTypeOK, Dropping, Poll, Reply, Goto
    <3> QED
      BY <1>7, <3>1, QuietStep DEF Poll
  <2> QED
    BY <2>1, <2>2
<1>8. ASSUME NEW r \in Calls, Crash(r) PROVE CountInv'
  <2>1. CASE r \in Dropping
    <3>1. Dropping' = Dropping \ {r}
      BY <1>8, <2>1 DEF KeyTypeOK, Dropping, Crash, Reply, Goto
    <3> QED
      BY <1>3, <1>8, <2>1, <3>1 DEF Crash
  <2>2. CASE r \notin Dropping
    <3>1. Dropping' = Dropping
      BY <1>8, <2>2 DEF KeyTypeOK, Dropping, Crash, Reply, Goto
    <3> QED
      BY <1>8, <3>1, QuietStep DEF Crash
  <2> QED
    BY <2>1, <2>2
<1>9. ASSUME CleanUp PROVE CountInv'
  <2>1. /\ Dropping' = Dropping /\ ran' = ran
        /\ row # "none" /\ row' = "none" /\ expiries' = expiries + 1
    BY <1>9 DEF CleanUp, Dropping, DeleteRow, Store, Expired
  <2> QED
    BY <2>1, Finite DEF CountInv, KeyTypeOK
<1>10. ASSUME Tick \/ UNCHANGED keyVars PROVE CountInv'
  <2>1. Dropping' = Dropping
    BY <1>10 DEF Tick, keyVars, Dropping
  <2> QED
    BY <1>10, <2>1, QuietStep DEF Tick, keyVars
<1> QED
  BY <1>1, <1>4, <1>5, <1>6, <1>7, <1>8, <1>9, <1>10 DEF KeyNext, Step
-------------------------------------------------------------------------------
LEMMA KeyInductive == KeySpec => []KeyInv
<1>1. KeyInit => KeyTypeOK /\ TriesInv
  BY IdempotencyAssumption DEF KeyInit, KeyTypeOK, TriesInv, Rows, Points
<1>2. KeyInit => CountInv
  <2>1. ASSUME KeyInit PROVE ran = {} /\ Dropping = {} /\ row = "none" /\ expiries = 0
    BY <2>1 DEF KeyInit, Dropping
  <2> QED
    BY <2>1, FS_EmptySet DEF CountInv
<1>3. KeyInit => OriginInv
  BY DEF KeyInit, OriginInv
<1>4. KeyInv /\ [KeyNext]_keyVars => KeyInv'
  BY KeyTypeStep, CountStep, OriginStep DEF KeyInv
<1> QED
  BY <1>1, <1>2, <1>3, <1>4, PTL DEF KeySpec, KeyInv

\* The handler runs once, and once more for everybody who found the row
\* expired, whatever is retried, fails or dies.
THEOREM OneRunUnlessExpired == KeySpec => []RunsExplained
<1>1. KeyInv => RunsExplained
  <2> SUFFICES ASSUME KeyInv PROVE RunsExplained
    OBVIOUS
  <2> QED
    BY Finite DEF KeyInv, CountInv, RunsExplained, KeyTypeOK
<1> QED
  BY <1>1, KeyInductive, PTL

\* Until somebody finds the row expired, all answers are the same response.
THEOREM SameResponseForAll == KeySpec => []OneResponse
<1>1. KeyInv => OneResponse
  <2> SUFFICES ASSUME KeyInv, expiries = 0,
                      NEW r \in Calls, NEW q \in Calls,
                      answer[r] # NoCall, answer[q] # NoCall
               PROVE  answer[r] = answer[q]
    BY DEF OneResponse
  <2>1. Cardinality(ran) <= 1
    BY Finite DEF KeyInv, CountInv, KeyTypeOK
  <2>2. {answer[r], answer[q]} \in SUBSET ran
    BY DEF KeyInv, OriginInv
  <2>3. \A x, y \in ran : x = y
    <3>1. Cardinality(ran) = 0 \/ Cardinality(ran) = 1
      BY <2>1, Finite DEF KeyInv
    <3> QED
      BY <3>1, Finite, FS_EmptySet, FS_Singleton DEF KeyInv
  <2> QED
    BY <2>2, <2>3
<1> QED
  BY <1>1, KeyInductive, PTL
-------------------------------------------------------------------------------
(***************************************************************************)
(* The stages of the routes.  In each of them no stage comes twice, the    *)
(* service comes last, and the body comes before the limits that count by  *)
(* what it holds; in the account routes the session comes before all that. *)
(***************************************************************************)
StageNames == Limits \cup {"ip", "session", "body", "schema", "act"}

Elems(s) == {s[i] : i \in DOMAIN s}

Orderly(s, limits) ==
    /\ \A i, j \in 1..Len(s) : s[i] = s[j] => i = j
    /\ \A i \in 1..Len(s) : s[i] = "act" => i = Len(s)
    /\ \A i \in 1..Len(s) : s[i] = "body" => \A l \in limits : \E j \in 1..Len(s) : i < j /\ s[j] = l

SessionFirst(s) ==
    \E i \in 1..Len(s) : s[i] = "session" /\ \A j \in 1..i : s[j] # "act"

\* The sequences of stages there are.
StageLists ==
    {<<"ip", "body", "email", "phone", "act">>, <<"ip", "body", "challenge", "act">>,
     <<"ip", "body", "email", "act">>, <<"ip", "body", "phone", "act">>,
     <<"ip", "action", "act">>, <<"ip", "session", "user", "body", "act">>,
     <<"ip", "session", "body", "user", "target", "act">>,
     <<"ip", "session", "body", "challenge", "user", "act">>,
     <<"ip", "session", "user", "body", "schema", "challenge", "act">>,
     <<"ip", "session-id", "act">>, <<"ip", "session", "user", "act">>, <<"ip", "agent">>}

LEMMA RouteLists == \A rt \in Routes : rt.stages \in StageLists
  BY DEF Routes, StageLists, Keyed, Plain,
     Register, RegisterVerifyEmail, RegisterVerifySms, RegisterRestart,
     LoginEmailStart, LoginEmailVerify, LoginPhoneStart, LoginPhoneVerify, NextAuthPost,
     ForgotStart, ForgotVerifyEmail, ForgotVerifySms, ForgotComplete,
     ProfileUpdate, ContactStart, ContactVerifyEmail, ContactVerifySms, ContactComplete,
     DeleteStart, DeleteVerifyEmail, DeleteVerifySms, DeleteAccount, Logout, LogoutAll,
     DeprecatedRequest, DeprecatedReset, DeprecatedVerifyEmail

LEMMA ListFacts == \A s \in StageLists : s \in Seq(StageNames) /\ Orderly(s, BodyLimits \cap Elems(s))
<1> SUFFICES ASSUME NEW s \in StageLists
             PROVE  s \in Seq(StageNames) /\ Orderly(s, BodyLimits \cap Elems(s))
  OBVIOUS
<1> USE DEF Orderly, BodyLimits, Elems, StageNames, Limits
<1>1. CASE s = <<"ip", "body", "email", "phone", "act">>
  BY <1>1
<1>2. CASE s = <<"ip", "body", "challenge", "act">>
  BY <1>2
<1>3. CASE s = <<"ip", "body", "email", "act">>
  BY <1>3
<1>4. CASE s = <<"ip", "body", "phone", "act">>
  BY <1>4
<1>5. CASE s = <<"ip", "action", "act">>
  BY <1>5
<1>6. CASE s = <<"ip", "session", "user", "body", "act">>
  BY <1>6
<1>7. CASE s = <<"ip", "session", "body", "user", "target", "act">>
  BY <1>7
<1>8. CASE s = <<"ip", "session", "body", "challenge", "user", "act">>
  BY <1>8
<1>9. CASE s = <<"ip", "session", "user", "body", "schema", "challenge", "act">>
  BY <1>9
<1>10. CASE s = <<"ip", "session-id", "act">>
  BY <1>10
<1>11. CASE s = <<"ip", "session", "user", "act">>
  BY <1>11
<1>12. CASE s = <<"ip", "agent">>
  BY <1>12
<1> QED
  BY <1>1, <1>2, <1>3, <1>4, <1>5, <1>6, <1>7, <1>8, <1>9, <1>10, <1>11, <1>12 DEF StageLists

\* A route that counts by a text of its body reads the body.
LEMMA BodyBeforeLimits == \A rt \in Routes : "body" \in Elems(rt.stages) \/ BodyLimits \cap StagesOf(rt) = {}
<1> SUFFICES ASSUME NEW s \in StageLists
             PROVE  "body" \in Elems(s) \/ BodyLimits \cap Elems(s) = {}
  BY RouteLists DEF StagesOf, Elems
<1>1. CASE s \in {<<"ip", "action", "act">>, <<"ip", "session-id", "act">>,
                 <<"ip", "session", "user", "act">>, <<"ip", "agent">>}
  BY <1>1 DEF Elems, BodyLimits
<1>2. CASE s[2] = "body" /\ 2 \in DOMAIN s
  BY <1>2 DEF Elems
<1>3. CASE s[3] = "body" /\ 3 \in DOMAIN s
  BY <1>3 DEF Elems
<1>4. CASE s[4] = "body" /\ 4 \in DOMAIN s
  BY <1>4 DEF Elems
<1> QED
  BY <1>1, <1>2, <1>3, <1>4 DEF StageLists

LEMMA AccountLists == \A rt \in AccountRoutes : rt \in Routes /\ SessionFirst(rt.stages)
<1> SUFFICES ASSUME NEW rt \in AccountRoutes PROVE rt \in Routes /\ SessionFirst(rt.stages)
  OBVIOUS
<1>1. rt \in Routes
  BY DEF AccountRoutes, Routes
<1>2. rt.stages \in
          {<<"ip", "session", "user", "body", "act">>,
           <<"ip", "session", "body", "user", "target", "act">>,
           <<"ip", "session", "body", "challenge", "user", "act">>,
           <<"ip", "session", "user", "body", "schema", "challenge", "act">>,
           <<"ip", "session", "user", "act">>}
  BY DEF AccountRoutes, Keyed,
     ProfileUpdate, ContactStart, ContactVerifyEmail, ContactVerifySms, ContactComplete,
     DeleteStart, DeleteVerifyEmail, DeleteVerifySms, DeleteAccount, LogoutAll
<1>3. rt.stages[1] = "ip" /\ rt.stages[2] = "session" /\ 2 \in 1..Len(rt.stages)
  <2>1. CASE rt.stages = <<"ip", "session", "user", "body", "act">>
    BY <2>1
  <2>2. CASE rt.stages = <<"ip", "session", "body", "user", "target", "act">>
    BY <2>2
  <2>3. CASE rt.stages = <<"ip", "session", "body", "challenge", "user", "act">>
    BY <2>3
  <2>4. CASE rt.stages = <<"ip", "session", "user", "body", "schema", "challenge", "act">>
    BY <2>4
  <2>5. CASE rt.stages = <<"ip", "session", "user", "act">>
    BY <2>5
  <2> QED
    BY <1>2, <2>1, <2>2, <2>3, <2>4, <2>5
<1>4. \A j \in 1..2 : rt.stages[j] # "act"
  BY <1>3
<1> QED
  BY <1>1, <1>3, <1>4 DEF SessionFirst
-------------------------------------------------------------------------------
(***************************************************************************)
(* The types of a request                                                  *)
(***************************************************************************)
Phases == {"unsent", "open", "refused", "acted", "conflict", "replayed", "answered", "done", "dead"}

IdMaps == {<<>>} \cup UNION {[S -> Texts \cup {None}] : S \in SUBSET BodyLimits}

RequestSet ==
    [for : Routes \cup {None}, key : Keys \cup {None}, session : Nat \cup {None},
     todo : Seq(StageNames), ids : IdMaps, phase : Phases, late : BOOLEAN, ran : BOOLEAN]

ApiTypeOK ==
    /\ route \in Routes /\ started \in Nat \ {0} /\ live \subseteq 1..started
    /\ req \in [Requests -> RequestSet]
    /\ \A r \in Requests : req[r].session \in (1..started) \cup {None}
    /\ stored \in [Keys -> {"free", "pending", "kept"}]

\* The limits by a text of its body that the requests for a route go through.
LimitsOf(rt) == BodyLimits \cap StagesOf(rt)

\* What a request that is being handled or has run holds; the service ran only
\* with a complete body.
Sound(r) ==
    /\ req[r].phase \in {"acted", "done"} => req[r].ran
    /\ req[r].phase \in {"open", "unsent"} => ~req[r].ran
    /\ req[r].phase = "open" \/ req[r].ran => req[r].for \in Routes
    /\ req[r].phase = "open" =>
          /\ Orderly(req[r].todo, LimitsOf(req[r].for))
          /\ "body" \in Elems(req[r].todo) \/ LimitsOf(req[r].for) = {}
                \/ req[r].ids \in [LimitsOf(req[r].for) -> Texts \cup {None}]
    /\ req[r].ran => Complete(r)
    /\ req[r].ran => LimitsOf(req[r].for) = {} \/ req[r].ids \in [LimitsOf(req[r].for) -> Texts \cup {None}]
    /\ req[r].ids = <<>> \/ req[r].ids \in [LimitsOf(req[r].for) -> Texts \cup {None}]

ApiInv == ApiTypeOK /\ \A r \in Requests : Sound(r)
-------------------------------------------------------------------------------
(***************************************************************************)
(* What a step may do to a request, the others as they are                 *)
(***************************************************************************)
Others(r) == req' = [req EXCEPT ![r] = req'[r]]

SameRequest(r) ==
    req'[r].for = req[r].for /\ req'[r].session = req[r].session /\ req'[r].late = req[r].late

Came(r) ==
    /\ req[r].phase = "unsent"
    /\ req'[r].for \in Routes /\ req'[r].session \in (1..started) \cup {None}
    /\ req'[r].phase = "open" /\ req'[r].todo = req'[r].for.stages /\ req'[r].ids = <<>>
    /\ req'[r].late = (req'[r].session \notin live) /\ ~req'[r].ran
    /\ UNCHANGED <<live, spent>>

Closed(r) ==
    /\ ~req[r].ran /\ req[r].phase # "acted"
    /\ \E p \in {"conflict", "replayed", "answered", "dead"} : req'[r] = [Unsent EXCEPT !.phase = p]
    /\ UNCHANGED <<live, spent>>

Free(r, limit) == limit \in BodyLimits /\ Identifier(r, limit) = None

Counts(action, limit, id) ==
    /\ Spent(action, limit, id) < Allowed
    /\ spent' = spent \cup {<<action, limit, id, Spent(action, limit, id) + 1>>}

Went(r) ==
    /\ req[r].phase = "open" /\ req'[r].phase = "open" /\ req'[r].ran = req[r].ran /\ SameRequest(r)
    /\ req[r].todo # <<>> /\ req'[r].todo = Tail(req[r].todo)
    /\ Head(req[r].todo) # "act"
    /\ Head(req[r].todo) = "session" => req[r].session \in live
    /\ IF Head(req[r].todo) = "body" THEN req'[r].ids \in [LimitsOf(req[r].for) -> Texts \cup {None}]
       ELSE req'[r].ids = req[r].ids
    /\ IF Head(req[r].todo) \in Limits /\ ~Free(r, Head(req[r].todo))
       THEN Counts(req[r].for.action, Head(req[r].todo), Identifier(r, Head(req[r].todo)))
       ELSE spent' = spent
    /\ live' = live

Refused(r) ==
    /\ req[r].phase = "open" /\ req'[r] = [req[r] EXCEPT !.phase = "refused", !.todo = <<>>, !.ids = <<>>]
    /\ UNCHANGED <<live, spent>>

Served(r) ==
    /\ req[r].phase = "open" /\ req[r].todo # <<>> /\ Head(req[r].todo) = "act"
    /\ SameRequest(r) /\ req'[r].todo = <<>> /\ req'[r].ids = req[r].ids
    /\ req'[r].phase \in {"acted", "refused"} /\ req'[r].ran = Complete(r)
    /\ req'[r].phase = "acted" => req'[r].ran
    /\ live' = IF req'[r].phase = "acted" THEN live \ Ended(r) ELSE live
    /\ UNCHANGED spent

Finished(r) ==
    /\ req[r].ran
    /\ \E p \in {"answered", "done", "dead"} :
          req'[r] = [req[r] EXCEPT !.phase = p] /\ (p = "done" => req[r].phase = "acted")
    /\ UNCHANGED <<live, spent>>

Handled(r) ==
    /\ UNCHANGED <<route, started>> /\ Others(r)
    /\ req'[r] \in RequestSet
    /\ stored' \in [Keys -> {"free", "pending", "kept"}]
    /\ Came(r) \/ Closed(r) \/ Went(r) \/ Refused(r) \/ Served(r) \/ Finished(r)

\* A session begins or ends in another way.
Quiet ==
    /\ UNCHANGED <<route, req, spent, stored>>
    /\ started' \in {started, started + 1} /\ live' \subseteq live \cup {started + 1}
    /\ live' \subseteq 1..started'
-------------------------------------------------------------------------------
(***************************************************************************)
(* A late request on an account route still has its session to show, and   *)
(* that session has ended.                                                 *)
(***************************************************************************)
LateInv(r) ==
    req[r].late /\ req[r].for \in AccountRoutes =>
        /\ ~req[r].ran
        /\ req[r].phase = "open" => SessionFirst(req[r].todo) /\ req[r].session \notin live

(***************************************************************************)
(* A limit has counted every request that went through it by the identifier *)
(* in question.                                                            *)
(***************************************************************************)
Counting(limit, id) ==
    \/ limit \in LimitsOf(route) \ {"target"} /\ id \in {text.id : text \in Texts}
    \/ limit = "user" /\ id = "user" /\ "user" \in StagesOf(route)

Through(r, limit) ==
    \/ req[r].ran
    \/ req[r].phase = "open" /\ limit \notin Elems(req[r].todo)

Passed(limit, id) ==
    {r \in Requests : req[r].for = route /\ Through(r, limit) /\ Identifier(r, limit) = id}

SpentOn(limit, id) == {a \in spent : a[1] = route.action /\ a[2] = limit /\ a[3] = id}

SpentHere(limit, id) == Spent(route.action, limit, id)

LimitHolds(limit, id) ==
    /\ IsFiniteSet(spent)
    /\ \A a \in SpentOn(limit, id) : a[4] \in Nat /\ a[4] <= SpentHere(limit, id)
    /\ Cardinality(Passed(limit, id)) <= SpentHere(limit, id)
    /\ SpentHere(limit, id) <= Allowed

LimitsInv ==
    \A l \in Limits, id \in {text.id : text \in Texts} \cup {"user"} : Counting(l, id) => LimitHolds(l, id)

(***************************************************************************)
(* Where a tab on its way to a page it asked for can be                    *)
(***************************************************************************)
TabInv(t) ==
    tab[t].asked # None =>
        /\ tab[t].asked \in Protected /\ ~cookie.revoked
        /\ \/ tab[t].step \in {"edge", "page"} /\ tab[t].page = tab[t].asked
           \/ /\ tab[t].step \in {"edge", "page", "rest"} /\ tab[t].page = "/login"
              /\ tab[t].callback = tab[t].asked /\ ~Auth

\* A tab that waits for the answer to its log-out, or has it
LeavingInv(t) ==
    /\ tab[t].step = "leaving" =>
          /\ tab[t].logout \in Requests
          /\ req[tab[t].logout].phase # "unsent"
          /\ req[tab[t].logout].phase \in {"open", "acted", "done"} =>
                req[tab[t].logout].for = Logout /\ req[tab[t].logout].session = tab[t].session
    /\ tab[t].step = "signOut" => tab[t].session \notin live

\* A log-out that came to an end has ended the session it was sent with.
LogoutInv(r) ==
    req[r].phase \in {"acted", "done"} /\ req[r].for = Logout => req[r].session \notin live

TabSet ==
    [step : {"closed", "rest", "edge", "page", "leaving", "signOut"}, page : Pages, locale : BOOLEAN,
     callback : Protected \cup {None, "/nowhere"}, asked : Protected \cup {None},
     logout : Requests \cup {None}, session : Nat \cup {None}]

PagesTypeOK ==
    /\ started \in 1..MaxSessions
    /\ tab \in [Tabs -> TabSet]
    /\ \A t \in Tabs : tab[t].session \in (1..started) \cup {None}
    /\ cookie \in [session : (1..started) \cup {None}, revoked : BOOLEAN]
-------------------------------------------------------------------------------
LEMMA RouteFacts ==
    \A rt \in Routes : rt.stages \in Seq(StageNames) /\ Orderly(rt.stages, LimitsOf(rt))
<1>1. \A rt : StagesOf(rt) = Elems(rt.stages)
  BY DEF StagesOf, Elems
<1> QED
  BY <1>1, RouteLists, ListFacts DEF LimitsOf

LEMMA TailFacts ==
    ASSUME NEW s \in Seq(StageNames), s # <<>>
    PROVE  /\ Head(s) \in StageNames /\ Head(s) = s[1]
           /\ Tail(s) \in Seq(StageNames) /\ Len(Tail(s)) = Len(s) - 1
           /\ \A i \in 1..Len(Tail(s)) : Tail(s)[i] = s[i + 1]
  OBVIOUS

LEMMA OrderlyTail ==
    ASSUME NEW s \in Seq(StageNames), s # <<>>, NEW limits, Orderly(s, limits)
    PROVE  /\ Orderly(Tail(s), limits)
           /\ Elems(Tail(s)) = Elems(s) \ {Head(s)}
           /\ Head(s) \in Elems(s)
           /\ Head(s) = "act" => Elems(s) = {"act"}
           /\ Head(s) = "body" => limits \subseteq Elems(Tail(s))
<1> DEFINE u == Tail(s)
<1>1. /\ Head(s) = s[1] /\ u \in Seq(StageNames) /\ Len(u) \in Nat /\ Len(s) = Len(u) + 1
      /\ \A i \in 1..Len(u) : u[i] = s[i + 1]
  BY TailFacts
<1>2. DOMAIN s = 1..Len(s) /\ DOMAIN u = 1..Len(u)
  BY <1>1
<1> HIDE DEF u
<1>3. Elems(u) = Elems(s) \ {Head(s)}
  <2>1. ASSUME NEW x \in Elems(u) PROVE x \in Elems(s) /\ x # Head(s)
    <3>1. PICK i \in 1..Len(u) : x = u[i]
      BY <1>2 DEF Elems
    <3>2. i + 1 \in 1..Len(s) /\ x = s[i + 1]
      BY <1>1, <3>1
    <3>3. 1 \in 1..Len(s) /\ i + 1 # 1
      BY <1>1, <3>1
    <3> QED
      BY <1>1, <1>2, <3>2, <3>3 DEF Elems, Orderly
  <2>2. ASSUME NEW x \in Elems(s), x # Head(s) PROVE x \in Elems(u)
    <3>1. PICK i \in 1..Len(s) : x = s[i]
      BY <1>2 DEF Elems
    <3>2. i # 1 /\ i - 1 \in 1..Len(u) /\ (i - 1) + 1 = i
      BY <1>1, <2>2, <3>1
    <3>3. u[i - 1] = x
      BY <1>1, <3>1, <3>2
    <3> QED
      BY <1>2, <3>2, <3>3 DEF Elems
  <2> QED
    BY <2>1, <2>2
<1>4. Head(s) \in Elems(s)
  BY <1>1, <1>2 DEF Elems
<1>5. Orderly(u, limits)
  <2>1. ASSUME NEW i \in 1..Len(u), NEW j \in 1..Len(u), u[i] = u[j] PROVE i = j
    <3>1. i + 1 \in 1..Len(s) /\ j + 1 \in 1..Len(s) /\ s[i + 1] = s[j + 1]
      BY <1>1, <2>1
    <3>2. i + 1 = j + 1
      BY <3>1 DEF Orderly
    <3> QED
      BY <3>2
  <2>2. ASSUME NEW i \in 1..Len(u), u[i] = "act" PROVE i = Len(u)
    <3>1. i + 1 \in 1..Len(s) /\ s[i + 1] = "act"
      BY <1>1, <2>2
    <3>2. i + 1 = Len(s)
      BY <3>1 DEF Orderly
    <3> QED
      BY <1>1, <3>2
  <2>3. ASSUME NEW i \in 1..Len(u), u[i] = "body", NEW l \in limits
        PROVE  \E j \in 1..Len(u) : i < j /\ u[j] = l
    <3>1. i + 1 \in 1..Len(s) /\ s[i + 1] = "body"
      BY <1>1, <2>3
    <3>2. PICK k \in 1..Len(s) : i + 1 < k /\ s[k] = l
      BY <3>1 DEF Orderly
    <3>3. k - 1 \in 1..Len(u) /\ i < k - 1 /\ (k - 1) + 1 = k
      BY <1>1, <3>2
    <3>4. u[k - 1] = l
      BY <1>1, <3>2, <3>3
    <3> QED
      BY <3>3, <3>4
  <2> QED
    BY <2>1, <2>2, <2>3 DEF Orderly
<1>6. ASSUME Head(s) = "act" PROVE Elems(s) = {"act"}
  <2>1. 1 \in 1..Len(s) /\ s[1] = "act"
    BY <1>1, <1>6
  <2>2. 1 = Len(s)
    BY <2>1 DEF Orderly
  <2>3. 1..1 = {1}
    OBVIOUS
  <2>4. DOMAIN s = {1}
    BY <1>2, <2>2, <2>3
  <2> QED
    BY <2>1, <2>4 DEF Elems
<1>7. ASSUME Head(s) = "body", NEW l \in limits PROVE l \in Elems(u)
  <2>1. 1 \in 1..Len(s) /\ s[1] = "body"
    BY <1>1, <1>7
  <2>2. PICK k \in 1..Len(s) : 1 < k /\ s[k] = l
    BY <2>1 DEF Orderly
  <2>3. k - 1 \in 1..Len(u) /\ (k - 1) + 1 = k
    BY <1>1, <2>2
  <2>4. u[k - 1] = l
    BY <1>1, <2>2, <2>3
  <2> QED
    BY <1>2, <2>3, <2>4 DEF Elems
<1> QED
  BY <1>3, <1>4, <1>5, <1>6, <1>7 DEF u
-------------------------------------------------------------------------------
LEMMA UnsentType == Unsent \in RequestSet /\ \A p \in Phases : [Unsent EXCEPT !.phase = p] \in RequestSet
<1>1. <<>> \in Seq(StageNames) /\ <<>> \in IdMaps
  BY DEF IdMaps
<1> QED
  BY <1>1 DEF Unsent, RequestSet, Phases

LEMMA ReceiveStep ==
    ASSUME ApiInv, NEW r \in Requests, NEW rt \in Routes, NEW key \in Keys \cup {None},
           NEW session \in (1..started) \cup {None}, Receive(r, rt, key, session)
    PROVE  Handled(r)
<1> DEFINE state == IF key = None THEN "free" ELSE stored[key]
           phase == [free |-> "open", pending |-> "conflict", kept |-> "replayed"][state]
           fresh == [Unsent EXCEPT !.for = rt, !.key = key, !.session = session, !.phase = phase,
                                   !.todo = rt.stages, !.late = session \notin live]
<1>1. state \in {"free", "pending", "kept"}
  BY DEF ApiInv, ApiTypeOK
<1>2. /\ state = "free" => phase = "open"
      /\ state = "pending" => phase = "conflict"
      /\ state = "kept" => phase = "replayed"
  OBVIOUS
<1>3. /\ req[r].phase = "unsent"
      /\ req' = [req EXCEPT ![r] = IF phase # "open" THEN [Unsent EXCEPT !.phase = phase] ELSE fresh]
      /\ stored' = [k \in Keys |-> IF k = key /\ state = "free" THEN "pending" ELSE stored[k]]
      /\ UNCHANGED <<route, started, live, spent, deaths>>
  BY DEF Receive
<1>4. req \in [Requests -> RequestSet] /\ stored \in [Keys -> {"free", "pending", "kept"}] /\ started \in Nat
      /\ route \in Routes /\ req[r] \in RequestSet
  BY DEF ApiInv, ApiTypeOK
<1>5. stored' \in [Keys -> {"free", "pending", "kept"}]
  BY <1>3, <1>4
<1>6. ~req[r].ran
  BY <1>3 DEF ApiInv, Sound
<1> HIDE DEF state
<1>7. CASE state = "free"
  <2>1. phase = "open"
    BY <1>2, <1>7
  <2> HIDE DEF phase
  <2>2. fresh \in RequestSet
    <3>1. session \in Nat \cup {None} /\ <<>> \in IdMaps /\ rt.stages \in Seq(StageNames)
      BY <1>4, RouteFacts DEF IdMaps
    <3> QED
      BY <2>1, <3>1 DEF RequestSet, Unsent, Phases
  <2>3. /\ fresh.for = rt /\ fresh.session = session /\ fresh.phase = "open" /\ fresh.todo = rt.stages
        /\ fresh.ids = <<>> /\ fresh.late = (session \notin live) /\ ~fresh.ran
    BY <2>1 DEF Unsent
  <2> HIDE DEF fresh
  <2>4. req' = [req EXCEPT ![r] = fresh] /\ req'[r] = fresh
    BY <1>3, <1>4, <2>1
  <2> QED
    BY <1>3, <1>5, <2>2, <2>3, <2>4 DEF Handled, Others, Came
<1>8. CASE state # "free"
  <2>1. phase \in {"conflict", "replayed"}
    BY <1>1, <1>2, <1>8
  <2> HIDE DEF phase, fresh
  <2>2. [Unsent EXCEPT !.phase = phase] \in RequestSet
    BY <2>1, UnsentType DEF Phases
  <2>3. req' = [req EXCEPT ![r] = [Unsent EXCEPT !.phase = phase]] /\ req'[r] = [Unsent EXCEPT !.phase = phase]
    BY <1>3, <1>4, <2>1
  <2> QED
    BY <1>3, <1>5, <1>6, <2>1, <2>2, <2>3 DEF Handled, Others, Closed
<1> QED
  BY <1>7, <1>8

LEMMA RequestType ==
    ASSUME ApiInv, NEW r \in Requests
    PROVE  /\ req[r] \in RequestSet /\ req \in [Requests -> RequestSet]
           /\ stored \in [Keys -> {"free", "pending", "kept"}]
           /\ req[r].todo \in Seq(StageNames) /\ req[r].phase \in Phases
           /\ req[r].ids \in IdMaps /\ req[r].for \in Routes \cup {None}
           /\ req[r].ran \in BOOLEAN /\ req[r].late \in BOOLEAN
           /\ req[r].session \in (1..started) \cup {None} /\ Sound(r)
  BY DEF ApiInv, ApiTypeOK, RequestSet

LEMMA PassStep ==
    ASSUME ApiInv, NEW r \in Requests, req[r].phase = "open", req[r].todo # <<>>, Pass(r)
    PROVE  /\ Others(r) /\ req'[r] \in RequestSet
           /\ req'[r].phase = "open" /\ req'[r].ran = req[r].ran /\ SameRequest(r)
           /\ req'[r].todo = Tail(req[r].todo) /\ req'[r].ids = req[r].ids
<1>1. Tail(req[r].todo) \in Seq(StageNames)
  BY RequestType, TailFacts
<1>2. req' = [req EXCEPT ![r] = [req[r] EXCEPT !.todo = Tail(req[r].todo)]]
  BY DEF Pass
<1>3. req'[r] = [req[r] EXCEPT !.todo = Tail(req[r].todo)]
  BY <1>2, RequestType
<1> QED
  BY <1>1, <1>2, <1>3, RequestType DEF Others, SameRequest, RequestSet

LEMMA RefuseStep ==
    ASSUME ApiInv, NEW r \in Requests, req[r].phase = "open", Refuse(r), UNCHANGED <<live, spent>>
    PROVE  Others(r) /\ req'[r] \in RequestSet /\ Refused(r)
<1> DEFINE one == [req[r] EXCEPT !.phase = "refused"]
           two == [one EXCEPT !.todo = <<>>]
           three == [two EXCEPT !.ids = <<>>]
<1>1. req' = [req EXCEPT ![r] = [[[req[r] EXCEPT !.phase = "refused"] EXCEPT !.todo = <<>>] EXCEPT !.ids = <<>>]]
  BY RequestType, Zenon DEF Refuse
<1>2. one \in RequestSet
  BY RequestType DEF RequestSet, Phases
<1> HIDE DEF one
<1>3. two \in RequestSet
  <2>1. <<>> \in Seq(StageNames)
    OBVIOUS
  <2> QED
    BY <1>2, <2>1 DEF RequestSet
<1> HIDE DEF two
<1>4. three \in RequestSet
  BY <1>3 DEF RequestSet, IdMaps
<1>5. req' = [req EXCEPT ![r] = three]
  BY <1>1 DEF one, two
<1> HIDE DEF three
<1>6. req'[r] = three
  BY <1>5, RequestType
<1>7. three = [req[r] EXCEPT !.phase = "refused", !.todo = <<>>, !.ids = <<>>]
  BY RequestType, Zenon DEF one, two, three
<1>8. Others(r) /\ req'[r] \in RequestSet
  BY <1>4, <1>5, <1>6 DEF Others
<1> QED
  BY <1>6, <1>7, <1>8, Zenon DEF Refused

LEMMA EndStep ==
    ASSUME ApiInv, NEW r \in Requests, NEW p \in {"answered", "done", "dead"},
           req' = [req EXCEPT ![r] = Over(r, p)], p = "done" => req[r].phase = "acted",
           p # "done" => p = "dead" \/ req[r].phase # "acted",
           UNCHANGED <<live, spent>>
    PROVE  Others(r) /\ req'[r] \in RequestSet /\ (Closed(r) \/ Finished(r))
<1>1. req'[r] = Over(r, p)
  BY RequestType
<1>2. Others(r)
  BY <1>1 DEF Others
<1>3. CASE req[r].ran
  <2>1. req'[r] = [req[r] EXCEPT !.phase = p]
    BY <1>1, <1>3 DEF Over
  <2>2. [req[r] EXCEPT !.phase = p] \in RequestSet
    BY RequestType DEF RequestSet, Phases
  <2> QED
    BY <1>2, <1>3, <2>1, <2>2 DEF Finished
<1>4. CASE ~req[r].ran
  <2>1. req'[r] = [Unsent EXCEPT !.phase = p]
    BY <1>1, <1>4 DEF Over
  <2>2. req[r].phase # "acted"
    BY <1>4, RequestType DEF Sound
  <2>3. p \in Phases /\ p \in {"conflict", "replayed", "answered", "dead"}
    BY <2>2 DEF Phases
  <2> QED
    BY <1>2, <1>4, <2>1, <2>2, <2>3, UnsentType DEF Closed
<1> QED
  BY <1>3, <1>4, RequestType

LEMMA AddressStep == ASSUME ApiInv, NEW r \in Requests, LimitAddress(r) PROVE Handled(r)
<1>1. /\ req[r].phase = "open" /\ req[r].todo # <<>> /\ Head(req[r].todo) = "ip"
      /\ Pass(r) \/ Refuse(r)
      /\ UNCHANGED <<route, started, live, stored, spent, deaths>>
  BY DEF LimitAddress, Under
<1>2. CASE Pass(r)
  BY <1>1, <1>2, PassStep, RequestType DEF Handled, Went, Limits, BodyLimits
<1>3. CASE Refuse(r)
  BY <1>1, <1>3, RefuseStep, RequestType DEF Handled
<1> QED
  BY <1>1, <1>2, <1>3

LEMMA SessionStep == ASSUME ApiInv, NEW r \in Requests, CheckSession(r) PROVE Handled(r)
<1>1. /\ req[r].phase = "open" /\ req[r].todo # <<>> /\ Head(req[r].todo) = "session"
      /\ IF req[r].session \in live THEN Pass(r) ELSE Refuse(r)
      /\ UNCHANGED <<route, started, live, stored, spent, deaths>>
  BY DEF CheckSession, Under
<1>2. CASE req[r].session \in live
  BY <1>1, <1>2, PassStep, RequestType DEF Handled, Went, Limits, BodyLimits
<1>3. CASE req[r].session \notin live
  BY <1>1, <1>3, RefuseStep, RequestType DEF Handled
<1> QED
  BY <1>2, <1>3

LEMMA SchemaStep == ASSUME ApiInv, NEW r \in Requests, ParseSchema(r) PROVE Handled(r)
<1>1. /\ req[r].phase = "open" /\ req[r].todo # <<>> /\ Head(req[r].todo) = "schema"
      /\ IF Complete(r) THEN Pass(r) ELSE Refuse(r)
      /\ UNCHANGED <<route, started, live, stored, spent, deaths>>
  BY DEF ParseSchema, Under
<1>2. CASE Complete(r)
  BY <1>1, <1>2, PassStep, RequestType DEF Handled, Went, Limits, BodyLimits
<1>3. CASE ~Complete(r)
  BY <1>1, <1>3, RefuseStep, RequestType DEF Handled
<1> QED
  BY <1>2, <1>3

LEMMA LimitStep == ASSUME ApiInv, NEW r \in Requests, LimitIdentifier(r) PROVE Handled(r)
<1> DEFINE action == req[r].for.action
           limit == Head(req[r].todo)
           id == Identifier(r, limit)
<1>1. /\ req[r].phase = "open" /\ req[r].todo # <<>> /\ limit \in Limits
      /\ IF Free(r, limit) THEN Pass(r) /\ UNCHANGED spent
         ELSE IF Spent(action, limit, id) < Allowed
         THEN Pass(r) /\ spent' = spent \cup {<<action, limit, id, Spent(action, limit, id) + 1>>}
         ELSE Refuse(r) /\ UNCHANGED spent
      /\ UNCHANGED <<route, started, live, stored, deaths>>
  BY Zenon DEF LimitIdentifier, Free
<1>2. limit # "act" /\ limit # "session" /\ limit # "body"
  BY <1>1 DEF Limits, BodyLimits
<1>3. ASSUME Pass(r), IF Free(r, limit) THEN spent' = spent ELSE Counts(action, limit, id) PROVE Handled(r)
  <2>1. Others(r) /\ req'[r] \in RequestSet /\ SameRequest(r)
        /\ req'[r].phase = "open" /\ req'[r].ran = req[r].ran
        /\ req'[r].todo = Tail(req[r].todo) /\ req'[r].ids = req[r].ids
    BY <1>1, <1>3, PassStep
  <2>2. IF limit \in Limits /\ ~Free(r, limit) THEN Counts(action, limit, id) ELSE spent' = spent
    BY <1>1, <1>3
  <2>3. Went(r)
    BY <1>1, <1>2, <2>1, <2>2, Zenon DEF Went
  <2> QED
    BY <1>1, <2>1, <2>3, RequestType DEF Handled
<1>4. ASSUME Refuse(r), spent' = spent PROVE Handled(r)
  BY <1>1, <1>4, RefuseStep, RequestType DEF Handled
<1> QED
  BY <1>1, <1>3, <1>4, Zenon DEF Counts

LEMMA BodyStep == ASSUME ApiInv, NEW r \in Requests, ReadBody(r) PROVE Handled(r)
<1>1. /\ req[r].phase = "open" /\ req[r].todo # <<>> /\ Head(req[r].todo) = "body"
      /\ UNCHANGED <<route, started, live, stored, spent, deaths>>
  BY DEF ReadBody, Under
<1>2. ASSUME Refuse(r) PROVE Handled(r)
  BY <1>1, <1>2, RefuseStep, RequestType DEF Handled
<1>3. ASSUME NEW ids \in [LimitsOf(req[r].for) -> Texts \cup {None}],
             req' = [req EXCEPT ![r].todo = Tail(@), ![r].ids = ids]
      PROVE  Handled(r)
  <2> DEFINE one == [req[r] EXCEPT !.todo = Tail(req[r].todo)]
             two == [one EXCEPT !.ids = ids]
  <2>1. req' = [req EXCEPT ![r] = two]
    BY <1>3, RequestType, Zenon
  <2>2. one \in RequestSet
    <3>1. Tail(req[r].todo) \in Seq(StageNames)
      BY <1>1, RequestType, TailFacts
    <3> QED
      BY <3>1, RequestType DEF RequestSet
  <2>3. ids \in IdMaps
    BY DEF IdMaps, LimitsOf
  <2>4. /\ one.for = req[r].for /\ one.session = req[r].session /\ one.late = req[r].late
        /\ one.phase = "open" /\ one.ran = req[r].ran /\ one.todo = Tail(req[r].todo)
    BY <1>1, RequestType DEF RequestSet
  <2> HIDE DEF one
  <2>5. two \in RequestSet
    BY <2>2, <2>3 DEF RequestSet
  <2>6. /\ two.for = one.for /\ two.session = one.session /\ two.late = one.late
        /\ two.phase = one.phase /\ two.ran = one.ran /\ two.todo = one.todo /\ two.ids = ids
    BY <2>2 DEF RequestSet
  <2> HIDE DEF two
  <2>7. req'[r] = two
    BY <2>1, RequestType
  <2>8. Went(r)
    BY <1>1, <2>4, <2>6, <2>7 DEF Went, SameRequest, Limits, BodyLimits
  <2> QED
    BY <1>1, <2>1, <2>5, <2>7, <2>8, RequestType DEF Handled, Others
<1> QED
  BY <1>1, <1>2, <1>3 DEF ReadBody, LimitsOf

LEMMA ActStep == ASSUME ApiInv, NEW r \in Requests, Act(r) PROVE Handled(r)
<1>1. /\ req[r].phase = "open" /\ req[r].todo # <<>> /\ Head(req[r].todo) = "act"
      /\ UNCHANGED <<route, started, stored, spent, deaths>>
  BY DEF Act, Under
<1>2. Complete(r) \in BOOLEAN
  BY DEF Complete
<1>3. ASSUME NEW p \in {"acted", "refused"}, p = "acted" => Complete(r),
             req' = [req EXCEPT ![r].phase = p, ![r].todo = <<>>, ![r].ran = Complete(r)],
             live' = IF p = "acted" THEN live \ Ended(r) ELSE live
      PROVE  Handled(r)
  <2> DEFINE one == [req[r] EXCEPT !.phase = p]
             two == [one EXCEPT !.todo = <<>>]
             three == [two EXCEPT !.ran = Complete(r)]
  <2>1. req' = [req EXCEPT ![r] = three]
    BY <1>3, RequestType, Zenon
  <2>2. one \in RequestSet
    BY RequestType DEF RequestSet, Phases
  <2>3. /\ one.for = req[r].for /\ one.session = req[r].session /\ one.late = req[r].late
        /\ one.phase = p /\ one.ids = req[r].ids
    BY RequestType DEF RequestSet
  <2> HIDE DEF one
  <2>4. two \in RequestSet
    <3>1. <<>> \in Seq(StageNames)
      OBVIOUS
    <3> QED
      BY <2>2, <3>1 DEF RequestSet
  <2>5. /\ two.for = one.for /\ two.session = one.session /\ two.late = one.late
        /\ two.phase = one.phase /\ two.todo = <<>> /\ two.ids = one.ids
    BY <2>2 DEF RequestSet
  <2> HIDE DEF two
  <2>6. three \in RequestSet
    BY <1>2, <2>4 DEF RequestSet
  <2>7. /\ three.for = two.for /\ three.session = two.session /\ three.late = two.late
        /\ three.phase = two.phase /\ three.todo = two.todo /\ three.ran = Complete(r) /\ three.ids = two.ids
    BY <2>4 DEF RequestSet
  <2> HIDE DEF three
  <2>8. req'[r] = three
    BY <2>1, RequestType
  <2>9. Served(r)
    BY <1>1, <1>3, <2>3, <2>5, <2>7, <2>8 DEF Served, SameRequest
  <2> QED
    BY <1>1, <2>1, <2>6, <2>8, <2>9, RequestType DEF Handled, Others
<1>4. CASE Complete(r) /\ live' = live \ Ended(r)
           /\ req' = [req EXCEPT ![r].phase = "acted", ![r].todo = <<>>, ![r].ran = TRUE]
  <2>1. TRUE = Complete(r)
    BY <1>2, <1>4
  <2> QED
    BY <1>3, <1>4, <2>1
<1>5. CASE live' = live /\ req' = [req EXCEPT ![r].phase = "refused", ![r].todo = <<>>, ![r].ran = Complete(r)]
  BY <1>3, <1>5
<1> QED
  BY <1>4, <1>5 DEF Act

LEMMA AnswerStep == ASSUME ApiInv, NEW r \in Requests, Answer(r) PROVE Handled(r)
<1>1. /\ req' = [req EXCEPT ![r] = Over(r, IF req[r].phase = "acted" THEN "done" ELSE "answered")]
      /\ stored' = [k \in Keys |-> IF k = req[r].key THEN "kept" ELSE stored[k]]
      /\ UNCHANGED <<route, started, live, spent, deaths>>
  BY DEF Answer
<1>2. stored' \in [Keys -> {"free", "pending", "kept"}]
  BY <1>1, RequestType
<1>3. CASE req[r].phase = "acted"
  <2>1. req' = [req EXCEPT ![r] = Over(r, "done")]
    BY <1>1, <1>3
  <2> QED
    BY <1>1, <1>2, <1>3, <2>1, EndStep DEF Handled
<1>4. CASE req[r].phase # "acted"
  <2>1. req' = [req EXCEPT ![r] = Over(r, "answered")]
    BY <1>1, <1>4
  <2> QED
    BY <1>1, <1>2, <1>4, <2>1, EndStep DEF Handled
<1> QED
  BY <1>3, <1>4

LEMMA DieStep == ASSUME ApiInv, NEW r \in Requests, Die(r) PROVE Handled(r)
  BY RequestType, EndStep DEF Die, Handled

LEMMA HandleStep == ASSUME ApiInv, NEW r \in Requests, Handle(r) PROVE Handled(r)
  BY AddressStep, SessionStep, BodyStep, SchemaStep, LimitStep, ActStep, AnswerStep, DieStep DEF Handle

LEMMA SendStep == ASSUME ApiInv, NEW r \in Requests, Send(r) PROVE Handled(r)
<1>1. route \in Routes /\ LogoutAll \in Routes
  BY DEF ApiInv, ApiTypeOK, Routes
<1> QED
  BY <1>1, ReceiveStep DEF Send

\* Every step is one of these.
LEMMA StepShapes ==
    ASSUME ApiInv, PagesTypeOK, [Next]_vars
    PROVE  Quiet \/ \E r \in Requests : Handled(r)
<1> USE DEF ApiInv, ApiTypeOK
<1>1. ASSUME UNCHANGED apiVars PROVE Quiet
  BY <1>1 DEF apiVars, Quiet
<1>2. ASSUME NEW t \in Tabs, Browse(t) PROVE Quiet \/ \E r \in Requests : Handled(r)
  <2>1. CASE SignIn(t)
    BY <2>1 DEF SignIn, Quiet
  <2>2. CASE PerformLogout(t)
    <3>1. Logout \in Routes /\ cookie.session \in (1..started) \cup {None}
      BY DEF Routes, PagesTypeOK
    <3> QED
      BY <2>2, <3>1, ReceiveStep DEF PerformLogout
  <2> QED
    BY <1>1, <1>2, <2>1, <2>2 DEF Browse, Open, Proxy, Page, LogoutAnswered, SignOut
<1>3. CASE EndSession
  BY <1>3 DEF EndSession, Quiet
<1>4. CASE RefreshSession
  BY <1>1, <1>4 DEF RefreshSession
<1>5. CASE UNCHANGED vars
  BY <1>1, <1>5 DEF vars
<1> QED
  BY <1>2, <1>3, <1>4, <1>5, HandleStep, SendStep DEF Next
-------------------------------------------------------------------------------
(***************************************************************************)
(* The invariant of the requests                                           *)
(***************************************************************************)
LEMMA SoundStays ==
    ASSUME ApiInv, NEW r \in Requests, req'[r] = req[r]
    PROVE  Sound(r)'
  BY RequestType DEF Sound, Complete

LEMMA MapFacts ==
    ASSUME NEW rt, NEW ids, ids = <<>> \/ ids \in [LimitsOf(rt) -> Texts \cup {None}]
    PROVE  DOMAIN ids \subseteq LimitsOf(rt)
  OBVIOUS

LEMMA SoundOfHandled ==
    ASSUME ApiInv, NEW r \in Requests, Handled(r)
    PROVE  Sound(r)'
<1>1. CASE Came(r)
  <2>1. req'[r].for \in Routes /\ req'[r].todo = req'[r].for.stages /\ req'[r].ids = <<>>
        /\ req'[r].phase = "open" /\ ~req'[r].ran
    BY <1>1 DEF Came
  <2>2. Orderly(req'[r].todo, LimitsOf(req'[r].for))
    BY <2>1, RouteFacts
  <2>3. "body" \in Elems(req'[r].todo) \/ LimitsOf(req'[r].for) = {}
    BY <2>1, BodyBeforeLimits DEF LimitsOf
  <2> QED
    BY <2>1, <2>2, <2>3 DEF Sound
<1>2. CASE Closed(r)
  BY <1>2 DEF Closed, Sound, Unsent
<1>3. CASE Went(r)
  <2>1. Sound(r) /\ req[r].phase = "open" /\ req[r].todo \in Seq(StageNames) /\ req[r].todo # <<>>
    BY <1>3, RequestType DEF Went
  <2>2. /\ Orderly(Tail(req[r].todo), LimitsOf(req[r].for))
        /\ Elems(Tail(req[r].todo)) = Elems(req[r].todo) \ {Head(req[r].todo)}
    BY <2>1, OrderlyTail DEF Sound
  <2> QED
    BY <1>3, <2>1, <2>2 DEF Went, Sound, SameRequest
<1>4. CASE Refused(r)
  <2>1. /\ req'[r].phase = "refused" /\ req'[r].ids = <<>> /\ req'[r].ran = req[r].ran
    BY <1>4, RequestType DEF Refused, RequestSet
  <2> QED
    BY <1>4, <2>1, RequestType DEF Sound, Refused
<1>5. CASE Served(r)
  <2>1. Sound(r) /\ req[r].phase = "open" /\ req[r].todo \in Seq(StageNames) /\ req[r].todo # <<>>
    BY <1>5, RequestType DEF Served
  <2>2. Elems(req[r].todo) = {"act"}
    BY <1>5, <2>1, OrderlyTail DEF Sound, Served
  <2>3. Complete(r)' = Complete(r)
    BY <1>5 DEF Complete, Served
  <2> QED
    BY <1>5, <2>1, <2>2, <2>3 DEF Served, Sound, SameRequest
<1>6. CASE Finished(r)
  <2>1. PICK p \in {"answered", "done", "dead"} : req'[r] = [req[r] EXCEPT !.phase = p]
    BY <1>6 DEF Finished
  <2>2. /\ req'[r].phase = p /\ req'[r].ids = req[r].ids /\ req'[r].ran = req[r].ran
        /\ req'[r].for = req[r].for
    BY <2>1, RequestType DEF RequestSet
  <2>3. Complete(r)' = Complete(r)
    BY <2>2 DEF Complete
  <2> QED
    BY <1>6, <2>2, <2>3, RequestType DEF Sound, Finished
<1> QED
  BY <1>1, <1>2, <1>3, <1>4, <1>5, <1>6 DEF Handled

\* What a handled request keeps of itself, whatever became of it.
LEMMA HandledFacts ==
    ASSUME ApiInv, NEW r \in Requests, Handled(r)
    PROVE  /\ UNCHANGED <<route, started>> /\ live' \subseteq live
           /\ req' \in [Requests -> RequestSet]
           /\ \A q \in Requests : q # r => req'[q] = req[q]
           /\ req'[r].session \in (1..started) \cup {None}
<1>1. \A q \in Requests : q # r => req'[q] = req[q]
  BY RequestType DEF Handled, Others
<1>2. req' \in [Requests -> RequestSet]
  BY RequestType DEF Handled, Others
<1>3. live' \subseteq live
  BY DEF Handled, Came, Closed, Went, Refused, Served, Finished
<1>4. req'[r].session \in (1..started) \cup {None}
  <2>1. CASE Closed(r)
    BY <2>1 DEF Closed, Unsent
  <2>2. CASE Refused(r)
    BY <2>2, RequestType DEF Refused, RequestSet
  <2>3. CASE Finished(r)
    BY <2>3, RequestType DEF Finished, RequestSet
  <2> QED
    BY <2>1, <2>2, <2>3, RequestType DEF Handled, Came, Went, Served, SameRequest
<1> QED
  BY <1>1, <1>2, <1>3, <1>4 DEF Handled

LEMMA ApiStep ==
    ASSUME ApiInv, PagesTypeOK, [Next]_vars
    PROVE  ApiInv'
<1>1. ASSUME Quiet PROVE ApiInv'
  <2>1. ApiTypeOK'
    BY <1>1 DEF ApiInv, ApiTypeOK, Quiet
  <2>2. \A r \in Requests : Sound(r)'
    BY <1>1, SoundStays DEF Quiet
  <2> QED
    BY <2>1, <2>2 DEF ApiInv
<1>2. ASSUME NEW r \in Requests, Handled(r) PROVE ApiInv'
  <2>1. \A q \in Requests : Sound(q)'
    BY <1>2, HandledFacts, SoundStays, SoundOfHandled
  <2>2. /\ route' = route /\ started' = started /\ live' \subseteq live
        /\ req' \in [Requests -> RequestSet]
        /\ \A q \in Requests : req'[q].session \in (1..started) \cup {None}
    BY <1>2, HandledFacts, RequestType
  <2>3. stored' \in [Keys -> {"free", "pending", "kept"}]
    BY <1>2 DEF Handled
  <2>4. ApiTypeOK'
    BY <2>2, <2>3 DEF ApiInv, ApiTypeOK
  <2> QED
    BY <2>1, <2>4 DEF ApiInv
<1> QED
  BY <1>1, <1>2, StepShapes

LEMMA ApiStart == ApiInit => ApiInv
<1> SUFFICES ASSUME ApiInit PROVE ApiInv
  OBVIOUS
<1>1. ApiTypeOK
  BY UnsentType DEF ApiInit, ApiTypeOK, Unsent
<1>2. ASSUME NEW r \in Requests PROVE Sound(r)
  <2>1. req[r].phase = "unsent" /\ ~req[r].ran /\ req[r].ids = <<>>
    BY DEF ApiInit, Unsent
  <2> QED
    BY <2>1 DEF Sound
<1> QED
  BY <1>1, <1>2 DEF ApiInv
-------------------------------------------------------------------------------
(***************************************************************************)
(* The types of the pages                                                  *)
(***************************************************************************)
LEMMA TabType ==
    ASSUME PagesTypeOK, NEW t \in Tabs
    PROVE  /\ tab[t] \in TabSet /\ tab \in [Tabs -> TabSet]
           /\ tab[t].page \in Pages /\ tab[t].callback \in Protected \cup {None, "/nowhere"}
           /\ tab[t].asked \in Protected \cup {None} /\ tab[t].locale \in BOOLEAN
           /\ tab[t].session \in (1..started) \cup {None}
  BY DEF PagesTypeOK, TabSet

\* A tab on its way to another page
LEMMA GoFacts ==
    ASSUME PagesTypeOK, NEW t \in Tabs, NEW page \in Pages, NEW locale \in BOOLEAN,
           NEW callback \in Protected \cup {None, "/nowhere"}, Go(t, page, locale, callback)
    PROVE  /\ tab' = [tab EXCEPT ![t] = tab'[t]] /\ tab'[t] \in TabSet
           /\ tab'[t].step = "edge" /\ tab'[t].page = page /\ tab'[t].callback = callback
           /\ tab'[t].asked = tab[t].asked /\ tab'[t].session = tab[t].session
<1> DEFINE one == [tab[t] EXCEPT !.step = "edge"]
           two == [one EXCEPT !.page = page]
           three == [two EXCEPT !.locale = locale]
           four == [three EXCEPT !.callback = callback]
<1>1. tab' = [tab EXCEPT ![t] = four]
  BY TabType, Zenon DEF Go
<1>2. one \in TabSet /\ one.step = "edge" /\ one.asked = tab[t].asked /\ one.session = tab[t].session
  BY TabType DEF TabSet
<1> HIDE DEF one
<1>3. two \in TabSet /\ two.step = one.step /\ two.asked = one.asked /\ two.session = one.session /\ two.page = page
  BY <1>2 DEF TabSet
<1> HIDE DEF two
<1>4. three \in TabSet /\ three.step = two.step /\ three.asked = two.asked /\ three.session = two.session
      /\ three.page = two.page
  BY <1>3 DEF TabSet
<1> HIDE DEF three
<1>5. four \in TabSet /\ four.step = three.step /\ four.asked = three.asked /\ four.session = three.session
      /\ four.page = three.page /\ four.callback = callback
  BY <1>4 DEF TabSet
<1> HIDE DEF four
<1>6. tab'[t] = four
  BY <1>1, TabType
<1> QED
  BY <1>1, <1>2, <1>3, <1>4, <1>5, <1>6

LEMMA RestFacts ==
    /\ Rest \in TabSet /\ Rest.step = "rest" /\ Rest.asked = None /\ Rest.session = None
    /\ \A page \in Pages : LET at == [Rest EXCEPT !.page = page]
                           IN  at \in TabSet /\ at.step = "rest" /\ at.asked = None /\ at.session = None
<1>1. "/nowhere" \in Pages
  BY DEF Pages
<1> QED
  BY <1>1 DEF Rest, TabSet

LEMMA UpsetFacts ==
    ASSUME PagesTypeOK
    PROVE  /\ Upset \in [Tabs -> TabSet]
           /\ \A u \in Tabs : /\ Upset[u].asked = None /\ Upset[u].step = tab[u].step
                              /\ Upset[u].session = tab[u].session /\ Upset[u].logout = tab[u].logout
<1>1. \A u \in Tabs : LET at == [tab[u] EXCEPT !.asked = None]
                      IN  /\ at \in TabSet /\ at.asked = None /\ at.step = tab[u].step
                          /\ at.session = tab[u].session /\ at.logout = tab[u].logout
  BY TabType DEF TabSet
<1> QED
  BY <1>1 DEF Upset

LEMMA StayFacts ==
    ASSUME PagesTypeOK, NEW t \in Tabs, Stay(t)
    PROVE  /\ tab' = [tab EXCEPT ![t] = tab'[t]] /\ tab'[t] \in TabSet
           /\ tab'[t].step = "rest" /\ tab'[t].asked = None /\ tab'[t].session = None
  BY RestFacts, TabType DEF Stay

LEMMA ShowFacts ==
    ASSUME PagesTypeOK, NEW t \in Tabs, Show(t)
    PROVE  /\ tab' = [tab EXCEPT ![t] = tab'[t]] /\ tab'[t] \in TabSet /\ tab'[t].step = "rest"
           /\ IF tab[t].page = "/login"
              THEN /\ tab'[t].page = tab[t].page /\ tab'[t].callback = tab[t].callback
                   /\ tab'[t].asked = tab[t].asked /\ tab'[t].session = tab[t].session
              ELSE tab'[t].asked = None /\ tab'[t].session = None
<1>1. CASE tab[t].page = "/login"
  <2>1. tab' = [tab EXCEPT ![t] = [tab[t] EXCEPT !.step = "rest"]]
    BY <1>1, TabType DEF Show
  <2>2. tab'[t] = [tab[t] EXCEPT !.step = "rest"]
    BY <2>1, TabType
  <2> QED
    BY <1>1, <2>1, <2>2, TabType DEF TabSet
<1>2. CASE tab[t].page # "/login"
  <2>1. tab' = [tab EXCEPT ![t] = [Rest EXCEPT !.page = tab[t].page]]
    BY <1>2, TabType DEF Show
  <2>2. tab'[t] = [Rest EXCEPT !.page = tab[t].page]
    BY <2>1, TabType
  <2> QED
    BY <1>2, <2>1, <2>2, RestFacts, TabType
<1> QED
  BY <1>1, <1>2

LEMMA StepFacts ==
    ASSUME PagesTypeOK, NEW t \in Tabs, NEW step \in {"page", "signOut"}, tab' = [tab EXCEPT ![t].step = step]
    PROVE  /\ tab' = [tab EXCEPT ![t] = tab'[t]] /\ tab'[t] \in TabSet
           /\ tab'[t].step = step /\ tab'[t].page = tab[t].page /\ tab'[t].callback = tab[t].callback
           /\ tab'[t].asked = tab[t].asked /\ tab'[t].session = tab[t].session
<1>1. tab' = [tab EXCEPT ![t] = [tab[t] EXCEPT !.step = step]]
  OBVIOUS
<1>2. tab'[t] = [tab[t] EXCEPT !.step = step]
  BY <1>1, TabType
<1> QED
  BY <1>1, <1>2, TabType DEF TabSet

(***************************************************************************)
(* What the actions of a tab do to it                                      *)
(***************************************************************************)
TabsKept(t) ==
    /\ tab' = [tab EXCEPT ![t] = tab'[t]] /\ tab'[t] \in TabSet
    /\ tab'[t].session \in {None, tab[t].session, cookie.session}

LEMMA OpenStep ==
    ASSUME PagesTypeOK, NEW t \in Tabs, Open(t)
    PROVE  TabsKept(t) /\ TabInv(t)' /\ tab'[t].step = "edge"
<1>1. UNCHANGED cookie
  BY DEF Open
<1>2. PICK page \in Pages, locale \in BOOLEAN, callback \in {None, "/nowhere"} :
          tab' = [tab EXCEPT ![t] = [Rest EXCEPT !.step = "edge", !.page = page, !.locale = locale,
                         !.callback = callback,
                         !.asked = IF page \in Protected /\ ~cookie.revoked THEN page ELSE None]]
  BY DEF Open
<1> DEFINE asked == IF page \in Protected /\ ~cookie.revoked THEN page ELSE None
           one == [Rest EXCEPT !.step = "edge"]
           two == [one EXCEPT !.page = page]
           three == [two EXCEPT !.locale = locale]
           four == [three EXCEPT !.callback = callback]
           five == [four EXCEPT !.asked = asked]
<1>3. tab' = [tab EXCEPT ![t] = five]
  BY <1>2, Zenon
<1>4. asked \in Protected \cup {None} /\ (asked # None => asked = page /\ asked \in Protected /\ ~cookie.revoked)
  OBVIOUS
<1> HIDE DEF asked
<1>5. one \in TabSet /\ one.step = "edge" /\ one.session = None
  BY RestFacts DEF TabSet
<1> HIDE DEF one
<1>6. two \in TabSet /\ two.step = "edge" /\ two.session = None /\ two.page = page
  BY <1>5 DEF TabSet
<1> HIDE DEF two
<1>7. three \in TabSet /\ three.step = "edge" /\ three.session = None /\ three.page = page
  BY <1>6 DEF TabSet
<1> HIDE DEF three
<1>8. four \in TabSet /\ four.step = "edge" /\ four.session = None /\ four.page = page
  BY <1>7 DEF TabSet
<1> HIDE DEF four
<1>9. five \in TabSet /\ five.step = "edge" /\ five.session = None /\ five.page = page /\ five.asked = asked
  BY <1>4, <1>8 DEF TabSet
<1> HIDE DEF five
<1>10. tab'[t] = five
  BY <1>3, TabType
<1> QED
  BY <1>1, <1>3, <1>4, <1>9, <1>10 DEF TabsKept, TabInv

\* None is no session.
LEMMA NoneIsNoSession == None \notin Nat
  BY ApiRoutesAssumption

LEMMA CookieFacts ==
    ASSUME PagesTypeOK, ApiInv
    PROVE  /\ cookie.session = None /\ ~cookie.revoked => cookie = NoCookie
           /\ cookie.session \in (1..started) \cup {None} /\ cookie.revoked \in BOOLEAN
           /\ cookie.session = None => ~Auth
<1>1. cookie \in [session : (1..started) \cup {None}, revoked : BOOLEAN]
  BY DEF PagesTypeOK
<1>2. cookie = [session |-> cookie.session, revoked |-> cookie.revoked]
  BY <1>1
<1>3. cookie.session \in (1..started) \cup {None} /\ cookie.revoked \in BOOLEAN
  BY <1>1
<1>4. cookie.session = None => ~Auth
  <2>1. live \subseteq Nat
    BY DEF ApiInv, ApiTypeOK
  <2> QED
    BY <2>1, NoneIsNoSession DEF Auth
<1>5. ASSUME cookie.session = None, ~cookie.revoked PROVE cookie = NoCookie
  <2>1. cookie.revoked = FALSE
    BY <1>3, <1>5
  <2> QED
    BY <1>2, <1>5, <2>1, Zenon DEF NoCookie
<1> QED
  BY <1>3, <1>4, <1>5

LEMMA ProxyStep ==
    ASSUME PagesTypeOK, ApiInv, NEW t \in Tabs, TabInv(t), Proxy(t)
    PROVE  TabsKept(t) /\ TabInv(t)' /\ tab'[t].step \in {"edge", "page"}
<1> DEFINE page == tab[t].page
           to == ResolveAuthRedirect(page)
<1>1. /\ tab[t].step = "edge" /\ UNCHANGED <<live, cookie>>
      /\ CASE ~tab[t].locale -> Go(t, IF page = "/" THEN "/login" ELSE page, TRUE, tab[t].callback)
           [] tab[t].locale /\ (LeftToPage(page) \/ to = None) -> tab' = [tab EXCEPT ![t].step = "page"]
           [] OTHER -> Go(t, to, TRUE, IF cookie = NoCookie /\ page \in Protected THEN page ELSE tab[t].callback)
  BY DEF Proxy, apiVars
<1>2. Auth' = Auth
  BY <1>1 DEF Auth
<1> USE DEF TabsKept
<1>3. CASE ~tab[t].locale
  <2> DEFINE dest == IF page = "/" THEN "/login" ELSE page
  <2>1. Go(t, dest, TRUE, tab[t].callback)
    BY <1>1, <1>3
  <2>2. dest \in Pages
    BY TabType DEF Pages, AuthPages
  <2>3. page \in Protected \cup {"/login"} => dest = page
    BY DEF Protected
  <2> HIDE DEF dest
  <2>4. /\ tab' = [tab EXCEPT ![t] = tab'[t]] /\ tab'[t] \in TabSet
        /\ tab'[t].step = "edge" /\ tab'[t].page = dest /\ tab'[t].callback = tab[t].callback
        /\ tab'[t].asked = tab[t].asked /\ tab'[t].session = tab[t].session
    BY <2>1, <2>2, GoFacts, TabType
  <2> QED
    BY <1>1, <1>2, <2>3, <2>4 DEF TabInv
<1>4. CASE tab[t].locale /\ (LeftToPage(page) \/ to = None)
  <2>1. tab' = [tab EXCEPT ![t].step = "page"]
    BY <1>1, <1>4
  <2>2. /\ tab' = [tab EXCEPT ![t] = tab'[t]] /\ tab'[t] \in TabSet
        /\ tab'[t].step = "page" /\ tab'[t].page = page /\ tab'[t].callback = tab[t].callback
        /\ tab'[t].asked = tab[t].asked /\ tab'[t].session = tab[t].session
    BY <2>1, StepFacts
  <2> QED
    BY <1>1, <1>2, <2>2 DEF TabInv
<1>5. CASE tab[t].locale /\ ~LeftToPage(page) /\ to # None
  <2> DEFINE callback == IF cookie = NoCookie /\ page \in Protected THEN page ELSE tab[t].callback
  <2>1. page \in Protected /\ ~IsAuthenticated /\ to = "/login"
    BY <1>5 DEF ResolveAuthRedirect, LeftToPage
  <2>2. Go(t, "/login", TRUE, callback)
    BY <1>1, <1>5, <2>1
  <2> HIDE DEF to
  <2>3. callback \in Protected \cup {None, "/nowhere"}
    BY TabType
  <2>4. "/login" \in Pages
    BY DEF Pages, AuthPages
  <2>5. ~cookie.revoked => callback = page /\ ~Auth
    BY <2>1, CookieFacts DEF IsAuthenticated
  <2> HIDE DEF callback
  <2>6. /\ tab' = [tab EXCEPT ![t] = tab'[t]] /\ tab'[t] \in TabSet
        /\ tab'[t].step = "edge" /\ tab'[t].page = "/login" /\ tab'[t].callback = callback
        /\ tab'[t].asked = tab[t].asked /\ tab'[t].session = tab[t].session
    BY <2>2, <2>3, <2>4, GoFacts
  <2>7. page # "/login"
    BY <2>1 DEF Protected
  <2> QED
    BY <1>1, <1>2, <2>5, <2>6, <2>7 DEF TabInv
<1> QED
  BY <1>3, <1>4, <1>5, TabType

LEMMA PageStep ==
    ASSUME PagesTypeOK, ApiInv, NEW t \in Tabs, TabInv(t), Page(t)
    PROVE  TabsKept(t) /\ TabInv(t)' /\ tab'[t].step \in {"edge", "rest"}
<1> DEFINE page == tab[t].page
<1>1. /\ tab[t].step = "page" /\ UNCHANGED <<live, cookie>>
      /\ CASE page \in Protected -> LoadDashboardPageData(t)
           [] page \in AuthPages -> AuthPage(t)
           [] page \in Moved -> Go(t, "/login", TRUE, None)
           [] OTHER -> Show(t)
  BY DEF Page, apiVars
<1>2. Auth' = Auth
  BY <1>1 DEF Auth
<1> USE DEF TabsKept
<1>3. "/login" \in Pages /\ "/dashboard" \in Pages
  BY DEF Pages, AuthPages, Protected
<1>4. tab[t].asked # None => page \in Protected \/ (page = "/login" /\ ~Auth)
  BY DEF TabInv
<1>5. CASE Show(t)
  <2>1. tab[t].asked # None => page = "/login" \/ page \in Protected
    BY <1>4
  <2>2. /\ tab' = [tab EXCEPT ![t] = tab'[t]] /\ tab'[t] \in TabSet /\ tab'[t].step = "rest"
        /\ IF tab[t].page = "/login"
           THEN /\ tab'[t].page = tab[t].page /\ tab'[t].callback = tab[t].callback
                /\ tab'[t].asked = tab[t].asked /\ tab'[t].session = tab[t].session
           ELSE tab'[t].asked = None /\ tab'[t].session = None
    BY <1>5, ShowFacts
  <2>3. "/login" \notin Protected
    BY DEF Protected
  <2> QED
    BY <1>1, <1>2, <2>2, <2>3 DEF TabInv
<1>6. ASSUME NEW to \in Pages, NEW callback \in Protected \cup {None, "/nowhere"}, Go(t, to, TRUE, callback),
             tab[t].asked # None => to = "/login" /\ callback = page /\ page \in Protected /\ ~Auth
      PROVE  TabsKept(t) /\ TabInv(t)' /\ tab'[t].step = "edge"
  <2>1. /\ tab' = [tab EXCEPT ![t] = tab'[t]] /\ tab'[t] \in TabSet
        /\ tab'[t].step = "edge" /\ tab'[t].page = to /\ tab'[t].callback = callback
        /\ tab'[t].asked = tab[t].asked /\ tab'[t].session = tab[t].session
    BY <1>6, GoFacts
  <2>2. "/login" \notin Protected
    BY DEF Protected
  <2> QED
    BY <1>1, <1>2, <1>6, <2>1, <2>2 DEF TabInv
<1>7. CASE page \in Protected
  <2>1. IF Auth THEN Show(t) ELSE Go(t, "/login", TRUE, page)
    BY <1>1, <1>7 DEF LoadDashboardPageData, Protected, AuthPages, Moved
  <2> QED
    BY <1>3, <1>5, <1>6, <1>7, <2>1
<1>8. CASE page \in AuthPages
  <2>1. IF Auth THEN Go(t, "/dashboard", TRUE, None) ELSE Show(t)
    BY <1>1, <1>8 DEF AuthPage, Protected, AuthPages, Moved
  <2>2. page \notin Protected
    BY <1>8 DEF Protected, AuthPages
  <2> QED
    BY <1>3, <1>4, <1>5, <1>6, <2>1, <2>2
<1>9. CASE page \in Moved
  <2>1. Go(t, "/login", TRUE, None)
    BY <1>1, <1>9 DEF Protected, AuthPages, Moved
  <2>2. page \notin Protected /\ page # "/login"
    BY <1>9 DEF Protected, Moved
  <2> QED
    BY <1>3, <1>4, <1>6, <2>1, <2>2
<1>10. CASE page \notin Protected \cup AuthPages \cup Moved
  <2>1. Show(t)
    BY <1>1, <1>10
  <2> QED
    BY <1>5, <2>1
<1> QED
  BY <1>7, <1>8, <1>9, <1>10

\* The invariant of the requests and of the tabs on their way
NavigationInv == ApiInv /\ PagesTypeOK /\ \A t \in Tabs : TabInv(t)

LEMMA TabsStay ==
    ASSUME NavigationInv, UNCHANGED <<started, tab, cookie>>, live' \subseteq live
    PROVE  PagesTypeOK' /\ \A u \in Tabs : TabInv(u)'
<1>1. PagesTypeOK'
  BY DEF NavigationInv, PagesTypeOK
<1>2. Auth' => Auth
  BY DEF Auth
<1> QED
  BY <1>1, <1>2 DEF NavigationInv, TabInv

LEMMA OneTabGoes ==
    ASSUME NavigationInv, NEW t \in Tabs, TabsKept(t), TabInv(t)', UNCHANGED <<started, cookie>>, live' \subseteq live
    PROVE  PagesTypeOK' /\ \A u \in Tabs : TabInv(u)'
<1>1. tab \in [Tabs -> TabSet] /\ tab' = [tab EXCEPT ![t] = tab'[t]] /\ tab'[t] \in TabSet
  BY DEF NavigationInv, PagesTypeOK, TabsKept
<1>2. tab' \in [Tabs -> TabSet] /\ \A u \in Tabs : u # t => tab'[u] = tab[u]
  BY <1>1
<1>3. tab'[t].session \in (1..started) \cup {None}
  BY TabType, CookieFacts DEF NavigationInv, TabsKept
<1>4. PagesTypeOK'
  BY <1>2, <1>3 DEF NavigationInv, PagesTypeOK
<1>5. Auth' => Auth
  BY DEF Auth
<1> QED
  BY <1>2, <1>4, <1>5 DEF NavigationInv, TabInv

LEMMA OneTabAlone ==
    ASSUME NavigationInv, NEW t \in Tabs, NEW at \in TabSet, tab' = [Upset EXCEPT ![t] = at],
           at.session \in (1..started) \cup {None}, started' \in started..MaxSessions,
           cookie' \in [session : (1..started') \cup {None}, revoked : BOOLEAN], TabInv(t)'
    PROVE  PagesTypeOK' /\ \A u \in Tabs : TabInv(u)'
<1>1. /\ Upset \in [Tabs -> TabSet]
      /\ \A u \in Tabs : Upset[u].asked = None /\ Upset[u].session \in (1..started) \cup {None}
  BY UpsetFacts, TabType DEF NavigationInv
<1> HIDE DEF Upset
<1>2. tab' \in [Tabs -> TabSet] /\ tab'[t] = at /\ \A u \in Tabs : u # t => tab'[u] = Upset[u]
  BY <1>1
<1>3. started \in Nat /\ started' \in 1..MaxSessions /\ 1..started \subseteq 1..started'
  BY NavigationAssumption DEF NavigationInv, PagesTypeOK
<1>4. PagesTypeOK'
  BY <1>1, <1>2, <1>3 DEF PagesTypeOK
<1> QED
  BY <1>1, <1>2, <1>4 DEF TabInv

LEMMA SignInStep ==
    ASSUME NavigationInv, NEW t \in Tabs, SignIn(t)
    PROVE  PagesTypeOK' /\ \A u \in Tabs : TabInv(u)'
<1>1. PagesTypeOK /\ TabInv(t) /\ started \in 1..MaxSessions /\ MaxSessions \in Nat
  BY NavigationAssumption DEF NavigationInv, PagesTypeOK
<1> DEFINE one == [tab[t] EXCEPT !.step = "edge"]
           two == [one EXCEPT !.callback = None]
           three == [two EXCEPT !.page = SafeCallback(tab[t].callback)]
<1>2. tab' = [Upset EXCEPT ![t] = three]
  BY Zenon DEF SignIn
<1>3. one \in TabSet /\ one.step = "edge" /\ one.asked = tab[t].asked /\ one.session = tab[t].session
  BY <1>1, TabType DEF TabSet
<1> HIDE DEF one
<1>4. two \in TabSet /\ two.step = "edge" /\ two.asked = one.asked /\ two.session = one.session
  BY <1>3 DEF TabSet
<1> HIDE DEF two
<1>5. SafeCallback(tab[t].callback) \in Protected /\ Protected \subseteq Pages
  BY DEF SafeCallback, Protected, Pages
<1>6. /\ three \in TabSet /\ three.step = "edge" /\ three.asked = two.asked /\ three.session = two.session
      /\ three.page = SafeCallback(tab[t].callback)
  BY <1>4, <1>5 DEF TabSet
<1> HIDE DEF three
<1>7. tab'[t] = three
  BY <1>1, <1>2, UpsetFacts
<1>8. /\ started' = started + 1 /\ started' \in started..MaxSessions
      /\ cookie' = [session |-> started', revoked |-> FALSE]
      /\ tab[t].step = "rest" /\ tab[t].page = "/login"
  BY <1>1 DEF SignIn
<1>9. cookie' \in [session : (1..started') \cup {None}, revoked : BOOLEAN] /\ ~cookie'.revoked
  BY <1>1, <1>8
<1>10. TabInv(t)'
  <2>1. tab[t].asked # None => tab[t].asked \in Protected /\ tab[t].callback = tab[t].asked
    BY <1>1, <1>8 DEF TabInv
  <2>2. tab[t].asked # None => three.page = tab[t].asked
    BY <1>6, <2>1 DEF SafeCallback
  <2> QED
    BY <1>3, <1>4, <1>6, <1>7, <1>9, <2>1, <2>2 DEF TabInv
<1>11. three.session \in (1..started) \cup {None}
  BY <1>1, <1>3, <1>4, <1>6, TabType
<1> QED
  BY <1>2, <1>6, <1>8, <1>9, <1>10, <1>11, OneTabAlone

LEMMA PerformLogoutFacts ==
    ASSUME NavigationInv, NEW t \in Tabs, NEW r \in Requests,
           tab' = [tab EXCEPT ![t].step = "leaving", ![t].logout = r, ![t].session = cookie.session]
    PROVE  /\ tab' = [tab EXCEPT ![t] = tab'[t]] /\ tab'[t] \in TabSet
           /\ tab'[t].step = "leaving" /\ tab'[t].logout = r /\ tab'[t].session = cookie.session
           /\ tab'[t].asked = tab[t].asked
<1> USE DEF NavigationInv
<1> DEFINE one == [tab[t] EXCEPT !.step = "leaving"]
           two == [one EXCEPT !.logout = r]
           three == [two EXCEPT !.session = cookie.session]
<1>1. tab' = [tab EXCEPT ![t] = three]
  BY TabType, Zenon
<1>2. one \in TabSet /\ one.step = "leaving" /\ one.asked = tab[t].asked
  BY TabType DEF TabSet
<1> HIDE DEF one
<1>3. two \in TabSet /\ two.step = "leaving" /\ two.asked = one.asked /\ two.logout = r
  BY <1>2 DEF TabSet
<1> HIDE DEF two
<1>4. cookie.session \in Nat \cup {None}
  BY CookieFacts
<1>5. /\ three \in TabSet /\ three.step = "leaving" /\ three.asked = two.asked /\ three.logout = r
      /\ three.session = cookie.session
  BY <1>3, <1>4 DEF TabSet
<1> HIDE DEF three
<1>6. tab'[t] = three
  BY <1>1, TabType
<1> QED
  BY <1>1, <1>2, <1>3, <1>5, <1>6

LEMMA TabsStep ==
    ASSUME NavigationInv, [Next]_vars
    PROVE  PagesTypeOK' /\ \A u \in Tabs : TabInv(u)'
<1>1. ApiInv /\ PagesTypeOK /\ \A u \in Tabs : TabInv(u)
  BY DEF NavigationInv
<1>2. ASSUME NEW t \in Tabs, Browse(t) PROVE PagesTypeOK' /\ \A u \in Tabs : TabInv(u)'
  <2>1. CASE Open(t)
    BY <1>1, <2>1, OpenStep, OneTabGoes DEF Open, apiVars
  <2>2. CASE Proxy(t)
    BY <1>1, <2>2, ProxyStep, OneTabGoes DEF Proxy, apiVars
  <2>3. CASE Page(t)
    BY <1>1, <2>3, PageStep, OneTabGoes DEF Page, apiVars
  <2>4. CASE SignIn(t)
    BY <2>4, SignInStep
  <2>5. CASE PerformLogout(t)
    <3>1. PICK r \in Requests :
             /\ Receive(r, Logout, None, cookie.session)
             /\ tab' = [tab EXCEPT ![t].step = "leaving", ![t].logout = r, ![t].session = cookie.session]
      BY <2>5 DEF PerformLogout
    <3>2. UNCHANGED <<started, live, cookie>>
      BY <2>5, <3>1 DEF PerformLogout, Receive
    <3>3. tab[t].asked = None
      <4>1. tab[t].step = "rest" /\ tab[t].page \in Protected
        BY <2>5 DEF PerformLogout
      <4>2. tab[t].page # "/login"
        BY <4>1 DEF Protected
      <4> QED
        BY <1>1, <4>1, <4>2 DEF TabInv
    <3>4. TabsKept(t) /\ TabInv(t)'
      BY <3>1, <3>3, PerformLogoutFacts DEF TabsKept, TabInv
    <3> QED
      BY <3>2, <3>4, OneTabGoes
  <2>6. CASE LogoutAnswered(t)
    <3>1. tab[t].step = "leaving" /\ UNCHANGED <<started, live, cookie>>
      BY <2>6 DEF LogoutAnswered, apiVars
    <3>2. tab[t].asked = None
      BY <1>1, <3>1 DEF TabInv
    <3>3. CASE tab' = [tab EXCEPT ![t].step = "signOut"]
      <4>1. TabsKept(t) /\ tab'[t].asked = None
        BY <1>1, <3>2, <3>3, StepFacts DEF TabsKept
      <4> QED
        BY <3>1, <4>1, OneTabGoes DEF TabInv
    <3>4. CASE Stay(t)
      BY <1>1, <3>1, <3>4, StayFacts, OneTabGoes DEF TabsKept, TabInv
    <3> QED
      BY <2>6, <3>3, <3>4 DEF LogoutAnswered
  <2>7. CASE SignOut(t)
    <3>1. UNCHANGED <<started, live>>
      BY <2>7 DEF SignOut, apiVars
    <3>2. CASE Stay(t) /\ UNCHANGED cookie
      BY <1>1, <3>1, <3>2, StayFacts, OneTabGoes DEF TabsKept, TabInv
    <3> DEFINE at == ToLogin
    <3>0. at \in TabSet /\ at.asked = None /\ at.session = None
      BY DEF ToLogin, Rest, TabSet, Pages, AuthPages
    <3>3. CASE cookie' = NoCookie /\ tab' = [Upset EXCEPT ![t] = ToLogin]
      <4>2. cookie' \in [session : (1..started') \cup {None}, revoked : BOOLEAN]
        BY <3>3 DEF NoCookie
      <4>3. started' \in started..MaxSessions
        BY <1>1, <3>1, NavigationAssumption DEF PagesTypeOK
      <4>4. tab' = [Upset EXCEPT ![t] = at]
        BY <3>3
      <4> HIDE DEF at
      <4>5. tab'[t].asked = None
        BY <1>1, <3>0, <4>4, UpsetFacts
      <4> QED
        BY <3>0, <4>2, <4>3, <4>4, <4>5, OneTabAlone DEF TabInv
    <3>4. CASE tab' = [tab EXCEPT ![t] = ToLogin] /\ UNCHANGED cookie
      <4>1. tab' = [tab EXCEPT ![t] = at]
        BY <3>4
      <4>2. tab'[t] = at
        BY <1>1, <4>1 DEF PagesTypeOK
      <4> HIDE DEF at
      <4> QED
        BY <1>1, <3>0, <3>1, <3>4, <4>1, <4>2, OneTabGoes DEF TabsKept, TabInv
    <3> QED
      BY <2>7, <3>2, <3>3, <3>4 DEF SignOut
  <2> QED
    BY <1>2, <2>1, <2>2, <2>3, <2>4, <2>5, <2>6, <2>7 DEF Browse
<1>3. CASE EndSession
  BY <1>3, TabsStay DEF EndSession
<1>4. CASE RefreshSession
  <2>1. tab' = Upset /\ UNCHANGED started /\ cookie' = [cookie EXCEPT !.revoked = TRUE]
    BY <1>4 DEF RefreshSession, apiVars
  <2>2. cookie' \in [session : (1..started') \cup {None}, revoked : BOOLEAN]
    BY <1>1, <2>1 DEF PagesTypeOK
  <2>3. PagesTypeOK' /\ \A u \in Tabs : tab'[u].asked = None
    BY <1>1, <2>1, <2>2, UpsetFacts, TabType DEF PagesTypeOK
  <2> QED
    BY <2>3 DEF TabInv
<1>5. ASSUME NEW r \in Requests, Handled(r), UNCHANGED <<tab, cookie>>
      PROVE  PagesTypeOK' /\ \A u \in Tabs : TabInv(u)'
  BY <1>1, <1>5, HandledFacts, TabsStay
<1>6. CASE UNCHANGED vars
  BY <1>6, TabsStay DEF vars, apiVars
<1> QED
  BY <1>1, <1>2, <1>3, <1>4, <1>5, <1>6, HandleStep, SendStep DEF Next

LEMMA TabsStart == Init => PagesTypeOK /\ \A t \in Tabs : TabInv(t)
<1> SUFFICES ASSUME Init PROVE PagesTypeOK /\ \A t \in Tabs : TabInv(t)
  OBVIOUS
<1>1. [Rest EXCEPT !.step = "closed"] \in TabSet /\ [Rest EXCEPT !.step = "closed"].asked = None
      /\ [Rest EXCEPT !.step = "closed"].session = None
  BY DEF Rest, TabSet, Pages
<1>2. /\ tab \in [Tabs -> TabSet] /\ \A t \in Tabs : tab[t].asked = None /\ tab[t].session = None
  BY <1>1 DEF Init
<1>3. started = 1 /\ started \in 1..MaxSessions
  BY NavigationAssumption DEF Init, ApiInit
<1>4. cookie \in [session : (1..started) \cup {None}, revoked : BOOLEAN]
  <2>1. cookie = [session |-> None, revoked |-> FALSE] \/ cookie = [session |-> 1, revoked |-> FALSE]
    BY DEF Init, NoCookie
  <2>2. 1 \in 1..started
    BY <1>3
  <2>3. \A x \in (1..started) \cup {None} :
           [session |-> x, revoked |-> FALSE] \in [session : (1..started) \cup {None}, revoked : BOOLEAN]
    OBVIOUS
  <2> QED
    BY <2>1, <2>2, <2>3
<1> QED
  BY <1>2, <1>3, <1>4 DEF PagesTypeOK, TabInv

LEMMA NavigationInductive == Spec => []NavigationInv
<1>1. Init => NavigationInv
  BY ApiStart, TabsStart DEF Init, NavigationInv
<1>2. NavigationInv /\ [Next]_vars => NavigationInv'
  BY ApiStep, TabsStep DEF NavigationInv
<1> QED
  BY <1>1, <1>2, PTL DEF Spec

\* Whoever asked for a page of the dashboard and was sent to the login form, by
\* the proxy or by the page, comes back to that page by signing in, with any
\* number of tabs and sessions and however the requests interleave.
THEOREM WayBack == Spec => []WayBackKept
<1>1. NavigationInv => WayBackKept
  BY DEF NavigationInv, TabInv, WayBackKept, SafeCallback
<1> QED
  BY <1>1, NavigationInductive, PTL
-------------------------------------------------------------------------------
(***************************************************************************)
(* Logging out                                                             *)
(***************************************************************************)
LEMMA LogoutStep ==
    ASSUME ApiInv, PagesTypeOK, [Next]_vars, \A r \in Requests : LogoutInv(r)
    PROVE  \A r \in Requests : LogoutInv(r)'
<1>1. ASSUME Quiet, NEW r \in Requests PROVE LogoutInv(r)'
  <2>1. req' = req /\ live' \subseteq live \cup {started + 1}
    BY <1>1 DEF Quiet
  <2>2. req[r].session # started + 1
    BY RequestType, NoneIsNoSession DEF ApiInv, ApiTypeOK
  <2> QED
    BY <2>1, <2>2 DEF LogoutInv
<1>2. ASSUME NEW r \in Requests, Handled(r), NEW q \in Requests PROVE LogoutInv(q)'
  <2>1. live' \subseteq live /\ (q # r => req'[q] = req[q])
    BY <1>2, HandledFacts
  <2>2. CASE q # r
    BY <2>1, <2>2 DEF LogoutInv
  <2>3. CASE q = r
    <3>1. CASE Came(r)
      BY <2>3, <3>1 DEF Came, LogoutInv
    <3>2. CASE Closed(r)
      BY <2>3, <3>2 DEF Closed, LogoutInv, Unsent
    <3>3. CASE Went(r)
      BY <2>3, <3>3 DEF Went, LogoutInv
    <3>4. CASE Refused(r)
      <4>1. req'[r].phase = "refused"
        BY <3>4, RequestType DEF Refused, RequestSet
      <4> QED
        BY <2>3, <4>1 DEF LogoutInv
    <3>5. CASE Served(r)
      <4>1. Logout.ends = "own"
        BY DEF Logout, Keyed
      <4>2. req[r].for = Logout => Ended(r) = {req[r].session}
        BY <4>1 DEF Ended
      <4> QED
        BY <2>3, <3>5, <4>2 DEF Served, LogoutInv, SameRequest
    <3>6. CASE Finished(r)
      <4>1. PICK p \in {"answered", "done", "dead"} :
               req'[r] = [req[r] EXCEPT !.phase = p] /\ (p = "done" => req[r].phase = "acted")
        BY <3>6 DEF Finished
      <4>2. req'[r].phase = p /\ req'[r].for = req[r].for /\ req'[r].session = req[r].session
        BY <4>1, RequestType DEF RequestSet
      <4> QED
        BY <2>1, <2>3, <4>1, <4>2 DEF LogoutInv
    <3> QED
      BY <1>2, <3>1, <3>2, <3>3, <3>4, <3>5, <3>6 DEF Handled
  <2> QED
    BY <2>2, <2>3
<1> QED
  BY <1>1, <1>2, StepShapes

\* The request of a tab that waits, after a step
LEMMA WaitedFor ==
    ASSUME ApiInv, NEW r \in Requests, NEW q \in Requests, Handled(q), req[r].phase # "unsent"
    PROVE  /\ req'[r].phase # "unsent"
           /\ req'[r].phase \in {"open", "acted", "done"} =>
                 /\ req[r].phase \in {"open", "acted", "done"}
                 /\ req'[r].for = req[r].for /\ req'[r].session = req[r].session
<1>1. CASE q # r
  BY <1>1, HandledFacts
<1>2. CASE q = r
  <2>1. ~Came(r)
    BY DEF Came
  <2>2. CASE Closed(r)
    BY <1>2, <2>2 DEF Closed, Unsent
  <2>3. CASE Went(r)
    BY <2>3 DEF Went, SameRequest
  <2>4. CASE Refused(r)
    BY <2>4, RequestType DEF Refused, RequestSet
  <2>5. CASE Served(r)
    BY <2>5 DEF Served, SameRequest
  <2>6. CASE Finished(r)
    <3>1. PICK p \in {"answered", "done", "dead"} :
             req'[r] = [req[r] EXCEPT !.phase = p] /\ (p = "done" => req[r].phase = "acted")
      BY <2>6 DEF Finished
    <3>2. req'[r].phase = p /\ req'[r].for = req[r].for /\ req'[r].session = req[r].session
      BY <3>1, RequestType DEF RequestSet
    <3>3. p = "answered" \/ p = "done" \/ p = "dead"
      OBVIOUS
    <3> QED
      BY <3>1, <3>2, <3>3
  <2> QED
    BY <1>2, <2>1, <2>2, <2>3, <2>4, <2>5, <2>6 DEF Handled
<1> QED
  BY <1>1, <1>2

\* The request of a log-out goes out with the session of the cookie.
LEMMA LogoutSent ==
    ASSUME NavigationInv, NEW r \in Requests, Receive(r, Logout, None, cookie.session)
    PROVE  req'[r].phase = "open" /\ req'[r].for = Logout /\ req'[r].session = cookie.session
<1> DEFINE fresh == [Unsent EXCEPT !.for = Logout, !.key = None, !.session = cookie.session, !.phase = "open",
                                   !.todo = Logout.stages, !.late = cookie.session \notin live]
<1>1. req' = [req EXCEPT ![r] = fresh]
  BY DEF Receive
<1>2. req'[r] = fresh
  BY <1>1, RequestType DEF NavigationInv
<1> QED
  BY <1>2 DEF Unsent

\* What a tab that waits keeps when the tab is left alone or loses its way back
LEMMA LeavingStays ==
    ASSUME NavigationInv, \A u \in Tabs : LeavingInv(u), live' \subseteq live \cup {started + 1},
           NEW u \in Tabs, tab'[u].step = tab[u].step, tab'[u].logout = tab[u].logout,
           tab'[u].session = tab[u].session,
           UNCHANGED req \/ \E q \in Requests : Handled(q)
    PROVE  LeavingInv(u)'
<1>1. tab[u].session \in (1..started) \cup {None} /\ started \in Nat
  BY TabType DEF NavigationInv, ApiInv, ApiTypeOK
<1>2. tab[u].session # started + 1
  BY <1>1, NoneIsNoSession
<1>3. tab'[u].step = "signOut" => tab'[u].session \notin live'
  BY <1>2 DEF LeavingInv
<1>4. ASSUME tab[u].step = "leaving"
      PROVE  /\ tab[u].logout \in Requests
             /\ req'[tab[u].logout].phase # "unsent"
             /\ req'[tab[u].logout].phase \in {"open", "acted", "done"} =>
                   req'[tab[u].logout].for = Logout /\ req'[tab[u].logout].session = tab[u].session
  <2>1. /\ tab[u].logout \in Requests
        /\ req[tab[u].logout].phase # "unsent"
        /\ req[tab[u].logout].phase \in {"open", "acted", "done"} =>
              req[tab[u].logout].for = Logout /\ req[tab[u].logout].session = tab[u].session
    BY <1>4 DEF LeavingInv
  <2>2. CASE UNCHANGED req
    BY <2>1, <2>2
  <2>3. CASE \E q \in Requests : Handled(q)
    BY <2>1, <2>3, WaitedFor DEF NavigationInv
  <2> QED
    BY <2>2, <2>3
<1> QED
  BY <1>3, <1>4 DEF LeavingInv

LEMMA LeavingStep ==
    ASSUME NavigationInv, \A u \in Tabs : LeavingInv(u), \A r \in Requests : LogoutInv(r), [Next]_vars
    PROVE  \A u \in Tabs : LeavingInv(u)'
<1>1. ApiInv /\ PagesTypeOK /\ (\A u \in Tabs : TabInv(u)) /\ tab \in [Tabs -> TabSet]
  BY DEF NavigationInv, PagesTypeOK
<1>2. ASSUME NEW t \in Tabs, tab' = [tab EXCEPT ![t] = tab'[t]], LeavingInv(t)', UNCHANGED <<req, live>>
      PROVE  \A u \in Tabs : LeavingInv(u)'
  <2>1. \A u \in Tabs : u # t => tab'[u] = tab[u]
    BY <1>1, <1>2
  <2> QED
    BY <1>2, <2>1, LeavingStays
<1>3. ASSUME NEW t \in Tabs, NEW at, tab' = [Upset EXCEPT ![t] = at], at.step = "edge",
             UNCHANGED req, live' \subseteq live \cup {started + 1}
      PROVE  \A u \in Tabs : LeavingInv(u)'
  <2>1. Upset \in [Tabs -> TabSet]
    BY <1>1, UpsetFacts
  <2>2. tab'[t] = at /\ \A u \in Tabs : u # t => tab'[u] = Upset[u]
    BY <1>3, <2>1
  <2>3. LeavingInv(t)'
    BY <1>3, <2>2 DEF LeavingInv
  <2> QED
    BY <1>1, <1>3, <2>2, <2>3, UpsetFacts, LeavingStays
<1>4. ASSUME UNCHANGED tab, live' \subseteq live \cup {started + 1},
             UNCHANGED req \/ \E q \in Requests : Handled(q)
      PROVE  \A u \in Tabs : LeavingInv(u)'
  BY <1>4, LeavingStays
<1>5. ASSUME NEW t \in Tabs, Browse(t) PROVE \A u \in Tabs : LeavingInv(u)'
  <2>1. CASE Open(t)
    BY <1>1, <1>2, <2>1, OpenStep DEF Open, apiVars, TabsKept, LeavingInv
  <2>2. CASE Proxy(t)
    BY <1>1, <1>2, <2>2, ProxyStep DEF Proxy, apiVars, TabsKept, LeavingInv
  <2>3. CASE Page(t)
    BY <1>1, <1>2, <2>3, PageStep DEF Page, apiVars, TabsKept, LeavingInv
  <2>4. CASE SignIn(t)
    <3> DEFINE one == [tab[t] EXCEPT !.step = "edge"]
               two == [one EXCEPT !.callback = None]
               at == [two EXCEPT !.page = SafeCallback(tab[t].callback)]
    <3>1. tab' = [Upset EXCEPT ![t] = at] /\ UNCHANGED req /\ live' \subseteq live \cup {started + 1}
      BY <2>4, Zenon DEF SignIn
    <3>2. one.step = "edge" /\ one \in TabSet
      BY <1>1, TabType DEF TabSet
    <3> HIDE DEF one
    <3>3. two.step = "edge" /\ two \in TabSet
      BY <3>2 DEF TabSet
    <3> HIDE DEF two
    <3>4. at.step = "edge"
      BY <3>3 DEF TabSet
    <3> HIDE DEF at
    <3> QED
      BY <1>3, <3>1, <3>4
  <2>5. CASE PerformLogout(t)
    <3>1. PICK r \in Requests :
             /\ Receive(r, Logout, None, cookie.session)
             /\ tab' = [tab EXCEPT ![t].step = "leaving", ![t].logout = r, ![t].session = cookie.session]
      BY <2>5 DEF PerformLogout
    <3>2. req[r].phase = "unsent" /\ UNCHANGED live
      BY <3>1 DEF Receive
    <3>3. Handled(r)
      <4>1. Logout \in Routes
        BY DEF Routes
      <4> QED
        BY <1>1, <3>1, <4>1, ReceiveStep, CookieFacts
    <3>4. /\ tab' = [tab EXCEPT ![t] = tab'[t]]
          /\ tab'[t].step = "leaving" /\ tab'[t].logout = r /\ tab'[t].session = cookie.session
      BY <3>1, PerformLogoutFacts
    <3>5. LeavingInv(t)'
      BY <3>1, <3>4, LogoutSent DEF LeavingInv
    <3>6. \A u \in Tabs : u # t => tab'[u] = tab[u]
      BY <1>1, <3>4
    <3> QED
      BY <3>2, <3>3, <3>5, <3>6, LeavingStays
  <2>6. CASE LogoutAnswered(t)
    <3>1. tab[t].step = "leaving" /\ UNCHANGED <<req, live>>
      BY <2>6 DEF LogoutAnswered, apiVars
    <3>2. CASE LogoutAccepted(t) /\ tab' = [tab EXCEPT ![t].step = "signOut"]
      <4>1. tab[t].session \notin live
        BY <3>1, <3>2 DEF LeavingInv, LogoutInv, LogoutAccepted
      <4>2. tab' = [tab EXCEPT ![t] = tab'[t]] /\ tab'[t].step = "signOut" /\ tab'[t].session = tab[t].session
        BY <1>1, <3>2, StepFacts
      <4>3. LeavingInv(t)'
        BY <3>1, <4>1, <4>2 DEF LeavingInv
      <4> QED
        BY <1>2, <3>1, <4>2, <4>3
    <3>3. CASE Stay(t)
      BY <1>1, <1>2, <3>1, <3>3, StayFacts DEF LeavingInv
    <3> QED
      BY <2>6, <3>2, <3>3 DEF LogoutAnswered
  <2>7. CASE SignOut(t)
    <3>1. UNCHANGED <<req, live>>
      BY <2>7 DEF SignOut, apiVars
    <3>2. CASE Stay(t)
      BY <1>1, <1>2, <3>1, <3>2, StayFacts DEF LeavingInv
    <3>3. ToLogin.step = "edge"
      BY DEF ToLogin, Rest
    <3>4. CASE tab' = [Upset EXCEPT ![t] = ToLogin]
      BY <1>3, <3>1, <3>3, <3>4
    <3>5. CASE tab' = [tab EXCEPT ![t] = ToLogin]
      <4>1. tab' = [tab EXCEPT ![t] = tab'[t]] /\ tab'[t].step = "edge"
        BY <1>1, <3>3, <3>5 DEF PagesTypeOK
      <4>2. LeavingInv(t)'
        BY <4>1 DEF LeavingInv
      <4> QED
        BY <1>1, <1>2, <3>1, <4>1, <4>2
    <3> QED
      BY <2>7, <3>2, <3>4, <3>5 DEF SignOut
  <2> QED
    BY <1>5, <2>1, <2>2, <2>3, <2>4, <2>5, <2>6, <2>7 DEF Browse
<1>6. CASE EndSession
  BY <1>4, <1>6 DEF EndSession
<1>7. CASE RefreshSession
  <2>1. tab' = Upset /\ UNCHANGED <<req, live>>
    BY <1>7 DEF RefreshSession, apiVars
  <2> QED
    BY <1>1, <2>1, UpsetFacts, LeavingStays
<1>8. ASSUME NEW r \in Requests, Handled(r), UNCHANGED tab PROVE \A u \in Tabs : LeavingInv(u)'
  BY <1>1, <1>4, <1>8, HandledFacts
<1>9. CASE UNCHANGED vars
  BY <1>4, <1>9 DEF vars, apiVars
<1> QED
  BY <1>1, <1>5, <1>6, <1>7, <1>8, <1>9, HandleStep, SendStep DEF Next

LogoutsInv == (\A r \in Requests : LogoutInv(r)) /\ (\A t \in Tabs : LeavingInv(t))

LEMMA LogoutsInductive == Spec => []LogoutsInv
<1>1. Init => LogoutsInv
  <2> SUFFICES ASSUME Init PROVE LogoutsInv
    OBVIOUS
  <2>1. \A r \in Requests : req[r].phase = "unsent"
    BY DEF Init, ApiInit, Unsent
  <2>2. \A t \in Tabs : tab[t].step = "closed"
    BY DEF Init, Rest
  <2> QED
    BY <2>1, <2>2 DEF LogoutsInv, LogoutInv, LeavingInv
<1>2. NavigationInv /\ LogoutsInv /\ [Next]_vars => LogoutsInv'
  BY LogoutStep, LeavingStep DEF NavigationInv, LogoutsInv
<1> QED
  BY <1>1, <1>2, NavigationInductive, PTL DEF Spec

\* The types of the sessions, the cookie and the tabs, for any number of them.
THEOREM NavigationTypeCorrect == Spec => []TypeOK
<1>1. NavigationInv /\ LogoutsInv => TypeOK
  <2> SUFFICES ASSUME NavigationInv, LogoutsInv PROVE TypeOK
    OBVIOUS
  <2>1. live \subseteq 1..started /\ started \in 1..MaxSessions
    BY DEF NavigationInv, ApiInv, ApiTypeOK, PagesTypeOK
  <2>2. cookie.session \in (1..started) \cup {None}
    BY CookieFacts DEF NavigationInv
  <2>3. \A t \in Tabs :
          /\ tab[t].step \in {"closed", "rest", "edge", "page", "leaving", "signOut"}
          /\ tab[t].page \in Pages
          /\ tab[t].callback \in Protected \cup {None, "/nowhere"}
          /\ tab[t].asked \in Protected \cup {None}
    BY TabType DEF NavigationInv, TabSet
  <2>4. \A t \in Tabs : tab[t].step = "leaving" => tab[t].logout \in Requests
    BY DEF LogoutsInv, LeavingInv
  <2> QED
    BY <2>1, <2>2, <2>3, <2>4 DEF TypeOK
<1> QED
  BY <1>1, NavigationInductive, LogoutsInductive, PTL

\* performLogout: a log-out drops the cookie of a session that is still good only
\* if another tab put it there after the request went out.
THEOREM LogoutEndsFirst == Spec => LogoutEndsBeforeDropping
<1> DEFINE Dropped == \A t \in Tabs : (tab[t].step = "signOut" /\ cookie.session \in live /\ cookie' = NoCookie)
                          => cookie.session # tab[t].session
<1>1. LogoutsInv => Dropped
  BY DEF LogoutsInv, LeavingInv
<1>2. LogoutsInv /\ [Next]_vars => [Dropped]_vars
  BY <1>1
<1> HIDE DEF Dropped
<1>3. Spec => [][Dropped]_vars
  BY <1>2, LogoutsInductive, PTL DEF Spec
<1> QED
  BY <1>3 DEF Dropped, LogoutEndsBeforeDropping
-------------------------------------------------------------------------------
(***************************************************************************)
(* Late requests                                                           *)
(***************************************************************************)
LEMMA SessionFirstTail ==
    ASSUME NEW s \in Seq(StageNames), s # <<>>, SessionFirst(s)
    PROVE  /\ Head(s) # "act"
           /\ Head(s) # "session" => SessionFirst(Tail(s))
<1> DEFINE u == Tail(s)
<1>1. PICK i \in 1..Len(s) : s[i] = "session" /\ \A j \in 1..i : s[j] # "act"
  BY DEF SessionFirst
<1>2. /\ Head(s) = s[1] /\ Len(s) = Len(u) + 1 /\ Len(u) \in Nat
      /\ \A j \in 1..Len(u) : u[j] = s[j + 1]
  BY TailFacts
<1> HIDE DEF u
<1>3. Head(s) # "act"
  BY <1>1, <1>2
<1>4. ASSUME Head(s) # "session" PROVE SessionFirst(u)
  <2>1. i - 1 \in 1..Len(u) /\ (i - 1) + 1 = i
    BY <1>1, <1>2, <1>4
  <2>2. u[i - 1] = "session"
    BY <1>1, <1>2, <2>1
  <2>3. \A j \in 1..(i - 1) : j \in 1..Len(u) /\ j + 1 \in 1..i
    BY <1>2, <2>1
  <2>4. \A j \in 1..(i - 1) : u[j] # "act"
    BY <1>1, <1>2, <2>3
  <2> QED
    BY <2>1, <2>2, <2>4 DEF SessionFirst
<1> QED
  BY <1>3, <1>4 DEF u

LEMMA LateStep ==
    ASSUME ApiInv, PagesTypeOK, [Next]_vars, \A r \in Requests : LateInv(r)
    PROVE  \A r \in Requests : LateInv(r)'
<1>1. ASSUME Quiet, NEW r \in Requests PROVE LateInv(r)'
  <2>1. req' = req /\ live' \subseteq live \cup {started + 1}
    BY <1>1 DEF Quiet
  <2>2. req[r].session # started + 1
    BY RequestType, NoneIsNoSession DEF ApiInv, ApiTypeOK
  <2> QED
    BY <2>1, <2>2 DEF LateInv
<1>2. ASSUME NEW r \in Requests, Handled(r), NEW q \in Requests PROVE LateInv(q)'
  <2>1. live' \subseteq live /\ (q # r => req'[q] = req[q])
    BY <1>2, HandledFacts
  <2>2. CASE q # r
    BY <2>1, <2>2 DEF LateInv
  <2>3. CASE q = r
    <3>1. CASE Came(r)
      BY <2>3, <3>1, AccountLists DEF Came, LateInv
    <3>2. CASE Closed(r)
      BY <2>3, <3>2 DEF Closed, LateInv, Unsent
    <3>3. CASE Went(r)
      <4>1. /\ req[r].todo \in Seq(StageNames) /\ req[r].todo # <<>> /\ req[r].phase = "open"
            /\ req'[r].todo = Tail(req[r].todo) /\ req'[r].ran = req[r].ran /\ SameRequest(r)
            /\ Head(req[r].todo) = "session" => req[r].session \in live
        BY <3>3, RequestType DEF Went
      <4> QED
        BY <2>1, <2>3, <4>1, SessionFirstTail DEF LateInv, SameRequest
    <3>4. CASE Refused(r)
      <4>1. /\ req'[r].phase = "refused" /\ req'[r].ran = req[r].ran /\ req'[r].late = req[r].late
            /\ req'[r].for = req[r].for
        BY <3>4, RequestType DEF Refused, RequestSet
      <4> QED
        BY <2>3, <4>1 DEF LateInv
    <3>5. CASE Served(r)
      <4>1. /\ req[r].todo \in Seq(StageNames) /\ req[r].todo # <<>> /\ req[r].phase = "open"
            /\ SameRequest(r) /\ Head(req[r].todo) = "act"
        BY <3>5, RequestType DEF Served
      <4>2. ~(req[r].late /\ req[r].for \in AccountRoutes)
        BY <4>1, SessionFirstTail DEF LateInv
      <4> QED
        BY <2>3, <4>1, <4>2 DEF LateInv, SameRequest
    <3>6. CASE Finished(r)
      <4>1. /\ req[r].ran /\ req'[r].late = req[r].late /\ req'[r].for = req[r].for
        BY <3>6, RequestType DEF Finished, RequestSet
      <4> QED
        BY <2>3, <4>1 DEF LateInv
    <3> QED
      BY <1>2, <3>1, <3>2, <3>3, <3>4, <3>5, <3>6 DEF Handled
  <2> QED
    BY <2>2, <2>3
<1> QED
  BY <1>1, <1>2, StepShapes

\* A request of a session that had ended before it came does nothing on an account
\* route, for any number of requests, whatever their keys and bodies.
THEOREM LateDoNothing == Spec => []LateRequestsDoNothing
<1> DEFINE AllLate == \A r \in Requests : LateInv(r)
<1>1. Init => AllLate
  BY DEF Init, ApiInit, Unsent, LateInv
<1>2. NavigationInv /\ AllLate /\ [Next]_vars => AllLate'
  BY LateStep DEF NavigationInv
<1>3. AllLate => LateRequestsDoNothing
  BY DEF LateInv, LateRequestsDoNothing
<1> HIDE DEF AllLate
<1> QED
  BY <1>1, <1>2, <1>3, NavigationInductive, PTL DEF Spec
-------------------------------------------------------------------------------
(***************************************************************************)
(* The limits                                                              *)
(***************************************************************************)
LEMMA SameIdentifier ==
    ASSUME NEW r \in Requests, req'[r].ids = req[r].ids, req'[r].session = req[r].session, NEW l
    PROVE  Identifier(r, l)' = Identifier(r, l)
<1>1. IdentifierAsSent(r, l)' = IdentifierAsSent(r, l)
  BY DEF IdentifierAsSent
<1> QED
  BY <1>1 DEF Identifier

LEMMA UserIdentifier ==
    ASSUME ApiInv, NEW r \in Requests
    PROVE  Identifier(r, "user") = "user"
<1>1. "user" \notin DOMAIN req[r].ids
  <2>1. req[r].ids = <<>> \/ req[r].ids \in [LimitsOf(req[r].for) -> Texts \cup {None}]
    BY RequestType DEF Sound
  <2>2. "user" \notin LimitsOf(req[r].for)
    BY DEF LimitsOf, BodyLimits
  <2> QED
    BY <2>1, <2>2
<1> QED
  BY <1>1 DEF Identifier, IdentifierAsSent

LEMMA CountingFacts ==
    ASSUME ApiInv, NEW l, NEW id, Counting(l, id)
    PROVE  /\ l \in StagesOf(route) /\ l \in Limits /\ l # "body" /\ l # "act"
           /\ l = "user" \/ (l \in LimitsOf(route) /\ l # "user")
           /\ l \in BodyLimits => id # None
  BY ApiRoutesAssumption DEF Counting, LimitsOf, Limits, BodyLimits

\* A request goes through a limit only in the step that counts it.
LEMMA ThroughOnlyCounted ==
    ASSUME ApiInv, NEW r \in Requests, Handled(r), NEW l, NEW id, Counting(l, id), r \in Passed(l, id)'
    PROVE  r \in Passed(l, id) \/ (Went(r) /\ Head(req[r].todo) = l /\ Identifier(r, l) = id)
<1>1. /\ req'[r].for = route' /\ route' = route
      /\ req'[r].ran \/ (req'[r].phase = "open" /\ l \notin Elems(req'[r].todo))
      /\ Identifier(r, l)' = id
  BY HandledFacts DEF Passed, Through
<1>2. CASE Came(r)
  <2>1. l \notin Elems(route.stages) /\ l \in StagesOf(route)
    BY <1>1, <1>2, CountingFacts DEF Came
  <2> QED
    BY <2>1 DEF StagesOf, Elems
<1>3. ~Closed(r)
  BY <1>1 DEF Closed, Unsent
<1>4. ~Refused(r)
  BY <1>1, RequestType DEF Refused, RequestSet, Sound
<1>5. CASE Served(r)
  <2>1. /\ req[r].phase = "open" /\ req[r].todo # <<>> /\ Head(req[r].todo) = "act"
        /\ req'[r].ids = req[r].ids /\ SameRequest(r)
    BY <1>5 DEF Served
  <2>2. Elems(req[r].todo) = {"act"}
    BY <2>1, RequestType, OrderlyTail DEF Sound
  <2> QED
    BY <1>1, <2>1, <2>2, SameIdentifier, CountingFacts DEF Passed, Through, SameRequest
<1>6. CASE Finished(r)
  <2>1. /\ req[r].ran /\ req'[r].ids = req[r].ids /\ req'[r].session = req[r].session
        /\ req'[r].for = req[r].for
    BY <1>6, RequestType DEF Finished, RequestSet
  <2> QED
    BY <1>1, <2>1, SameIdentifier DEF Passed, Through
<1>7. CASE Went(r)
  <2>1. /\ req[r].phase = "open" /\ req[r].todo # <<>> /\ req[r].todo \in Seq(StageNames)
        /\ req'[r].todo = Tail(req[r].todo) /\ SameRequest(r) /\ ~req'[r].ran
        /\ Head(req[r].todo) # "body" => req'[r].ids = req[r].ids
    BY <1>7, RequestType DEF Went, Sound
  <2>2. l \notin Elems(Tail(req[r].todo)) /\ req[r].for = route
    BY <1>1, <2>1 DEF SameRequest
  <2>3. /\ Elems(Tail(req[r].todo)) = Elems(req[r].todo) \ {Head(req[r].todo)}
        /\ Head(req[r].todo) = "body" => LimitsOf(route) \subseteq Elems(Tail(req[r].todo))
    BY <2>1, <2>2, RequestType, OrderlyTail DEF Sound
  <2>4. Identifier(r, l) = id
    <3>1. CASE Head(req[r].todo) # "body"
      BY <1>1, <2>1, <3>1, SameIdentifier DEF SameRequest
    <3>2. CASE Head(req[r].todo) = "body"
      <4>1. l = "user"
        BY <2>2, <2>3, <3>2, CountingFacts
      <4>2. Identifier(r, "user") = "user"
        BY UserIdentifier
      <4>3. Identifier(r, "user")' = "user"
        <5>1. req'[r].ids \in [LimitsOf(req[r].for) -> Texts \cup {None}]
          BY <1>7, <3>2 DEF Went
        <5>2. "user" \notin LimitsOf(req[r].for)
          BY DEF LimitsOf, BodyLimits
        <5>3. "user" \notin DOMAIN req'[r].ids
          BY <5>1, <5>2
        <5> QED
          BY <5>3 DEF Identifier, IdentifierAsSent
      <4> QED
        BY <1>1, <4>1, <4>2, <4>3
    <3> QED
      BY <3>1, <3>2
  <2> QED
    BY <1>7, <2>1, <2>2, <2>3, <2>4 DEF Passed, Through
<1> QED
  BY <1>2, <1>3, <1>4, <1>5, <1>6, <1>7 DEF Handled

LEMMA SpentFacts ==
    ASSUME IsFiniteSet(spent), NEW l, NEW id
    PROVE  IsFiniteSet(SpentOn(l, id)) /\ SpentHere(l, id) = Cardinality(SpentOn(l, id)) /\ SpentHere(l, id) \in Nat
<1>1. SpentOn(l, id) \in SUBSET spent
  BY DEF SpentOn
<1>2. IsFiniteSet(SpentOn(l, id))
  BY <1>1, FS_Subset
<1> QED
  BY <1>2, FS_CardinalityType DEF SpentHere, Spent, SpentOn

LEMMA PassedFinite == \A l, id : IsFiniteSet(Passed(l, id)) /\ Cardinality(Passed(l, id)) \in Nat
<1> SUFFICES ASSUME NEW l, NEW id PROVE IsFiniteSet(Passed(l, id)) /\ Cardinality(Passed(l, id)) \in Nat
  OBVIOUS
<1>1. Passed(l, id) \in SUBSET Requests
  BY DEF Passed
<1> QED
  BY <1>1, FS_Subset, FS_CardinalityType, ApiRoutesAssumption

LEMMA OneMore ==
    ASSUME NEW S, IsFiniteSet(S), NEW x, NEW T, T \subseteq S \cup {x}
    PROVE  Cardinality(T) <= Cardinality(S) + 1 /\ Cardinality(T) \in Nat
<1> DEFINE U == S \cup {x}
<1>1. Cardinality(S) \in Nat
  BY FS_CardinalityType
<1>2. IsFiniteSet(U) /\ Cardinality(U) = IF x \in S THEN Cardinality(S) ELSE Cardinality(S) + 1
  BY FS_AddElement
<1>3. T \in SUBSET U
  OBVIOUS
<1> HIDE DEF U
<1>4. Cardinality(T) <= Cardinality(U) /\ IsFiniteSet(T)
  BY <1>2, <1>3, FS_Subset
<1>5. Cardinality(T) \in Nat
  BY <1>4, FS_CardinalityType
<1> QED
  BY <1>1, <1>2, <1>4, <1>5

LEMMA LimitHoldsStep ==
    ASSUME ApiInv, NEW r \in Requests, Handled(r), NEW l, NEW id, Counting(l, id), LimitHolds(l, id)
    PROVE  LimitHolds(l, id)'
<1> DEFINE limit == Head(req[r].todo)
           for == Identifier(r, limit)
           action == req[r].for.action
           new == <<action, limit, for, Spent(action, limit, for) + 1>>
           old == Passed(l, id)
<1>0. route' = route
  BY HandledFacts
<1>1. \A q \in Requests : q # r /\ q \in Passed(l, id)' => q \in Passed(l, id)
  <2> SUFFICES ASSUME NEW q \in Requests, q # r, q \in Passed(l, id)' PROVE q \in Passed(l, id)
    OBVIOUS
  <2>1. req'[q] = req[q] /\ route' = route
    BY HandledFacts
  <2>2. Identifier(q, l)' = Identifier(q, l)
    BY <2>1, SameIdentifier
  <2> QED
    BY <2>1, <2>2 DEF Passed, Through
<1>2. Passed(l, id)' \subseteq Passed(l, id) \cup {r}
  <2>1. Passed(l, id)' \subseteq Requests
    BY DEF Passed
  <2> QED
    BY <1>1, <2>1
<1>3. IsFiniteSet(spent) /\ SpentHere(l, id) \in Nat /\ IsFiniteSet(old) /\ Cardinality(old) \in Nat
      /\ Allowed \in Nat
  BY SpentFacts, PassedFinite, ApiRoutesAssumption DEF LimitHolds
<1>4. CASE spent' = spent /\ Passed(l, id)' \subseteq old
  <2>1. SpentHere(l, id)' = SpentHere(l, id) /\ SpentOn(l, id)' = SpentOn(l, id)
    BY <1>0, <1>4 DEF SpentHere, Spent, SpentOn
  <2>2. Cardinality(Passed(l, id)') <= Cardinality(old) /\ Cardinality(Passed(l, id)') \in Nat
    BY <1>3, <1>4, FS_Subset, FS_CardinalityType
  <2> HIDE DEF old
  <2>3. Cardinality(old) <= SpentHere(l, id) /\ SpentHere(l, id) <= Allowed
    BY DEF LimitHolds, old
  <2> QED
    BY <1>3, <1>4, <2>1, <2>2, <2>3 DEF LimitHolds
<1>5. CASE Went(r) /\ limit \in Limits /\ ~Free(r, limit)
  <2>1. Spent(action, limit, for) < Allowed /\ spent' = spent \cup {new}
    BY <1>5 DEF Went, Counts
  <2>2. IsFiniteSet(spent')
    BY <1>3, <2>1, FS_AddElement
  <2>3. new[1] = action /\ new[2] = limit /\ new[3] = for /\ new[4] = Spent(action, limit, for) + 1
    OBVIOUS
  <2>4. CASE action = route.action /\ limit = l /\ for = id
    <3>1. /\ new[1] = route.action /\ new[2] = l /\ new[3] = id /\ new[4] = SpentHere(l, id) + 1
      BY <2>3, <2>4 DEF SpentHere
    <3>2. SpentHere(l, id) < Allowed
      BY <2>1, <2>4 DEF SpentHere
    <3> HIDE DEF new
    <3>3. SpentOn(l, id)' = SpentOn(l, id) \cup {new}
      BY <1>0, <2>1, <3>1 DEF SpentOn
    <3>4. new \notin SpentOn(l, id)
      <4>1. ~(new[4] <= SpentHere(l, id))
        BY <1>3, <3>1
      <4> QED
        BY <4>1 DEF LimitHolds
    <3>5. Cardinality(SpentOn(l, id)') = Cardinality(SpentOn(l, id)) + 1
      BY <1>3, <3>3, <3>4, SpentFacts, FS_AddElement
    <3>6. SpentHere(l, id)' = SpentHere(l, id) + 1
      BY <1>0, <1>3, <3>5, SpentFacts DEF SpentHere, Spent, SpentOn
    <3>7. Cardinality(Passed(l, id)') <= Cardinality(old) + 1 /\ Cardinality(Passed(l, id)') \in Nat
      BY <1>2, <1>3, OneMore
    <3> HIDE DEF old
    <3>8. Cardinality(old) <= SpentHere(l, id)
      BY DEF LimitHolds, old
    <3>9. Cardinality(Passed(l, id)') <= SpentHere(l, id)' /\ SpentHere(l, id)' <= Allowed
      BY <1>3, <3>2, <3>6, <3>7, <3>8
    <3>10. \A a \in SpentOn(l, id)' : a[4] \in Nat /\ a[4] <= SpentHere(l, id)'
      <4>1. ASSUME NEW a \in SpentOn(l, id) PROVE a[4] \in Nat /\ a[4] <= SpentHere(l, id)'
        BY <1>3, <3>6 DEF LimitHolds
      <4>2. new[4] \in Nat /\ new[4] <= SpentHere(l, id)'
        BY <1>3, <3>1, <3>6
      <4> QED
        BY <3>3, <4>1, <4>2
    <3> QED
      BY <2>2, <3>9, <3>10 DEF LimitHolds
  <2>5. CASE ~(action = route.action /\ limit = l /\ for = id)
    <3> HIDE DEF new
    <3>1. SpentOn(l, id)' = SpentOn(l, id)
      BY <1>0, <2>1, <2>3, <2>5 DEF SpentOn
    <3>2. SpentHere(l, id)' = SpentHere(l, id)
      BY <1>0, <3>1 DEF SpentHere, Spent, SpentOn
    <3>3. Passed(l, id)' \subseteq old
      <4> SUFFICES ASSUME r \in Passed(l, id)', r \notin old PROVE FALSE
        BY <1>2
      <4>1. Went(r) /\ limit = l /\ for = id
        BY ThroughOnlyCounted
      <4>2. req'[r].for = route' /\ route' = route /\ req'[r].for = req[r].for
        BY <4>1, HandledFacts DEF Passed, Went, SameRequest
      <4> QED
        BY <2>5, <4>1, <4>2
    <3>4. Cardinality(Passed(l, id)') <= Cardinality(old) /\ Cardinality(Passed(l, id)') \in Nat
      BY <1>3, <3>3, FS_Subset, FS_CardinalityType
    <3> HIDE DEF old
    <3>5. Cardinality(old) <= SpentHere(l, id) /\ SpentHere(l, id) <= Allowed
      BY DEF LimitHolds, old
    <3>6. Cardinality(Passed(l, id)') <= SpentHere(l, id)'
      BY <1>3, <3>2, <3>4, <3>5
    <3> QED
      BY <2>2, <3>1, <3>2, <3>5, <3>6 DEF LimitHolds
  <2> QED
    BY <2>4, <2>5
<1>6. CASE ~(Went(r) /\ limit \in Limits /\ ~Free(r, limit))
  <2>1. spent' = spent
    BY <1>6 DEF Handled, Came, Closed, Went, Refused, Served, Finished
  <2>2. ~(Went(r) /\ limit = l /\ for = id)
    BY <1>6, CountingFacts DEF Free
  <2>3. Passed(l, id)' \subseteq old
    BY <1>2, <2>2, ThroughOnlyCounted
  <2> QED
    BY <1>4, <2>1, <2>3
<1> QED
  BY <1>5, <1>6

LEMMA LimitsStep ==
    ASSUME ApiInv, PagesTypeOK, [Next]_vars, LimitsInv
    PROVE  LimitsInv'
<1> SUFFICES ASSUME NEW l \in Limits, NEW id \in {text.id : text \in Texts} \cup {"user"}, Counting(l, id)'
             PROVE  LimitHolds(l, id)'
  BY DEF LimitsInv
<1>1. route' = route
  BY StepShapes, HandledFacts DEF Quiet
<1>2. Counting(l, id) /\ LimitHolds(l, id)
  BY <1>1 DEF Counting, LimitsInv
<1>3. CASE Quiet
  <2>1. UNCHANGED <<route, req, spent>>
    BY <1>3 DEF Quiet
  <2>2. \A r \in Requests : Identifier(r, l)' = Identifier(r, l)
    BY <2>1, SameIdentifier
  <2>3. Passed(l, id)' = Passed(l, id)
    BY <2>1, <2>2 DEF Passed, Through
  <2> QED
    BY <1>2, <2>1, <2>3 DEF LimitHolds, SpentHere, Spent, SpentOn
<1> QED
  BY <1>2, <1>3, StepShapes, LimitHoldsStep

LEMMA LimitsStart == Init => LimitsInv
<1> SUFFICES ASSUME Init, NEW l \in Limits, NEW id PROVE LimitHolds(l, id)
  BY DEF LimitsInv
<1>1. spent = {} /\ \A r \in Requests : req[r].phase = "unsent" /\ ~req[r].ran
  BY DEF Init, ApiInit, Unsent
<1>2. SpentOn(l, id) = {} /\ Passed(l, id) = {} /\ SpentHere(l, id) = Cardinality(SpentOn(l, id))
  BY <1>1 DEF SpentOn, Passed, Through, SpentHere, Spent
<1> QED
  BY <1>1, <1>2, FS_EmptySet, ApiRoutesAssumption DEF LimitHolds

\* In one window the service of a route runs no more often for a challenge, an
\* address, a phone or a user than the limit allows, for any limit, any number of
\* requests and any texts.
THEOREM WithinLimits == Spec => []RunsWithinLimits
<1>1. NavigationInv /\ LimitsInv => RunsWithinLimits
  <2> SUFFICES ASSUME ApiInv, LimitsInv PROVE RunsWithinLimits
    BY DEF NavigationInv
  <2>1. ASSUME NEW l \in Limits, NEW id \in {text.id : text \in Texts} \cup {"user"}, Counting(l, id),
               NEW S, S \subseteq Passed(l, id)
        PROVE  Cardinality(S) <= Allowed
    <3>1. LimitHolds(l, id)
      BY <2>1 DEF LimitsInv
    <3>2. IsFiniteSet(Passed(l, id)) /\ Cardinality(Passed(l, id)) \in Nat
      BY PassedFinite
    <3>3. Cardinality(S) <= Cardinality(Passed(l, id)) /\ Cardinality(S) \in Nat
      BY <2>1, <3>2, FS_Subset, FS_CardinalityType
    <3>4. SpentHere(l, id) \in Nat /\ Allowed \in Nat
      BY <3>1, SpentFacts, ApiRoutesAssumption DEF LimitHolds
    <3> QED
      BY <3>1, <3>2, <3>3, <3>4 DEF LimitHolds
  <2>2. ASSUME NEW l \in (BodyLimits \cap StagesOf(route)) \ {"target"}, NEW id \in {text.id : text \in Texts}
        PROVE  Cardinality({r \in Ran(route) : req[r].ids[l].id = id}) <= Allowed
    <3>1. l \in Limits /\ Counting(l, id) /\ l \in LimitsOf(route)
      BY <2>2 DEF Limits, Counting, LimitsOf
    <3>2. ASSUME NEW r \in Ran(route), req[r].ids[l].id = id PROVE r \in Passed(l, id)
      <4>1. r \in Requests /\ req[r].ran /\ req[r].for = route
        BY DEF Ran
      <4>2. req[r].ids \in [LimitsOf(route) -> Texts \cup {None}] /\ Complete(r)
        BY <3>1, <4>1, RequestType DEF Sound
      <4>3. l \in DOMAIN req[r].ids /\ req[r].ids[l] # None
        BY <3>1, <4>2 DEF Complete
      <4>4. l # "session-id" /\ l # "target"
        BY <2>2 DEF BodyLimits
      <4>5. IdentifierAsSent(r, l) = req[r].ids[l]
        BY <4>3, <4>4 DEF IdentifierAsSent
      <4>6. Identifier(r, l) = id
        BY <3>2, <4>3, <4>4, <4>5 DEF Identifier
      <4> QED
        BY <4>1, <4>6 DEF Passed, Through
    <3> QED
      BY <2>1, <3>1, <3>2
  <2>3. ASSUME "user" \in StagesOf(route) PROVE Cardinality(Ran(route)) <= Allowed
    <3>1. "user" \in Limits /\ Counting("user", "user")
      BY <2>3 DEF Limits, Counting
    <3>2. Ran(route) \subseteq Passed("user", "user")
      BY UserIdentifier DEF Ran, Passed, Through
    <3> QED
      BY <2>1, <3>1, <3>2
  <2> QED
    BY <2>2, <2>3 DEF RunsWithinLimits
<1>2. NavigationInv /\ LimitsInv /\ [Next]_vars => LimitsInv'
  BY LimitsStep DEF NavigationInv
<1> QED
  BY <1>1, <1>2, LimitsStart, NavigationInductive, PTL DEF Spec
===============================================================================
