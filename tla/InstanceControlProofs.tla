------------------------- MODULE InstanceControlProofs -------------------------
(***************************************************************************)
(* Proofs about Tenancy and InstanceControl, for any number of accounts,   *)
(* tenants, resource groups, names, keys and concurrent requests.          *)
(***************************************************************************)
EXTENDS InstanceControl, FiniteSetTheorems, TLAPS

(***************************************************************************)
(* Requests: what they are, and the ways they are updated.                 *)
(***************************************************************************)
Request(answer) ==
    [op : TenantOps \cup {"group", "submit", None}, user : Users \cup {None},
     tenant : Tenants \cup {None}, step : Steps \cup {"checked", "insert", "snapshot"},
     answer : {answer}, tries : 0..(MaxTries - 1),
     todo : SUBSET Tenants, gone : SUBSET Tenants, doomed : SUBSET Tenants]

IsRequest(row) == \E a : row \in Request(a)

RequestsOK == req = [r \in Requests |-> req[r]] /\ \A r \in Requests : IsRequest(req[r])

\* A request with another step, and with another tenant, or other sets.
Moved(row, s)         == [row EXCEPT !.step = s]
Placed(row, s, t)     == [row EXCEPT !.step = s, !.tenant = t]
Retried(row)          == [row EXCEPT !.tries = @ + 1]
Found(row, S)         == [row EXCEPT !.step = "found", !.todo = S]
Counted(row, G, D)    == [row EXCEPT !.step = "counted", !.gone = G, !.doomed = D]
Opened(op, u, t)      == [Idle EXCEPT !.op = op, !.user = u, !.tenant = t, !.step = "authorized"]
Answered(a)           == [Idle EXCEPT !.step = "done", !.answer = a]

TenantSets == SUBSET Tenants
AllSteps == Steps \cup {"checked", "insert", "snapshot"}

\* Who asks for what, and what an erasure has found.
SameAsker(new, row) == new.op = row.op /\ new.user = row.user
SameWork(new, row)  == new.todo = row.todo /\ new.doomed = row.doomed

LEMMA MovedRow ==
    ASSUME NEW row, IsRequest(row), NEW s \in AllSteps
    PROVE  LET new == Moved(row, s) IN
           IsRequest(new) /\ SameAsker(new, row) /\ SameWork(new, row) /\ new.step = s /\ new.tenant = row.tenant
<1> PICK a : row \in Request(a)
  BY DEF IsRequest
<1>1. Moved(row, s) \in Request(a)
  BY Zenon DEF Moved, Request, AllSteps
<1> QED
  BY <1>1, Zenon DEF Moved, Request, IsRequest, SameAsker, SameWork

LEMMA PlacedRow ==
    ASSUME NEW row, IsRequest(row), NEW s \in AllSteps, NEW t \in Tenants \cup {None}
    PROVE  LET new == Placed(row, s, t) IN
           IsRequest(new) /\ SameAsker(new, row) /\ SameWork(new, row) /\ new.step = s /\ new.tenant = t
<1> PICK a : row \in Request(a)
  BY DEF IsRequest
<1>1. Placed(row, s, t) \in Request(a)
  BY Zenon DEF Placed, Request, AllSteps
<1> QED
  BY <1>1, Zenon DEF Placed, Request, IsRequest, SameAsker, SameWork

LEMMA RetriedRow ==
    ASSUME NEW row, IsRequest(row), row.tries + 1 # MaxTries
    PROVE  LET new == Retried(row) IN
           IsRequest(new) /\ SameAsker(new, row) /\ SameWork(new, row) /\ new.step = row.step /\ new.tenant = row.tenant
<1> PICK a : row \in Request(a)
  BY DEF IsRequest
<1>1. row.tries \in 0..(MaxTries - 1)
  BY DEF Request
<1>2. row.tries + 1 \in 0..(MaxTries - 1)
  BY <1>1, TenancyAssumption
<1>3. Retried(row) \in Request(a)
  BY <1>2, Zenon DEF Retried, Request
<1> QED
  BY <1>3, Zenon DEF Retried, Request, IsRequest, SameAsker, SameWork

LEMMA FoundRow ==
    ASSUME NEW row, IsRequest(row), NEW S \in TenantSets
    PROVE  LET new == Found(row, S) IN
           IsRequest(new) /\ SameAsker(new, row) /\ new.step = "found" /\ new.todo = S
           /\ new.doomed = row.doomed
<1> PICK a : row \in Request(a)
  BY DEF IsRequest
<1>1. "found" \in AllSteps
  BY DEF AllSteps, Steps
<1>2. Found(row, S) \in Request(a)
  BY <1>1, Zenon DEF Found, Request, AllSteps, TenantSets
<1> QED
  BY <1>2, Zenon DEF Found, Request, IsRequest, SameAsker

LEMMA CountedRow ==
    ASSUME NEW row, IsRequest(row), NEW G \in TenantSets, NEW D \in TenantSets
    PROVE  LET new == Counted(row, G, D) IN
           IsRequest(new) /\ SameAsker(new, row) /\ new.step = "counted" /\ new.todo = row.todo
           /\ new.gone = G /\ new.doomed = D
<1> PICK a : row \in Request(a)
  BY DEF IsRequest
<1>1. "counted" \in AllSteps
  BY DEF AllSteps, Steps
<1>2. Counted(row, G, D) \in Request(a)
  BY <1>1, Zenon DEF Counted, Request, AllSteps, TenantSets
<1>3. SameAsker(Counted(row, G, D), row)
  BY Zenon DEF Counted, Request, SameAsker
<1>4. LET new == Counted(row, G, D) IN
      new.step = "counted" /\ new.todo = row.todo /\ new.gone = G /\ new.doomed = D
  BY Zenon DEF Counted, Request
<1> QED
  BY <1>2, <1>3, <1>4, Zenon DEF IsRequest

LEMMA OpenedRow ==
    ASSUME NEW op \in TenantOps \cup {"group", "submit"}, NEW u \in Users, NEW t \in Tenants \cup {None}
    PROVE  LET new == Opened(op, u, t) IN
           IsRequest(new) /\ new.op = op /\ new.user = u /\ new.tenant = t /\ new.step = "authorized"
           /\ new.doomed = {}
<1> DEFINE row == [op |-> op, user |-> u, tenant |-> t, step |-> "authorized", answer |-> None,
                   tries |-> 0, todo |-> {}, gone |-> {}, doomed |-> {}]
<1> PICK new : new = Opened(op, u, t)
  BY Zenon
<1>1. new = row
  BY Zenon DEF Opened, Idle
<1>2. row \in Request(None)
  BY TenancyAssumption DEF Request, Steps
<1>3. row.op = op /\ row.user = u /\ row.tenant = t /\ row.step = "authorized" /\ row.doomed = {}
  BY Zenon
<1> HIDE DEF row
<1> QED
  BY <1>1, <1>2, <1>3, Zenon DEF IsRequest

LEMMA AnsweredRow ==
    ASSUME NEW a
    PROVE  LET new == Answered(a) IN IsRequest(new) /\ new.step = "done" /\ new.doomed = {}
<1> DEFINE row == [op |-> None, user |-> None, tenant |-> None, step |-> "done", answer |-> a,
                   tries |-> 0, todo |-> {}, gone |-> {}, doomed |-> {}]
<1> PICK new : new = Answered(a)
  BY Zenon
<1>1. new = row
  BY Zenon DEF Answered, Idle
<1>2. row \in Request(a)
  BY TenancyAssumption DEF Request, Steps
<1>3. row.step = "done" /\ row.doomed = {}
  BY Zenon
<1> HIDE DEF row
<1> QED
  BY <1>1, <1>2, <1>3, Zenon DEF IsRequest

LEMMA IdleRow == IsRequest(Idle) /\ Idle.step = "idle" /\ Idle.doomed = {}
<1>1. Idle \in Request(None)
  BY TenancyAssumption DEF Request, Idle, Steps
<1> QED
  BY <1>1 DEF IsRequest, Idle
-------------------------------------------------------------------------------
(***************************************************************************)
(* What a request has in hand.  known stands for ever, the memberships     *)
(* there ever were.                                                        *)
(***************************************************************************)
BelongedIn(known, t, u, minimum) ==
    \E held \in Roles : HasRequiredTenantRole(held, minimum) /\ <<t, u, held>> \in known

InContext == {"context", "checked", "insert", "snapshot"}

AskerOK(row, known) ==
    /\ row.doomed \subseteq row.todo
    /\ row.step \in {"authorized", "found"} => row.doomed = {}
    /\ row.step \notin {"idle", "done"} => row.user \in Users
    /\ row.step \in {"assert", "repaired"} => row.tenant \in Tenants
    /\ row.step \in {"found", "counted"} => row.op = "erase"
    /\ row.step \in {"checked", "insert"} => row.op = "submit"
    /\ row.step \in InContext =>
          IF row.tenant = None THEN row.op = "overview"
          ELSE BelongedIn(known, row.tenant, row.user, MinimumRole(row.op))

AskerInv == \A r \in Requests : AskerOK(req[r], ever)

RowsOK ==
    /\ account \in [Users -> {"active", "deleted"}]
    /\ tenant \in [Tenants -> {"absent", "active", "deleted"}]
    /\ role \in [Tenants -> [Users -> Roles \cup {None}]]

EverInv == \A t \in Tenants, u \in Users : role[t][u] # None => <<t, u, role[t][u]>> \in ever

LEMMA KnownGrows ==
    ASSUME NEW row, NEW known, NEW more, known \subseteq more, AskerOK(row, known)
    PROVE  AskerOK(row, more)
  BY DEF AskerOK, BelongedIn

Others(r) == \A q \in Requests \ {r} : req'[q] = req[q]

LEMMA OneRequest ==
    ASSUME RequestsOK, NEW r \in Requests, NEW new, IsRequest(new), req' = [req EXCEPT ![r] = new]
    PROVE  RequestsOK' /\ req'[r] = new /\ Others(r)
<1>1. req'[r] = new /\ Others(r) /\ req' = [q \in Requests |-> req'[q]]
  BY Zenon DEF RequestsOK, Others
<1>2. ASSUME NEW q \in Requests PROVE IsRequest(req'[q])
  <2>1. CASE q = r
    BY <1>1, <2>1
  <2>2. CASE q # r
    BY <1>1, <2>2, Zenon DEF RequestsOK, Others
  <2> QED
    BY <2>1, <2>2
<1> QED
  BY <1>1, <1>2, Zenon DEF RequestsOK, IsRequest, Request

\* The ways a request goes on, when it had what it needs.
ReqStep(r) == RequestsOK' /\ Others(r) /\ AskerOK(req'[r], ever)

LEMMA AnswerStep ==
    ASSUME RequestsOK, NEW r \in Requests, NEW a, Answer(r, a)
    PROVE  ReqStep(r) /\ req'[r].step = "done"
<1>1. req' = [req EXCEPT ![r] = Answered(a)]
  BY Zenon DEF Answer, Answered
<1>2. IsRequest(Answered(a)) /\ Answered(a).step = "done" /\ Answered(a).doomed = {}
  BY AnsweredRow, Zenon
<1>3. RequestsOK' /\ req'[r] = Answered(a) /\ Others(r)
  BY <1>1, <1>2, OneRequest
<1> QED
  BY <1>2, <1>3 DEF ReqStep, AskerOK, InContext

LEMMA GotoStep ==
    ASSUME RequestsOK, NEW r \in Requests, NEW s \in AllSteps, Goto(r, s)
    PROVE  /\ RequestsOK' /\ Others(r) /\ SameWork(req'[r], req[r])
           /\ SameAsker(req'[r], req[r]) /\ req'[r].step = s /\ req'[r].tenant = req[r].tenant
<1>1. req' = [req EXCEPT ![r] = Moved(req[r], s)]
  BY Zenon DEF Goto, Moved
<1>2. IsRequest(req[r])
  BY DEF RequestsOK
<1>3. LET new == Moved(req[r], s) IN
      IsRequest(new) /\ SameAsker(new, req[r]) /\ SameWork(new, req[r]) /\ new.step = s /\ new.tenant = req[r].tenant
  BY <1>2, MovedRow
<1>4. RequestsOK' /\ req'[r] = Moved(req[r], s) /\ Others(r)
  BY <1>1, <1>3, OneRequest
<1> QED
  BY <1>3, <1>4

LEMMA PlaceStep ==
    ASSUME RequestsOK, NEW r \in Requests, NEW s \in AllSteps, NEW t \in Tenants \cup {None},
           req' = [req EXCEPT ![r].step = s, ![r].tenant = t]
    PROVE  /\ RequestsOK' /\ Others(r) /\ SameWork(req'[r], req[r])
           /\ SameAsker(req'[r], req[r]) /\ req'[r].step = s /\ req'[r].tenant = t
<1>1. req' = [req EXCEPT ![r] = Placed(req[r], s, t)]
  BY Zenon DEF Placed
<1>2. IsRequest(req[r])
  BY DEF RequestsOK
<1>3. LET new == Placed(req[r], s, t) IN
      IsRequest(new) /\ SameAsker(new, req[r]) /\ SameWork(new, req[r]) /\ new.step = s /\ new.tenant = t
  BY <1>2, PlacedRow
<1>4. RequestsOK' /\ req'[r] = Placed(req[r], s, t) /\ Others(r)
  BY <1>1, <1>3, OneRequest
<1> QED
  BY <1>3, <1>4

\* A refusal leaves only the dashboard going, without a tenant.
LEMMA DenyStep ==
    ASSUME RequestsOK, NEW r \in Requests, AskerOK(req[r], ever), req[r].user \in Users, NEW code, Deny(r, code)
    PROVE  ReqStep(r) /\ req'[r].step \in {"context", "done"}
<1>1. CASE req[r].op = "overview"
  <2>1. req' = [req EXCEPT ![r].step = "context", ![r].tenant = None]
    BY <1>1, Zenon DEF Deny
  <2>2. /\ RequestsOK' /\ Others(r) /\ SameWork(req'[r], req[r])
        /\ SameAsker(req'[r], req[r]) /\ req'[r].step = "context" /\ req'[r].tenant = None
    BY <2>1, PlaceStep DEF AllSteps, Steps
  <2> QED
    BY <1>1, <2>2 DEF ReqStep, AskerOK, SameAsker, SameWork
<1>2. CASE req[r].op # "overview"
  BY <1>2, AnswerStep, Zenon DEF Deny
<1> QED
  BY <1>1, <1>2

\* A request that has passed the check of its role goes on with its tenant.
LEMMA AdmitStep ==
    ASSUME RequestsOK, RowsOK, EverInv, NEW r \in Requests, AskerOK(req[r], ever), req[r].user \in Users,
           req[r].tenant \in Tenants, TenantAccess(req[r].tenant, req[r].user, MinimumRole(req[r].op)),
           Goto(r, "context")
    PROVE  ReqStep(r) /\ req'[r].step = "context"
<1>1. /\ RequestsOK' /\ Others(r) /\ SameWork(req'[r], req[r]) /\ SameAsker(req'[r], req[r])
      /\ req'[r].step = "context" /\ req'[r].tenant = req[r].tenant
  BY GotoStep DEF AllSteps, Steps
<1>2. PICK t \in Tenants, u \in Users : t = req[r].tenant /\ u = req[r].user
  OBVIOUS
<1>3. role[t][u] \in Roles /\ <<t, u, role[t][u]>> \in ever
  BY <1>2 DEF TenantAccess, RowsOK, EverInv
<1>4. HasRequiredTenantRole(role[t][u], MinimumRole(req[r].op))
  BY <1>2 DEF TenantAccess
<1>5. BelongedIn(ever, t, u, MinimumRole(req[r].op))
  BY <1>3, <1>4 DEF BelongedIn
<1>6. t # None
  BY NamesAssumption
<1> QED
  BY <1>1, <1>2, <1>5, <1>6 DEF ReqStep, AskerOK, SameAsker, SameWork
-------------------------------------------------------------------------------
(***************************************************************************)
(* What a step does to the rows.  Either nothing, or it writes one         *)
(* membership, or it is one of the three of an erasure.                    *)
(***************************************************************************)
Leaving(q) == req[q].step \in {"found", "counted"}

\* No erasure begins or goes on.
Steady == \A q \in Requests : Leaving(q)' => req'[q] = req[q]

Joined(t, u) ==
    /\ ~Erasing(u)
    /\ (t \in Slugs /\ tenant[t] = "absent") \/ t = Home(u)
    /\ tenant' = [tenant EXCEPT ![t] = "active"]
    /\ Join(t, u)
    /\ UNCHANGED <<account, crossed>>

FoundBy(r) ==
    /\ UnchangedRows
    /\ req'[r].step = "found" /\ req'[r].user = req[r].user
    /\ req'[r].todo = ActiveMemberships(req[r].user)

CountedBy(r) ==
    LET u == req[r].user IN
    /\ UnchangedRows
    /\ req[r].step = "found" /\ req'[r].step = "counted"
    /\ req'[r].user = u /\ req'[r].todo = req[r].todo
    /\ req'[r].gone   = IF req[r].todo = {} THEN {} ELSE {t \in Tenants : role[t][u] # None}
    /\ req'[r].doomed = {t \in req[r].todo : ActiveTenantMembers(t) \ {u} = {}}

ErasedBy(r) == CommitErasure(r) /\ req'[r].step = "done" /\ Steady

RowStep(r) ==
    \/ UnchangedRows /\ Steady
    \/ Steady /\ \E t \in Tenants, u \in Users : Joined(t, u)
    \/ FoundBy(r)
    \/ CountedBy(r)
    \/ ErasedBy(r)

\* No submission is under way.
Paged(r) == req'[r].step \notin {"checked", "insert"}

LEMMA SteadyStep ==
    ASSUME NEW r \in Requests, Others(r), req'[r].step \notin {"found", "counted"}
    PROVE  Steady
  BY DEF Steady, Others, Leaving

BaseInv == RequestsOK /\ RowsOK /\ EverInv /\ AskerInv

\* What the steps of the proofs below start from.
LEMMA UserOfRequest ==
    ASSUME BaseInv, NEW r \in Requests, req[r].step \notin {"idle", "done"}
    PROVE  req[r].user \in Users
  BY DEF BaseInv, AskerInv, AskerOK

LEMMA AskerOfRequest ==
    ASSUME BaseInv, NEW r \in Requests
    PROVE  AskerOK(req[r], ever)
  BY DEF BaseInv, AskerInv

LEMMA TenantOfRequest ==
    ASSUME BaseInv, NEW r \in Requests
    PROVE  req[r].tenant \in Tenants \cup {None}
<1>1. PICK a : req[r] \in Request(a)
  BY DEF BaseInv, RequestsOK, IsRequest
<1> QED
  BY <1>1 DEF Request

LEMMA OpenStep ==
    ASSUME BaseInv, NEW r \in Requests, NEW op \in TenantOps \cup {"group", "submit"},
           NEW u \in Users, NEW t \in Tenants \cup {None}, EnsureAuthorizedSession(r, op, u, t)
    PROVE  ReqStep(r) /\ RowStep(r) /\ Paged(r) /\ req'[r].step = "authorized"
<1>1. req' = [req EXCEPT ![r] = Opened(op, u, t)]
  BY Zenon DEF EnsureAuthorizedSession, Opened
<1>2. LET new == Opened(op, u, t) IN
      IsRequest(new) /\ new.op = op /\ new.user = u /\ new.tenant = t /\ new.step = "authorized"
      /\ new.doomed = {}
  BY OpenedRow
<1>3. RequestsOK' /\ req'[r] = Opened(op, u, t) /\ Others(r)
  BY <1>1, <1>2, OneRequest DEF BaseInv
<1>4. AskerOK(req'[r], ever)
  BY <1>2, <1>3 DEF AskerOK, InContext
<1> QED
  BY <1>2, <1>3, <1>4, SteadyStep DEF ReqStep, RowStep, Paged, EnsureAuthorizedSession

LEMMA CreateStep ==
    ASSUME BaseInv, NEW r \in Requests, NEW slug \in Slugs, CreateTenantForUser(r, slug)
    PROVE  ReqStep(r) /\ RowStep(r) /\ Paged(r)
<1> DEFINE u == req[r].user
<1>0. RequestsOK /\ u \in Users /\ slug \in Tenants
  BY UserOfRequest DEF CreateTenantForUser, BaseInv, Tenants
<1>1. CASE tenant[slug] = "absent"
  <2>1. Answer(r, "CREATED") /\ Joined(slug, u)
    BY <1>1, Zenon DEF CreateTenantForUser, Joined
  <2>2. ReqStep(r) /\ req'[r].step = "done"
    BY <2>1, <1>0, AnswerStep
  <2> QED
    BY <2>1, <2>2, <1>0, SteadyStep DEF ReqStep, RowStep, Paged
<1>2. CASE tenant[slug] # "absent"
  <2>1. TryNextSlug(r) /\ UnchangedRows /\ req[r].step = "authorized"
    BY <1>2 DEF CreateTenantForUser, UnchangedRows
  <2>2. CASE req[r].tries + 1 = MaxTries
    <3>1. Answer(r, "TENANT_SLUG_RETRY_EXHAUSTED")
      BY <2>1, <2>2 DEF TryNextSlug
    <3> QED
      BY <3>1, <2>1, <1>0, AnswerStep, SteadyStep DEF ReqStep, RowStep, Paged
  <2>3. CASE req[r].tries + 1 # MaxTries
    <3>1. req' = [req EXCEPT ![r] = Retried(req[r])]
      BY <2>1, <2>3, Zenon DEF TryNextSlug, Retried
    <3>2. IsRequest(req[r])
      BY <1>0 DEF RequestsOK
    <3>3. IsRequest(Retried(req[r])) /\ SameAsker(Retried(req[r]), req[r])
          /\ SameWork(Retried(req[r]), req[r])
          /\ Retried(req[r]).step = "authorized"
      BY <3>2, <2>1, <2>3, RetriedRow
    <3>4. RequestsOK' /\ req'[r] = Retried(req[r]) /\ Others(r)
      BY <3>1, <3>3, <1>0, OneRequest
    <3>5. AskerOK(req'[r], ever)
      BY <2>1, <3>3, <3>4, <1>0, AskerOfRequest DEF AskerOK, InContext, SameAsker, SameWork
    <3> QED
      BY <3>3, <3>4, <3>5, <2>1, SteadyStep DEF ReqStep, RowStep, Paged
  <2> QED
    BY <2>2, <2>3
<1> QED
  BY <1>1, <1>2

LEMMA NamedStep ==
    ASSUME BaseInv, NEW r \in Requests, ResolveNamed(r)
    PROVE  ReqStep(r) /\ RowStep(r) /\ Paged(r)
<1>0. /\ RequestsOK /\ RowsOK /\ EverInv /\ AskerOK(req[r], ever)
      /\ req[r].user \in Users /\ req[r].tenant \in Tenants /\ UnchangedRows
  BY AskerOfRequest, UserOfRequest, TenantOfRequest DEF ResolveNamed, BaseInv
<1>1. CASE TenantAccess(req[r].tenant, req[r].user, MinimumRole(req[r].op))
  <2>1. Goto(r, "context")
    BY <1>1 DEF ResolveNamed
  <2> QED
    BY <2>1, <1>0, <1>1, AdmitStep, SteadyStep DEF ReqStep, RowStep, Paged
<1>2. CASE ~TenantAccess(req[r].tenant, req[r].user, MinimumRole(req[r].op))
  <2>1. Deny(r, "TENANT_ACCESS_DENIED")
    BY <1>2 DEF ResolveNamed
  <2> QED
    BY <2>1, <1>0, DenyStep, SteadyStep DEF ReqStep, RowStep, Paged
<1> QED
  BY <1>1, <1>2

LEMMA UnnamedStep ==
    ASSUME BaseInv, NEW r \in Requests, ResolveUnnamed(r)
    PROVE  ReqStep(r) /\ RowStep(r) /\ Paged(r)
<1> DEFINE found == ActiveMemberships(req[r].user)
           only  == CHOOSE t \in found : TRUE
<1>0. /\ RequestsOK /\ AskerOK(req[r], ever) /\ req[r].user \in Users /\ UnchangedRows
  BY AskerOfRequest, UserOfRequest DEF ResolveUnnamed, BaseInv
<1>1. \/ found = {} /\ Goto(r, "ensure")
      \/ Deny(r, "TENANT_SELECTION_REQUIRED")
      \/ found # {} /\ req' = [req EXCEPT ![r].step = "assert", ![r].tenant = only]
  BY Zenon DEF ResolveUnnamed
<1>2. CASE Goto(r, "ensure")
  <2>1. /\ RequestsOK' /\ Others(r) /\ SameWork(req'[r], req[r])
        /\ SameAsker(req'[r], req[r]) /\ req'[r].step = "ensure"
    BY <1>0, <1>2, GotoStep DEF AllSteps, Steps
  <2>2. AskerOK(req'[r], ever)
    BY <2>1, <1>0 DEF AskerOK, InContext, SameAsker, SameWork
  <2> QED
    BY <1>0, <2>1, <2>2, SteadyStep DEF ReqStep, RowStep, Paged
<1>3. CASE Deny(r, "TENANT_SELECTION_REQUIRED")
  BY <1>0, <1>3, DenyStep, SteadyStep DEF ReqStep, RowStep, Paged
<1>4. CASE found # {} /\ req' = [req EXCEPT ![r].step = "assert", ![r].tenant = only]
  <2>1. only \in found /\ found \subseteq Tenants
    BY <1>4 DEF ActiveMemberships
  <2> HIDE DEF found, only
  <2>2. /\ RequestsOK' /\ Others(r) /\ SameWork(req'[r], req[r])
        /\ SameAsker(req'[r], req[r]) /\ req'[r].step = "assert" /\ req'[r].tenant = only
    BY <1>0, <1>4, <2>1, PlaceStep DEF AllSteps, Steps
  <2>3. AskerOK(req'[r], ever)
    BY <2>1, <2>2, <1>0 DEF AskerOK, InContext, SameAsker, SameWork
  <2> QED
    BY <1>0, <2>2, <2>3, SteadyStep DEF ReqStep, RowStep, Paged
<1> QED
  BY <1>1, <1>2, <1>3, <1>4

LEMMA DropStep ==
    ASSUME BaseInv, NEW r \in Requests, DeleteTenantForUser(r)
    PROVE  ReqStep(r) /\ RowStep(r) /\ Paged(r)
<1>1. RequestsOK /\ UnchangedRows /\ Answer(r, "TENANT_DELETE_DISABLED")
  BY DEF BaseInv, DeleteTenantForUser
<1> QED
  BY <1>1, AnswerStep, SteadyStep DEF ReqStep, RowStep, Paged

LEMMA EnsureStep ==
    ASSUME BaseInv, NEW r \in Requests, EnsureDefaultTenantMembership(r)
    PROVE  ReqStep(r) /\ RowStep(r) /\ Paged(r)
<1> DEFINE u == req[r].user
           found == ActiveMemberships(u)
<1>0. RequestsOK /\ AskerOK(req[r], ever) /\ u \in Users /\ Home(u) \in Tenants
  BY AskerOfRequest, UserOfRequest DEF EnsureDefaultTenantMembership, BaseInv, Tenants
<1>1. ASSUME NEW t \in Tenants, req' = [req EXCEPT ![r].step = "repaired", ![r].tenant = t]
      PROVE  ReqStep(r) /\ Steady /\ Paged(r)
  <2>1. /\ RequestsOK' /\ Others(r) /\ SameWork(req'[r], req[r])
        /\ SameAsker(req'[r], req[r]) /\ req'[r].step = "repaired" /\ req'[r].tenant = t
    BY <1>0, <1>1, PlaceStep DEF AllSteps, Steps
  <2>2. AskerOK(req'[r], ever)
    BY <2>1, <1>0 DEF AskerOK, InContext, SameAsker, SameWork
  <2> QED
    BY <2>1, <2>2, SteadyStep DEF ReqStep, Paged
<1>2. CASE found # {}
  <2>1. PICK t \in found : req' = [req EXCEPT ![r].step = "repaired", ![r].tenant = t]
    BY <1>2, Zenon DEF EnsureDefaultTenantMembership
  <2>2. t \in Tenants
    BY DEF ActiveMemberships
  <2>3. UnchangedRows
    BY <1>2 DEF EnsureDefaultTenantMembership, UnchangedRows
  <2> QED
    BY <1>1, <2>1, <2>2, <2>3, Zenon DEF RowStep, Paged
<1>3. CASE found = {}
  <2>1. Joined(Home(u), u)
    BY <1>3, Zenon DEF EnsureDefaultTenantMembership, Joined
  <2>2. req' = [req EXCEPT ![r].step = "repaired", ![r].tenant = Home(u)]
    BY <1>3, Zenon DEF EnsureDefaultTenantMembership
  <2> QED
    BY <1>0, <1>1, <2>1, <2>2, Zenon DEF RowStep, Paged
<1> QED
  BY <1>2, <1>3

LEMMA AssertStep ==
    ASSUME BaseInv, NEW r \in Requests, AssertTenantAccess(r)
    PROVE  ReqStep(r) /\ RowStep(r) /\ Paged(r)
<1>0. /\ RequestsOK /\ RowsOK /\ EverInv /\ AskerOK(req[r], ever) /\ UnchangedRows
      /\ req[r].user \in Users /\ req[r].tenant \in Tenants
  BY AskerOfRequest, UserOfRequest DEF AssertTenantAccess, BaseInv, AskerInv, AskerOK
<1>1. CASE TenantAccess(req[r].tenant, req[r].user, MinimumRole(req[r].op))
  <2>1. Goto(r, "context")
    BY <1>1 DEF AssertTenantAccess
  <2> QED
    BY <2>1, <1>0, <1>1, AdmitStep, SteadyStep DEF ReqStep, RowStep, Paged
<1>2. CASE ~TenantAccess(req[r].tenant, req[r].user, MinimumRole(req[r].op))
  <2>1. PICK code : Deny(r, code)
    BY <1>2, Zenon DEF AssertTenantAccess
  <2> QED
    BY <2>1, <1>0, DenyStep, SteadyStep DEF ReqStep, RowStep, Paged
<1> QED
  BY <1>1, <1>2

LEMMA FoundStep ==
    ASSUME BaseInv, NEW r \in Requests, SoftDeleteUser(r)
    PROVE  ReqStep(r) /\ RowStep(r) /\ Paged(r)
<1> DEFINE found == ActiveMemberships(req[r].user)
<1>0. RequestsOK /\ req[r].doomed = {} /\ req[r].user \in Users /\ UnchangedRows /\ req[r].op = "erase"
  BY AskerOfRequest, UserOfRequest DEF SoftDeleteUser, BaseInv, AskerOK
<1>1. CASE Answer(r, "NOT_FOUND")
  BY <1>0, <1>1, AnswerStep, SteadyStep DEF ReqStep, RowStep, Paged
<1>2. CASE req' = [req EXCEPT ![r].step = "found", ![r].todo = found]
  <2>1. found \in TenantSets
    BY DEF ActiveMemberships, TenantSets
  <2> PICK S : S = found
    BY Zenon
  <2>2. req' = [req EXCEPT ![r] = Found(req[r], S)]
    BY <1>2, Zenon DEF Found
  <2>3. IsRequest(req[r])
    BY <1>0 DEF RequestsOK
  <2> HIDE DEF found
  <2>4. LET new == Found(req[r], S) IN
        IsRequest(new) /\ SameAsker(new, req[r]) /\ new.step = "found" /\ new.todo = S
        /\ new.doomed = req[r].doomed
    BY <2>1, <2>3, FoundRow
  <2>5. RequestsOK' /\ req'[r] = Found(req[r], S) /\ Others(r)
    BY <2>2, <2>4, <1>0, OneRequest
  <2>6. AskerOK(req'[r], ever)
    BY <2>4, <2>5, <1>0 DEF AskerOK, InContext, SameAsker
  <2> QED
    BY <2>4, <2>5, <2>6, <1>0, Zenon DEF ReqStep, RowStep, Paged, FoundBy, SameAsker, found
<1> QED
  BY <1>1, <1>2, Zenon DEF SoftDeleteUser

LEMMA CountStep ==
    ASSUME BaseInv, NEW r \in Requests, CountRemainingMembers(r)
    PROVE  ReqStep(r) /\ RowStep(r) /\ Paged(r)
<1> DEFINE u == req[r].user
           gone == IF req[r].todo = {} THEN {} ELSE {t \in Tenants : role[t][u] # None}
           doomed == {t \in req[r].todo : ActiveTenantMembers(t) \ {u} = {}}
<1>0. RequestsOK /\ u \in Users /\ UnchangedRows /\ req[r].step = "found" /\ req[r].op = "erase"
  BY UserOfRequest DEF CountRemainingMembers, BaseInv, AskerInv, AskerOK
<1>1. IsRequest(req[r]) /\ req[r].todo \subseteq Tenants
  BY <1>0 DEF RequestsOK, IsRequest, Request
<1>2. gone \in TenantSets /\ doomed \in TenantSets /\ doomed \subseteq req[r].todo
  BY <1>1 DEF TenantSets
<1> PICK G, D : G = gone /\ D = doomed
  BY Zenon
<1>3. req' = [req EXCEPT ![r] = Counted(req[r], G, D)]
  BY Zenon DEF CountRemainingMembers, Counted
<1> HIDE DEF gone, doomed
<1>4. LET new == Counted(req[r], G, D) IN
      IsRequest(new) /\ SameAsker(new, req[r]) /\ new.step = "counted" /\ new.todo = req[r].todo
      /\ new.gone = G /\ new.doomed = D
  BY <1>1, <1>2, CountedRow
<1>5. RequestsOK' /\ req'[r] = Counted(req[r], G, D) /\ Others(r)
  BY <1>3, <1>4, <1>0, OneRequest
<1>6. AskerOK(req'[r], ever)
  BY <1>2, <1>4, <1>5, <1>0 DEF AskerOK, InContext, SameAsker
<1>7. CountedBy(r)
  BY <1>0, <1>4, <1>5, Zenon DEF CountedBy, SameAsker, gone, doomed
<1> QED
  BY <1>4, <1>5, <1>6, <1>7 DEF ReqStep, RowStep, Paged

LEMMA CommitStep ==
    ASSUME BaseInv, NEW r \in Requests, CommitErasure(r)
    PROVE  ReqStep(r) /\ RowStep(r) /\ Paged(r)
<1>1. RequestsOK /\ Answer(r, "DELETED")
  BY DEF BaseInv, CommitErasure
<1> QED
  BY <1>1, AnswerStep, SteadyStep DEF ReqStep, RowStep, Paged, ErasedBy

LEMMA TenancyShape ==
    ASSUME BaseInv, NEW r \in Requests, TenancyStep(r)
    PROVE  ReqStep(r) /\ RowStep(r) /\ Paged(r)
<1>1. ASSUME NEW op \in TenantOps, NEW u \in Users, NEW t \in Tenants \cup {None},
             EnsureAuthorizedSession(r, op, u, t)
      PROVE  ReqStep(r) /\ RowStep(r) /\ Paged(r)
  BY <1>1, OpenStep
<1> QED
  BY <1>1, CreateStep, DropStep, NamedStep, UnnamedStep, EnsureStep, AssertStep, FoundStep,
     CountStep, CommitStep, Zenon DEF TenancyStep
-------------------------------------------------------------------------------
(***************************************************************************)
(* The rows of a step, one by one.                                         *)
(***************************************************************************)
LEMMA HomesDiffer ==
    ASSUME NEW u, NEW v, Home(u) = Home(v)
    PROVE  u = v
  BY DEF Home

JoinedRows(t, u) ==
    /\ \A x \in Tenants : tenant'[x] = IF x = t THEN "active" ELSE tenant[x]
    /\ \A x \in Tenants, v \in Users : role'[x][v] = IF x = t /\ v = u THEN "OWNER" ELSE role[x][v]
    /\ account' = account /\ crossed' = crossed /\ RowsOK'
    /\ ever \cup {<<t, u, "OWNER">>} = ever'
    /\ late \subseteq late' /\ (account[u] = "deleted" => <<t, u>> \in late')

LEMMA JoinRows ==
    ASSUME RowsOK, NEW t \in Tenants, NEW u \in Users, Joined(t, u)
    PROVE  JoinedRows(t, u)
<1>1. /\ tenant' = [tenant EXCEPT ![t] = "active"] /\ role' = [role EXCEPT ![t][u] = "OWNER"]
      /\ account' = account /\ crossed' = crossed
      /\ ever' = ever \cup {<<t, u, "OWNER">>}
      /\ late' = IF account[u] = "deleted" THEN late \cup {<<t, u>>} ELSE late
  BY DEF Joined, Join
<1>2. "OWNER" \in Roles \cup {None}
  BY DEF Roles
<1>3. RowsOK'
  BY <1>1, <1>2 DEF RowsOK
<1>4. /\ \A x \in Tenants : tenant'[x] = IF x = t THEN "active" ELSE tenant[x]
      /\ \A x \in Tenants, v \in Users : role'[x][v] = IF x = t /\ v = u THEN "OWNER" ELSE role[x][v]
  BY <1>1 DEF RowsOK
<1> QED
  BY <1>1, <1>3, <1>4 DEF JoinedRows

ErasedRows(r) ==
    LET u == req[r].user IN
    /\ \A v \in Users : account'[v] = IF v = u THEN "deleted" ELSE account[v]
    /\ \A t \in Tenants, v \in Users :
          role'[t][v] = IF t \in req[r].gone /\ v = u THEN None ELSE role[t][v]
    /\ \A t \in Tenants : tenant'[t] = IF t \in req[r].doomed THEN "deleted" ELSE tenant[t]
    /\ crossed \subseteq crossed'
    /\ \A t \in req[r].todo, o \in Requests \ {r} :
          req[o].step = "counted" /\ t \in req[o].todo => t \in crossed'
    /\ ever' = ever /\ late' = late /\ RowsOK'

LEMMA EraseRows ==
    ASSUME BaseInv, NEW r \in Requests, CommitErasure(r)
    PROVE  ErasedRows(r) /\ req[r].step = "counted" /\ req[r].user \in Users
<1> DEFINE u == req[r].user
           Overlapping(t) == \E o \in Requests \ {r} : req[o].step = "counted" /\ t \in req[o].todo
<1>0. RowsOK /\ u \in Users /\ req[r].step = "counted"
  BY UserOfRequest DEF CommitErasure, BaseInv
<1>1. /\ account' = [account EXCEPT ![u] = "deleted"]
      /\ tenant'  = [t \in Tenants |-> IF t \in req[r].doomed THEN "deleted" ELSE tenant[t]]
      /\ crossed' = crossed \cup {t \in req[r].todo : Overlapping(t)}
      /\ ever' = ever /\ late' = late
  BY DEF CommitErasure
<1>2. role' = [t \in Tenants |->
                  IF t \in req[r].gone THEN [role[t] EXCEPT ![u] = None] ELSE role[t]]
  BY DEF CommitErasure
<1>3. RowsOK'
  BY <1>0, <1>1, <1>2 DEF RowsOK
<1>4. \A t \in Tenants, v \in Users :
          role'[t][v] = IF t \in req[r].gone /\ v = u THEN None ELSE role[t][v]
  BY <1>0, <1>2 DEF RowsOK
<1>5. \A v \in Users : account'[v] = IF v = u THEN "deleted" ELSE account[v]
  BY <1>0, <1>1 DEF RowsOK
<1> QED
  BY <1>0, <1>1, <1>3, <1>4, <1>5 DEF ErasedRows

LEMMA SameRows ==
    ASSUME NEW r \in Requests, UnchangedRows \/ FoundBy(r) \/ CountedBy(r)
    PROVE  UNCHANGED <<account, tenant, role, ever, late, crossed>>
  BY DEF UnchangedRows, FoundBy, CountedBy

LEMMA BaseStep ==
    ASSUME BaseInv, NEW r \in Requests, ReqStep(r), RowStep(r)
    PROVE  BaseInv' /\ ever \subseteq ever'
<1>0. RowsOK /\ EverInv /\ AskerInv
  BY DEF BaseInv
<1>1. CASE UNCHANGED <<account, tenant, role, ever, late, crossed>>
  <2>1. RowsOK' /\ EverInv' /\ ever' = ever
    BY <1>0, <1>1 DEF RowsOK, EverInv
  <2> QED
    BY <2>1, <1>0, Zenon DEF ReqStep, AskerInv, Others, BaseInv
<1>2. ASSUME RowsOK', EverInv', ever \subseteq ever'
      PROVE  BaseInv'
  <2>1. ASSUME NEW q \in Requests PROVE AskerOK(req'[q], ever')
    <3>1. AskerOK(req'[q], ever)
      BY <1>0, Zenon DEF ReqStep, AskerInv, Others
    <3> QED
      BY <3>1, <1>2, KnownGrows
  <2> QED
    BY <2>1, <1>2 DEF ReqStep, BaseInv, AskerInv
<1>3. ASSUME NEW t \in Tenants, NEW u \in Users, Joined(t, u)
      PROVE  RowsOK' /\ EverInv' /\ ever \subseteq ever'
  <2>1. JoinedRows(t, u)
    BY <1>0, <1>3, JoinRows
  <2> QED
    BY <2>1, <1>0 DEF JoinedRows, EverInv
<1>4. CASE ErasedBy(r)
  <2>1. ErasedRows(r)
    BY <1>4, EraseRows DEF ErasedBy
  <2>2. RowsOK' /\ EverInv' /\ ever \subseteq ever'
    BY <2>1, <1>0 DEF ErasedRows, EverInv
  <2> QED
    BY <2>2, <1>2
<1> QED
  BY <1>1, <1>2, <1>3, <1>4, SameRows DEF RowStep
-------------------------------------------------------------------------------
(***************************************************************************)
(* The inductive invariant of Tenancy.  An erasure holds the lock of its   *)
(* user from its first statement to its commit (Erasing), so nobody joins  *)
(* a tenant under that name, and nobody but the user joins the user's own  *)
(* tenant: what the erasure counted of its own memberships stays right.    *)
(* What it counted of the others can only shrink, and it shrinks only by   *)
(* another erasure that commits first, which is then recorded in crossed.  *)
(***************************************************************************)
MembersInv ==
    /\ \A t \in Tenants, u \in Users : role[t][u] # None => tenant[t] # "absent"
    /\ \A u, v \in Users : role[Home(u)][v] # None => v = u

Counting(q) == req[q].step = "counted"

TodoInv == \A q \in Requests : Leaving(q) =>
    /\ \A t \in req[q].todo :
          tenant[t] # "absent" /\ \A u \in Users : t = Home(u) => req[q].user = u
    /\ \A t \in Tenants :
          role[t][req[q].user] # None /\ tenant[t] = "active" => t \in req[q].todo

GoneInv == \A q \in Requests : Counting(q) =>
    \A t \in Tenants : role[t][req[q].user] # None /\ req[q].todo # {} => t \in req[q].gone

DoomedInv == \A q \in Requests : Counting(q) =>
    /\ req[q].doomed \subseteq req[q].todo
    /\ \A t \in req[q].doomed, v \in Users \ {req[q].user} :
          role[t][v] # None => account[v] = "deleted"

CountedInv == \A q \in Requests : Counting(q) =>
    \A t \in req[q].todo \ req[q].doomed : tenant[t] = "active" =>
        \/ \E v \in Users \ {req[q].user} : role[t][v] # None /\ account[v] = "active"
        \/ t \in crossed

TenancyInv ==
    /\ BaseInv /\ MembersInv /\ TodoInv /\ GoneInv /\ DoomedInv /\ CountedInv
    /\ ActiveMembersKeepTenant /\ LeftoversExplained

\* What an invariant about the erasures under way says of one of them.
LEMMA ErasureFacts ==
    ASSUME TenancyInv, NEW q \in Requests, Leaving(q)
    PROVE  req[q].user \in Users /\ req[q].todo \subseteq Tenants /\ Erasing(req[q].user)
<1>1. /\ BaseInv /\ req[q].step \notin {"idle", "done"}
      /\ req[q].step \in {"found", "counted"} /\ req[q].op = "erase"
  BY DEF TenancyInv, BaseInv, AskerInv, AskerOK, Leaving
<1>2. PICK a : req[q] \in Request(a)
  BY <1>1 DEF BaseInv, RequestsOK, IsRequest
<1> QED
  BY <1>1, <1>2, UserOfRequest DEF Request, Erasing

\* Nothing is written: what is there stays, and so do the erasures.
LEMMA QuietStep ==
    ASSUME TenancyInv, Steady, UNCHANGED <<account, tenant, role, late, crossed>>
    PROVE  /\ MembersInv' /\ TodoInv' /\ GoneInv' /\ DoomedInv' /\ CountedInv'
           /\ ActiveMembersKeepTenant' /\ LeftoversExplained'
<1>1. MembersInv' /\ ActiveMembersKeepTenant' /\ LeftoversExplained'
  BY DEF TenancyInv, MembersInv, ActiveMembersKeepTenant, LeftoversExplained, ActiveTenantMembers
<1>2. \A q \in Requests : Counting(q)' => Leaving(q)'
  BY DEF Counting, Leaving
<1>3. TodoInv'
  BY Zenon DEF TenancyInv, TodoInv, Steady, Leaving
<1>4. GoneInv'
  BY <1>2, Zenon DEF TenancyInv, GoneInv, Steady, Counting
<1>5. DoomedInv'
  BY <1>2 DEF TenancyInv, DoomedInv, Steady, Counting
<1>6. CountedInv'
  BY <1>2, Zenon DEF TenancyInv, CountedInv, Steady, Counting
<1> QED
  BY <1>1, <1>3, <1>4, <1>5, <1>6

LEMMA JoinStep ==
    ASSUME TenancyInv, Steady, NEW t \in Tenants, NEW u \in Users, Joined(t, u)
    PROVE  /\ MembersInv' /\ TodoInv' /\ GoneInv' /\ DoomedInv' /\ CountedInv'
           /\ ActiveMembersKeepTenant' /\ LeftoversExplained'
<1>1. JoinedRows(t, u)
  BY JoinRows DEF TenancyInv, BaseInv
<1>2. (t \in Slugs /\ tenant[t] = "absent") \/ t = Home(u)
  BY DEF Joined
<1>3. \A q \in Requests : Leaving(q)' => Leaving(q) /\ req'[q] = req[q] /\ req[q].user # u
  BY ErasureFacts DEF Joined, Steady, Leaving
<1>4. \A v \in Users : role[t][v] # None => v = u /\ t = Home(u)
  BY <1>2 DEF TenancyInv, MembersInv
<1>5. MembersInv'
  <2>1. ASSUME NEW x \in Users, NEW v \in Users, role'[Home(x)][v] # None PROVE v = x
    <3>1. CASE t = Home(x) /\ v = u
      BY <3>1, <1>2, NamesAssumption, HomesDiffer
    <3>2. CASE ~(t = Home(x) /\ v = u)
      <4>1. role[Home(x)][v] # None
        BY <1>1, <2>1, <3>2 DEF JoinedRows, Tenants
      <4> QED
        BY <4>1, <2>1 DEF TenancyInv, MembersInv
    <3> QED
      BY <3>1, <3>2
  <2>2. \A x \in Tenants, v \in Users : role'[x][v] # None => tenant'[x] # "absent"
    BY <1>1 DEF TenancyInv, MembersInv, JoinedRows
  <2> QED
    BY <2>1, <2>2 DEF MembersInv
<1>6. ASSUME NEW q \in Requests, Leaving(q)'
      PROVE  /\ Leaving(q) /\ req'[q] = req[q] /\ req[q].user # u /\ req[q].user \in Users
             /\ t \notin req[q].todo /\ role[t][req[q].user] = None
  <2>1. Leaving(q) /\ req'[q] = req[q] /\ req[q].user # u /\ req[q].user \in Users
    BY <1>3, <1>6, ErasureFacts
  <2> QED
    BY <2>1, <1>2, <1>4 DEF TenancyInv, TodoInv
<1>7. TodoInv'
  <2>1. ASSUME NEW q \in Requests, Leaving(q)'
        PROVE  /\ \A x \in req[q].todo :
                     tenant'[x] # "absent" /\ \A v \in Users : x = Home(v) => req[q].user = v
               /\ \A x \in Tenants :
                     role'[x][req[q].user] # None /\ tenant'[x] = "active" => x \in req[q].todo
    <3>1. /\ Leaving(q) /\ req[q].user # u /\ req[q].user \in Users
          /\ t \notin req[q].todo /\ role[t][req[q].user] = None /\ req[q].todo \subseteq Tenants
      BY <2>1, <1>6, ErasureFacts
    <3>2. /\ \A x \in req[q].todo :
                tenant[x] # "absent" /\ \A v \in Users : x = Home(v) => req[q].user = v
          /\ \A x \in Tenants :
                role[x][req[q].user] # None /\ tenant[x] = "active" => x \in req[q].todo
      BY <3>1, Zenon DEF TenancyInv, TodoInv
    <3> QED
      BY <3>1, <3>2, <1>1 DEF JoinedRows
  <2> QED
    BY <2>1, <1>6 DEF TodoInv
<1>8. ASSUME NEW q \in Requests, Counting(q)'
      PROVE  /\ Counting(q) /\ req'[q] = req[q] /\ req[q].user # u /\ req[q].user \in Users
             /\ t \notin req[q].todo /\ role[t][req[q].user] = None /\ req[q].todo \subseteq Tenants
  BY <1>6, <1>8, ErasureFacts DEF Counting, Leaving
<1>9. GoneInv'
  BY <1>1, <1>8 DEF TenancyInv, GoneInv, JoinedRows
<1>10. DoomedInv'
  <2>1. ASSUME NEW q \in Requests, Counting(q)'
        PROVE  /\ req[q].doomed \subseteq req[q].todo
               /\ \A x \in req[q].doomed, v \in Users \ {req[q].user} :
                     role'[x][v] # None => account'[v] = "deleted"
    <3>1. Counting(q) /\ t \notin req[q].todo /\ req[q].todo \subseteq Tenants
      BY <2>1, <1>8
    <3> QED
      BY <3>1, <1>1 DEF TenancyInv, DoomedInv, JoinedRows
  <2> QED
    BY <2>1, <1>8 DEF DoomedInv
<1>11. CountedInv'
  <2>1. ASSUME NEW q \in Requests, Counting(q)', NEW x \in req[q].todo \ req[q].doomed,
               tenant'[x] = "active"
        PROVE  \/ \E v \in Users \ {req[q].user} : role'[x][v] # None /\ account'[v] = "active"
               \/ x \in crossed'
    <3>1. Counting(q) /\ x # t /\ x \in Tenants
      BY <2>1, <1>8
    <3>2. \/ \E v \in Users \ {req[q].user} : role[x][v] # None /\ account[v] = "active"
          \/ x \in crossed
      BY <3>1, <2>1, <1>1 DEF TenancyInv, CountedInv, JoinedRows
    <3> QED
      BY <3>1, <3>2, <1>1 DEF JoinedRows
  <2> QED
    BY <2>1, <1>8, Zenon DEF CountedInv
<1>12. ActiveMembersKeepTenant'
  BY <1>1 DEF TenancyInv, ActiveMembersKeepTenant, JoinedRows
<1>13. LeftoversExplained'
  <2>1. ASSUME NEW x \in Tenants, NEW v \in Users,
               role'[x][v] # None, account'[v] = "deleted", tenant'[x] = "active"
        PROVE  <<x, v>> \in late'
    BY <2>1, <1>1, <1>4 DEF TenancyInv, LeftoversExplained, JoinedRows
  <2>2. ASSUME NEW x \in Tenants, tenant'[x] = "active", ActiveTenantMembers(x)' = {}
        PROVE  x \in crossed' \/ \E v \in Users : <<x, v>> \in late'
    <3>1. CASE x = t
      <4>1. role'[x][u] # None
        BY <3>1, <1>1, NamesAssumption DEF JoinedRows, Roles
      <4>2. account[u] # "active"
        BY <4>1, <2>2, <1>1 DEF ActiveTenantMembers, JoinedRows
      <4>3. account[u] = "deleted"
        BY <4>2 DEF TenancyInv, BaseInv, RowsOK
      <4> QED
        BY <3>1, <4>3, <1>1 DEF JoinedRows
    <3>2. CASE x # t
      <4>1. tenant[x] = "active" /\ ActiveTenantMembers(x) = {}
        BY <3>2, <2>2, <1>1 DEF ActiveTenantMembers, JoinedRows
      <4> QED
        BY <4>1, <1>1 DEF TenancyInv, LeftoversExplained, JoinedRows
    <3> QED
      BY <3>1, <3>2
  <2> QED
    BY <2>1, <2>2 DEF LeftoversExplained
<1> QED
  BY <1>5, <1>7, <1>9, <1>10, <1>11, <1>12, <1>13

\* An erasure reads the memberships of its user, and then counts.
LEMMA FindStep ==
    ASSUME TenancyInv, NEW r \in Requests, req[r].user \in Users, Others(r), FoundBy(r)
    PROVE  /\ MembersInv' /\ TodoInv' /\ GoneInv' /\ DoomedInv' /\ CountedInv'
           /\ ActiveMembersKeepTenant' /\ LeftoversExplained'
<1> DEFINE u == req[r].user
<1>1. UNCHANGED <<account, tenant, role, late, crossed>>
  BY DEF FoundBy, UnchangedRows
<1>2. MembersInv' /\ ActiveMembersKeepTenant' /\ LeftoversExplained'
  BY <1>1 DEF TenancyInv, MembersInv, ActiveMembersKeepTenant, LeftoversExplained, ActiveTenantMembers
<1>3. req'[r].user = u /\ req'[r].step = "found" /\ req'[r].todo = ActiveMemberships(u)
  BY DEF FoundBy
<1>4. \A q \in Requests : Counting(q)' => Counting(q) /\ req'[q] = req[q]
  BY <1>3 DEF Counting, Others
<1>5. TodoInv'
  <2>1. ASSUME NEW q \in Requests, q # r, Leaving(q)' PROVE Leaving(q) /\ req'[q] = req[q]
    BY <2>1 DEF Leaving, Others
  <2>2. /\ \A t \in ActiveMemberships(u) :
              tenant[t] # "absent" /\ \A v \in Users : t = Home(v) => u = v
        /\ \A t \in Tenants : role[t][u] # None /\ tenant[t] = "active" => t \in ActiveMemberships(u)
    BY DEF TenancyInv, MembersInv, ActiveMemberships
  <2> QED
    BY <1>1, <1>3, <2>1, <2>2 DEF TenancyInv, TodoInv
<1>6. GoneInv'
  BY <1>1, <1>4, Zenon DEF TenancyInv, GoneInv
<1>7. DoomedInv'
  BY <1>1, <1>4 DEF TenancyInv, DoomedInv
<1>8. CountedInv'
  BY <1>1, <1>4, Zenon DEF TenancyInv, CountedInv
<1> QED
  BY <1>2, <1>5, <1>6, <1>7, <1>8

LEMMA TallyStep ==
    ASSUME TenancyInv, NEW r \in Requests, req[r].user \in Users, Others(r), CountedBy(r)
    PROVE  /\ MembersInv' /\ TodoInv' /\ GoneInv' /\ DoomedInv' /\ CountedInv'
           /\ ActiveMembersKeepTenant' /\ LeftoversExplained'
<1> DEFINE u == req[r].user
<1>1. UNCHANGED <<account, tenant, role, late, crossed>>
  BY DEF CountedBy, UnchangedRows
<1>2. MembersInv' /\ ActiveMembersKeepTenant' /\ LeftoversExplained'
  BY <1>1 DEF TenancyInv, MembersInv, ActiveMembersKeepTenant, LeftoversExplained, ActiveTenantMembers
<1>3. /\ req'[r].user = u /\ req'[r].step = "counted" /\ req'[r].todo = req[r].todo
      /\ req'[r].gone = IF req[r].todo = {} THEN {} ELSE {t \in Tenants : role[t][u] # None}
      /\ req'[r].doomed = {t \in req[r].todo : ActiveTenantMembers(t) \ {u} = {}}
      /\ Leaving(r)
  BY DEF CountedBy, Leaving
<1>4. \A q \in Requests : q # r /\ Counting(q)' => Counting(q) /\ req'[q] = req[q]
  BY DEF Counting, Others
<1>5. TodoInv'
  <2>1. ASSUME NEW q \in Requests, Leaving(q)'
        PROVE  Leaving(q) /\ req'[q].todo = req[q].todo /\ req'[q].user = req[q].user
    BY <2>1, <1>3 DEF Leaving, Others
  <2> QED
    BY <1>1, <2>1, Zenon DEF TenancyInv, TodoInv
<1>6. GoneInv'
  <2>1. \A t \in Tenants : role[t][u] # None /\ req[r].todo # {} => t \in req'[r].gone
    BY <1>3
  <2> QED
    BY <2>1, <1>1, <1>3, <1>4, Zenon DEF TenancyInv, GoneInv
<1>7. DoomedInv'
  <2>1. /\ req'[r].doomed \subseteq req'[r].todo
        /\ \A t \in req'[r].doomed, v \in Users \ {u} : role[t][v] # None => account[v] = "deleted"
    <3>1. ASSUME NEW t \in req'[r].doomed, NEW v \in Users \ {u}, role[t][v] # None
          PROVE  account[v] = "deleted"
      <4>1. account[v] # "active"
        BY <3>1, <1>3 DEF ActiveTenantMembers
      <4> QED
        BY <4>1 DEF TenancyInv, BaseInv, RowsOK
    <3> QED
      BY <3>1, <1>3
  <2> QED
    BY <2>1, <1>1, <1>3, <1>4 DEF TenancyInv, DoomedInv
<1>8. CountedInv'
  <2>1. ASSUME NEW t \in req'[r].todo \ req'[r].doomed
        PROVE  \E v \in Users \ {u} : role[t][v] # None /\ account[v] = "active"
    BY <1>3 DEF ActiveTenantMembers
  <2> QED
    BY <2>1, <1>1, <1>3, <1>4 DEF TenancyInv, CountedInv
<1> QED
  BY <1>2, <1>5, <1>6, <1>7, <1>8

LEMMA EraseStep ==
    ASSUME TenancyInv, NEW r \in Requests, ErasedBy(r)
    PROVE  /\ MembersInv' /\ TodoInv' /\ GoneInv' /\ DoomedInv' /\ CountedInv'
           /\ ActiveMembersKeepTenant' /\ LeftoversExplained'
<1> DEFINE u == req[r].user
<1>1. ErasedRows(r) /\ u \in Users /\ Counting(r) /\ Leaving(r) /\ req[r].todo \subseteq Tenants
  BY EraseRows, ErasureFacts DEF TenancyInv, ErasedBy, Counting, Leaving
<1>2. /\ \A v \in Users : account'[v] = IF v = u THEN "deleted" ELSE account[v]
      /\ \A t \in Tenants, v \in Users :
            role'[t][v] = IF t \in req[r].gone /\ v = u THEN None ELSE role[t][v]
      /\ \A t \in Tenants : tenant'[t] = IF t \in req[r].doomed THEN "deleted" ELSE tenant[t]
      /\ crossed \subseteq crossed' /\ late' = late
  BY <1>1 DEF ErasedRows
<1>3. \A t \in req[r].todo, o \in Requests \ {r} :
          req[o].step = "counted" /\ t \in req[o].todo => t \in crossed'
  BY <1>1 DEF ErasedRows
<1>4. MembersInv'
  BY <1>2 DEF TenancyInv, MembersInv, Tenants
<1>5. ASSUME NEW q \in Requests, Leaving(q)'
      PROVE  /\ Leaving(q) /\ req'[q] = req[q] /\ q # r
             /\ req[q].user \in Users /\ req[q].todo \subseteq Tenants
  <2>1. Leaving(q) /\ req'[q] = req[q] /\ q # r
    BY <1>5 DEF ErasedBy, Steady, Leaving
  <2> QED
    BY <2>1, ErasureFacts
<1>6. \A q \in Requests : Counting(q)' => Leaving(q)' /\ Counting(q)
  BY <1>5 DEF Counting, Leaving
<1>7. \A t \in Tenants : tenant'[t] = "active" => tenant[t] = "active"
  BY <1>2
<1>8. \A t \in Tenants, v \in Users : role'[t][v] # None => role[t][v] # None
  BY <1>2
<1>9. \A v \in Users : account[v] = "deleted" => account'[v] = "deleted"
  BY <1>2
<1>10. TodoInv'
  <2>1. ASSUME NEW q \in Requests, Leaving(q)'
        PROVE  /\ \A t \in req[q].todo :
                     tenant'[t] # "absent" /\ \A v \in Users : t = Home(v) => req[q].user = v
               /\ \A t \in Tenants :
                     role'[t][req[q].user] # None /\ tenant'[t] = "active" => t \in req[q].todo
    <3>1. /\ \A t \in req[q].todo :
                tenant[t] # "absent" /\ \A v \in Users : t = Home(v) => req[q].user = v
          /\ \A t \in Tenants :
                role[t][req[q].user] # None /\ tenant[t] = "active" => t \in req[q].todo
      BY <2>1, <1>5, Zenon DEF TenancyInv, TodoInv
    <3>2. req[q].user \in Users /\ req[q].todo \subseteq Tenants
      BY <2>1, <1>5
    <3> QED
      BY <3>1, <3>2, <1>2, <1>7, <1>8
  <2> QED
    BY <2>1, <1>5 DEF TodoInv
<1>11. GoneInv'
  <2>1. ASSUME NEW q \in Requests, Counting(q)', NEW t \in Tenants,
               role'[t][req[q].user] # None, req[q].todo # {}
        PROVE  t \in req[q].gone
    <3>1. Counting(q) /\ req[q].user \in Users
      BY <2>1, <1>5, <1>6
    <3>2. role[t][req[q].user] # None
      BY <2>1, <3>1, <1>8
    <3> QED
      BY <2>1, <3>1, <3>2, Zenon DEF TenancyInv, GoneInv
  <2> QED
    BY <2>1, <1>5, <1>6 DEF GoneInv
<1>12. DoomedInv'
  <2>1. ASSUME NEW q \in Requests, Counting(q)'
        PROVE  /\ req[q].doomed \subseteq req[q].todo
               /\ \A t \in req[q].doomed, v \in Users \ {req[q].user} :
                     role'[t][v] # None => account'[v] = "deleted"
    <3>1. Counting(q) /\ req[q].todo \subseteq Tenants
      BY <2>1, <1>5, <1>6
    <3>2. /\ req[q].doomed \subseteq req[q].todo
          /\ \A t \in req[q].doomed, v \in Users \ {req[q].user} :
                role[t][v] # None => account[v] = "deleted"
      BY <3>1, Zenon DEF TenancyInv, DoomedInv
    <3> QED
      BY <3>1, <3>2, <1>8, <1>9
  <2> QED
    BY <2>1, <1>5, <1>6 DEF DoomedInv
<1>13. CountedInv'
  <2>1. ASSUME NEW q \in Requests, Counting(q)', NEW t \in req[q].todo \ req[q].doomed,
               tenant'[t] = "active"
        PROVE  \/ \E v \in Users \ {req[q].user} : role'[t][v] # None /\ account'[v] = "active"
               \/ t \in crossed'
    <3>1. Counting(q) /\ t \in Tenants /\ tenant[t] = "active" /\ q # r
      BY <2>1, <1>5, <1>6, <1>7
    <3>2. CASE t \in crossed
      BY <3>2, <1>2
    <3>3. CASE t \notin crossed
      <4>1. PICK v \in Users \ {req[q].user} : role[t][v] # None /\ account[v] = "active"
        BY <3>1, <3>3, <2>1, Zenon DEF TenancyInv, CountedInv
      <4>2. CASE v = u
        <5>1. t \in req[r].todo
          BY <4>1, <4>2, <3>1, <1>1, Zenon DEF TenancyInv, TodoInv
        <5> QED
          BY <5>1, <3>1, <2>1, <1>3 DEF Counting
      <4>3. CASE v # u
        BY <4>1, <4>3, <3>1, <1>2
      <4> QED
        BY <4>2, <4>3
    <3> QED
      BY <3>2, <3>3
  <2> QED
    BY <2>1, <1>5, <1>6 DEF CountedInv
<1>14. ActiveMembersKeepTenant'
  <2>1. ASSUME NEW t \in Tenants, NEW v \in Users, role'[t][v] # None, account'[v] = "active"
        PROVE  tenant'[t] = "active"
    <3>1. v # u /\ role[t][v] # None /\ account[v] = "active"
      BY <2>1, <1>2
    <3>2. tenant[t] = "active"
      BY <3>1, Zenon DEF TenancyInv, ActiveMembersKeepTenant
    <3>3. t \notin req[r].doomed
      BY <3>1, <1>1 DEF TenancyInv, DoomedInv
    <3> QED
      BY <3>2, <3>3, <1>2
  <2> QED
    BY <2>1 DEF ActiveMembersKeepTenant
<1>15. LeftoversExplained'
  <2>1. ASSUME NEW t \in Tenants, NEW v \in Users,
               role'[t][v] # None, account'[v] = "deleted", tenant'[t] = "active"
        PROVE  <<t, v>> \in late'
    <3>1. role[t][v] # None /\ tenant[t] = "active"
      BY <2>1, <1>7, <1>8
    <3>2. CASE v = u
      <4>1. t \in req[r].todo
        BY <3>1, <3>2, <1>1, Zenon DEF TenancyInv, TodoInv
      <4>2. t \in req[r].gone
        BY <3>1, <3>2, <4>1, <1>1 DEF TenancyInv, GoneInv
      <4> QED
        BY <4>2, <2>1, <3>2, <1>2
    <3>3. CASE v # u
      BY <3>1, <3>3, <2>1, <1>2 DEF TenancyInv, LeftoversExplained
    <3> QED
      BY <3>2, <3>3
  <2>2. ASSUME NEW t \in Tenants, tenant'[t] = "active", ActiveTenantMembers(t)' = {}
        PROVE  t \in crossed' \/ \E v \in Users : <<t, v>> \in late'
    <3>1. tenant[t] = "active" /\ t \notin req[r].doomed
      BY <2>2, <1>2
    <3>2. CASE ActiveTenantMembers(t) = {}
      BY <3>1, <3>2, <1>2 DEF TenancyInv, LeftoversExplained
    <3>3. CASE ActiveTenantMembers(t) # {}
      <4>1. PICK v \in Users : role[t][v] # None /\ account[v] = "active"
        BY <3>3 DEF ActiveTenantMembers
      <4>2. v = u
        BY <4>1, <2>2, <1>2 DEF ActiveTenantMembers
      <4>3. t \in req[r].todo
        BY <4>1, <4>2, <3>1, <1>1, Zenon DEF TenancyInv, TodoInv
      <4>4. \/ \E w \in Users \ {u} : role[t][w] # None /\ account[w] = "active"
            \/ t \in crossed
        BY <4>3, <3>1, <1>1 DEF TenancyInv, CountedInv
      <4>5. ~ \E w \in Users \ {u} : role[t][w] # None /\ account[w] = "active"
        BY <2>2, <1>2 DEF ActiveTenantMembers
      <4> QED
        BY <4>4, <4>5, <1>2
    <3> QED
      BY <3>2, <3>3
  <2> QED
    BY <2>1, <2>2 DEF LeftoversExplained
<1> QED
  BY <1>4, <1>10, <1>11, <1>12, <1>13, <1>14, <1>15

LEMMA TenancyPreserved ==
    ASSUME TenancyInv, NEW r \in Requests, ReqStep(r), RowStep(r)
    PROVE  TenancyInv'
<1>1. BaseInv'
  BY BaseStep DEF TenancyInv
<1>2. req[r].user \in Users \/ ~(FoundBy(r) \/ CountedBy(r))
  <2>1. ASSUME FoundBy(r) \/ CountedBy(r) PROVE req[r].user \in Users
    BY <2>1 DEF FoundBy, CountedBy, ReqStep, AskerOK
  <2> QED
    BY <2>1
<1> QED
  BY <1>1, <1>2, QuietStep, JoinStep, FindStep, TallyStep, EraseStep, Zenon
  DEF TenancyInv, RowStep, ReqStep, UnchangedRows
-------------------------------------------------------------------------------
(***************************************************************************)
(* The inductive invariant of InstanceControl.  A submission that passed   *)
(* its checks holds an answer that stays right: a group, once written, is  *)
(* never changed.  Each instance is held by exactly one job, and each      *)
(* answer names the job it got.                                            *)
(***************************************************************************)
FormRows == [group : Groups \cup {None}, network : Groups \cup {None},
             firewall : Groups \cup {None}, region : Regions \cup {None},
             name : Names \cup {None}, key : Keys \cup {None}]

TablesOK ==
    /\ group \in [Groups -> Regions \cup {None}]
    /\ instance \in [Instances -> InstanceRows \cup {None}]
    /\ job \in [Jobs -> Instances \cup {None}]
    /\ events \in [Instances -> 0..1]
    /\ form \in [Requests -> FormRows]
    /\ checks \in [Requests -> 0..2]

\* The parts of an instance: one group with its network and policy, in its
\* region.  there stands for group, the rows of the resource groups.
OneGroup(there, t, parts) ==
    /\ parts.group \in Groups /\ parts.group[1] = t /\ there[parts.group] # None
    /\ parts.network = parts.group /\ parts.firewall = parts.group
    /\ parts.region = there[parts.group]

FormInv == \A r \in Requests :
    /\ req[r].step \in {"checked", "insert"} => OneGroup(group, req[r].tenant, form[r])
    /\ req[r].step = "insert" => form[r].name \in Names /\ form[r].key \in Keys

InstanceInv == \A i \in Instances : instance[i] # None =>
    BelongedIn(ever, i[1], instance[i].by, "ADMIN") /\ OneGroup(group, i[1], instance[i])

ShownInv == \A s \in shown : BelongedIn(ever, s[2][1], s[1], "MEMBER")

JobInv ==
    /\ \A i \in Instances : events[i] = IF instance[i] = None THEN 0 ELSE 1
    /\ \A i \in Instances : instance[i] # None => \E j \in Jobs : job[j] = i
    /\ \A j \in Jobs : job[j] # None => instance[job[j]] # None /\ job[j][1] = j[1]
    /\ \A j, k \in Jobs : job[j] # None /\ job[j] = job[k] => j = k

AnsweredInv ==
    /\ \A a \in answered : a[4] # "failed" => a[2] \in Jobs /\ a[3] \in Instances /\ job[a[2]] = a[3]
    /\ \A a, b \in answered : a[4] = "made" /\ b[4] = "made" /\ a[2] = b[2] => a = b

ControlInv ==
    /\ TenancyInv /\ TablesOK /\ FormInv /\ InstanceInv /\ ShownInv /\ JobInv /\ AnsweredInv
-------------------------------------------------------------------------------
(***************************************************************************)
(* The steps of InstanceControl, as seen from Tenancy.                     *)
(***************************************************************************)
LEMMA AnswerShape ==
    ASSUME BaseInv, NEW r \in Requests, NEW a, Answer(r, a), UnchangedTenancy
    PROVE  ReqStep(r) /\ RowStep(r) /\ Paged(r)
  BY AnswerStep, SteadyStep DEF BaseInv, ReqStep, RowStep, Paged, UnchangedRows, UnchangedTenancy

\* A request in its context goes on with the tenant it has.
LEMMA GoOnShape ==
    ASSUME BaseInv, NEW r \in Requests, NEW s \in {"checked", "insert", "snapshot"},
           req[r].step \in InContext, s \in {"checked", "insert"} => req[r].op = "submit",
           Goto(r, s), UnchangedTenancy
    PROVE  ReqStep(r) /\ RowStep(r) /\ SameAsker(req'[r], req[r])
           /\ req'[r].step = s /\ req'[r].tenant = req[r].tenant
<1>1. /\ RequestsOK' /\ Others(r) /\ SameWork(req'[r], req[r]) /\ SameAsker(req'[r], req[r])
      /\ req'[r].step = s /\ req'[r].tenant = req[r].tenant
  BY GotoStep DEF BaseInv, AllSteps
<1>2. AskerOK(req[r], ever)
  BY DEF BaseInv, AskerInv
<1>3. AskerOK(req'[r], ever)
  BY <1>1, <1>2 DEF AskerOK, InContext, SameAsker, SameWork
<1> QED
  BY <1>1, <1>3, SteadyStep DEF ReqStep, RowStep, UnchangedRows, UnchangedTenancy

LEMMA AccessShape ==
    ASSUME BaseInv, NEW r \in Requests, AssertInstanceTenantAccess(r)
    PROVE  ReqStep(r) /\ RowStep(r) /\ Paged(r)
<1>1. /\ req[r].step = "context" /\ UnchangedTenancy
      /\ UNCHANGED req \/ Answer(r, "TENANT_ACCESS_DENIED")
  BY DEF AssertInstanceTenantAccess
<1>2. CASE UNCHANGED req
  <2>1. RequestsOK' /\ Others(r) /\ Steady /\ AskerOK(req'[r], ever)
    BY <1>2, Zenon DEF BaseInv, AskerInv, Others, Steady, RequestsOK, IsRequest, Request
  <2> QED
    BY <1>1, <1>2, <2>1 DEF ReqStep, RowStep, Paged, UnchangedTenancy, UnchangedRows
<1> QED
  BY <1>1, <1>2, AnswerShape

LEMMA GroupShape ==
    ASSUME BaseInv, NEW r \in Requests, NEW slug, NEW region,
           CreateResourceGroupWithDefaults(r, slug, region)
    PROVE  ReqStep(r) /\ RowStep(r) /\ Paged(r)
<1>1. UnchangedTenancy /\ \E a : Answer(r, a)
  BY Zenon DEF CreateResourceGroupWithDefaults
<1> QED
  BY <1>1, AnswerShape

LEMMA CheckShape ==
    ASSUME BaseInv, NEW r \in Requests, NEW g, NEW n, NEW f, NEW region,
           CheckSubmission(r, g, n, f, region)
    PROVE  ReqStep(r) /\ RowStep(r)
<1>1. /\ UnchangedTenancy /\ req[r].op = "submit" /\ req[r].step = "context"
      /\ Goto(r, "checked") \/ \E a : Answer(r, a)
  BY Zenon DEF CheckSubmission
<1> QED
  BY <1>1, AnswerShape, GoOnShape DEF InContext

LEMMA SubmittedShape ==
    ASSUME BaseInv, NEW r \in Requests, NEW key, NEW i, NEW outcome,
           Submitted(r, key, i, outcome), UnchangedTenancy
    PROVE  ReqStep(r) /\ RowStep(r) /\ Paged(r)
<1>1. \E a : Answer(r, a)
  BY Zenon DEF Submitted
<1> QED
  BY <1>1, AnswerShape

LEMMA FindJobShape ==
    ASSUME BaseInv, NEW r \in Requests, NEW name, NEW key, FindProvisioningJob(r, name, key)
    PROVE  ReqStep(r) /\ RowStep(r)
<1>1. /\ UnchangedTenancy /\ req[r].step = "checked"
      /\ Goto(r, "insert") \/ \E i : Submitted(r, key, i, "reused")
  BY Zenon DEF FindProvisioningJob
<1>2. req[r].op = "submit"
  BY <1>1 DEF BaseInv, AskerInv, AskerOK
<1> QED
  BY <1>1, <1>2, SubmittedShape, GoOnShape DEF InContext

LEMMA InsertShape ==
    ASSUME BaseInv, NEW r \in Requests, CreateProvisioningRequest(r)
    PROVE  ReqStep(r) /\ RowStep(r) /\ Paged(r)
<1>1. UnchangedTenancy /\ \E key, i, outcome : Submitted(r, key, i, outcome)
  BY Zenon DEF CreateProvisioningRequest
<1> QED
  BY <1>1, SubmittedShape

LEMMA SnapshotShape ==
    ASSUME BaseInv, NEW r \in Requests, FindActiveUserDashboardSnapshot(r)
    PROVE  ReqStep(r) /\ RowStep(r) /\ Paged(r)
<1>1. /\ UnchangedTenancy /\ req[r].step = "context"
      /\ Answer(r, "DASHBOARD_USER_NOT_FOUND") \/ Goto(r, "snapshot")
  BY Zenon DEF FindActiveUserDashboardSnapshot
<1> QED
  BY <1>1, AnswerShape, GoOnShape DEF InContext, Paged

LEMMA ShowShape ==
    ASSUME BaseInv, NEW r \in Requests, NEW rows, Show(r, rows)
    PROVE  ReqStep(r) /\ RowStep(r) /\ Paged(r)
  BY AnswerShape DEF Show

LEMMA ControlShape ==
    ASSUME BaseInv, NEW r \in Requests, ControlStep(r)
    PROVE  ReqStep(r) /\ RowStep(r)
<1>1. ASSUME NEW op \in {"group", "submit"}, NEW u \in Users, NEW t \in Tenants,
             OpenWizardAction(r, op, u, t)
      PROVE  ReqStep(r) /\ RowStep(r)
  BY <1>1, OpenStep DEF OpenWizardAction
<1>2. CASE GetDashboardOverview(r) \/ GetInstanceWizardBootstrap(r) \/ GetTenantManagementDetail(r)
  BY <1>2, ShowShape DEF GetDashboardOverview, GetInstanceWizardBootstrap, GetTenantManagementDetail
<1> QED
  BY <1>1, <1>2, AccessShape, GroupShape, CheckShape, FindJobShape, InsertShape, SnapshotShape, Zenon
  DEF ControlStep
-------------------------------------------------------------------------------
(***************************************************************************)
(* The steps of InstanceControl preserve its invariant.                    *)
(***************************************************************************)
GroupsKept == \A g \in Groups : group[g] # None => group'[g] = group[g]

LEMMA OneGroupKept ==
    ASSUME GroupsKept, NEW t, NEW parts, OneGroup(group, t, parts)
    PROVE  OneGroup(group', t, parts)
  BY DEF GroupsKept, OneGroup

LEMMA BelongedKept ==
    ASSUME ever \subseteq ever', NEW t, NEW u, NEW minimum, BelongedIn(ever, t, u, minimum)
    PROVE  BelongedIn(ever', t, u, minimum)
  BY DEF BelongedIn

LEMMA AdministratorsRead ==
    ASSUME NEW known, NEW t, NEW u, NEW op, BelongedIn(known, t, u, MinimumRole(op))
    PROVE  BelongedIn(known, t, u, "MEMBER")
<1>1. PICK held \in Roles : <<t, u, held>> \in known
  BY DEF BelongedIn
<1>2. HasRequiredTenantRole(held, "MEMBER")
  BY DEF HasRequiredTenantRole, Roles, RolePermissions, MinimumRolePermission
<1> QED
  BY <1>1, <1>2 DEF BelongedIn

FormFor(r) ==
    /\ req[r].step \in {"checked", "insert"} => OneGroup(group, req[r].tenant, form[r])
    /\ req[r].step = "insert" => form[r].name \in Names /\ form[r].key \in Keys

\* Groups, forms and instances a step leaves alone stay right.
LEMMA KeepForms ==
    ASSUME ControlInv, NEW r \in Requests, Others(r), GroupsKept,
           \A q \in Requests \ {r} : form'[q] = form[q], FormFor(r)'
    PROVE  FormInv'
<1>1. ASSUME NEW q \in Requests, q # r PROVE FormFor(q)'
  <2>1. FormFor(q)
    BY DEF ControlInv, FormInv, FormFor
  <2>2. req'[q] = req[q] /\ form'[q] = form[q]
    BY <1>1 DEF Others
  <2>3. req'[q].step \in {"checked", "insert"} => OneGroup(group', req'[q].tenant, form'[q])
    BY <2>1, <2>2, OneGroupKept DEF FormFor
  <2> QED
    BY <2>1, <2>2, <2>3 DEF FormFor
<1> QED
  BY <1>1, Zenon DEF FormInv, FormFor

\* A step that leaves instances, jobs and answers alone.
LEMMA KeepJobs ==
    ASSUME ControlInv, ever \subseteq ever', GroupsKept, UNCHANGED <<instance, job, events, answered>>
    PROVE  InstanceInv' /\ JobInv' /\ AnsweredInv'
<1>1. ASSUME NEW i \in Instances, instance'[i] # None
      PROVE  BelongedIn(ever', i[1], instance'[i].by, "ADMIN") /\ OneGroup(group', i[1], instance'[i])
  <2>1. BelongedIn(ever, i[1], instance[i].by, "ADMIN") /\ OneGroup(group, i[1], instance[i])
    BY <1>1 DEF ControlInv, InstanceInv
  <2>2. OneGroup(group', i[1], instance[i])
    BY <2>1, OneGroupKept
  <2> QED
    BY <2>1, <2>2, BelongedKept
<1>2. InstanceInv'
  BY <1>1, Zenon DEF InstanceInv
<1>3. JobInv' /\ AnsweredInv'
  BY DEF ControlInv, JobInv, AnsweredInv
<1> QED
  BY <1>2, <1>3

LEMMA KeepShown ==
    ASSUME ControlInv, ever \subseteq ever', UNCHANGED shown
    PROVE  ShownInv'
  BY BelongedKept DEF ControlInv, ShownInv

\* A request that only moves on, or ends.
LEMMA QuietControl ==
    ASSUME ControlInv, TenancyInv', NEW r \in Requests, Others(r), Paged(r), ever \subseteq ever',
           UNCHANGED <<tables, form, answered, shown>>, checks' \in [Requests -> 0..2]
    PROVE  ControlInv'
<1>1. UNCHANGED <<group, instance, job, events, form, answered, shown>> /\ GroupsKept
  BY DEF tables, GroupsKept
<1>2. TablesOK'
  BY <1>1 DEF ControlInv, TablesOK
<1>3. FormFor(r)'
  BY DEF FormFor, Paged
<1> QED
  BY <1>1, <1>2, <1>3, KeepForms, KeepJobs, KeepShown DEF ControlInv

LEMMA ControlGroup ==
    ASSUME ControlInv, TenancyInv', NEW r \in Requests, Others(r), Paged(r), ever \subseteq ever',
           NEW slug \in GroupSlugs, NEW region, CreateResourceGroupWithDefaults(r, slug, region)
    PROVE  ControlInv'
<1> DEFINE g == <<req[r].tenant, slug>>
<1>1. UNCHANGED <<instance, job, events, form, checks, answered, shown>>
  BY DEF CreateResourceGroupWithDefaults
<1>2. UNCHANGED group \/ (region \in Regions /\ group[g] = None /\ group' = [group EXCEPT ![g] = region])
  BY Zenon DEF CreateResourceGroupWithDefaults
<1>3. group' \in [Groups -> Regions \cup {None}] /\ GroupsKept
  BY <1>2 DEF ControlInv, TablesOK, GroupsKept
<1>4. TablesOK'
  BY <1>1, <1>3 DEF ControlInv, TablesOK
<1>5. FormFor(r)'
  BY DEF FormFor, Paged
<1> QED
  BY <1>1, <1>3, <1>4, <1>5, KeepForms, KeepJobs, KeepShown DEF ControlInv

(***************************************************************************)
(* Submissions.                                                            *)
(***************************************************************************)
Asking(g, n, f, region) == [NoForm EXCEPT !.group = g, !.network = n, !.firewall = f, !.region = region]
Naming(row, name, key)  == [row EXCEPT !.name = name, !.key = key]

LEMMA AskingRow ==
    ASSUME NEW g \in Groups, NEW n \in Groups, NEW f \in Groups, NEW region \in Regions
    PROVE  LET new == Asking(g, n, f, region) IN
           /\ new \in FormRows
           /\ new.group = g /\ new.network = n /\ new.firewall = f /\ new.region = region
<1>1. NoForm \in FormRows
  BY DEF NoForm, FormRows
<1>2. Asking(g, n, f, region) \in FormRows
  BY <1>1, Zenon DEF Asking, FormRows
<1> QED
  BY <1>1, <1>2, Zenon DEF Asking, FormRows

LEMMA NamingRow ==
    ASSUME NEW row \in FormRows, NEW name \in Names, NEW key \in Keys
    PROVE  LET new == Naming(row, name, key) IN
           /\ new \in FormRows
           /\ new.group = row.group /\ new.network = row.network /\ new.firewall = row.firewall
           /\ new.region = row.region /\ new.name = name /\ new.key = key
<1>1. Naming(row, name, key) \in FormRows
  BY Zenon DEF Naming, FormRows
<1> QED
  BY <1>1, Zenon DEF Naming, FormRows

\* What passes the checks is one group of the tenant, in its region.
LEMMA RejectionSound ==
    ASSUME NEW t, NEW asked, Rejection(t, asked) = None
    PROVE  OneGroup(group, t, asked)
  BY ControlAssumption
  DEF Rejection, OneGroup, FindResourceGroup, FindNetwork, FindFirewallPolicy, ActiveResourceGroups

LEMMA ControlCheck ==
    ASSUME ControlInv, TenancyInv', NEW r \in Requests, Others(r), ever \subseteq ever',
           NEW g \in Groups, NEW n \in Groups, NEW region \in Regions, NEW f \in {g, n},
           CheckSubmission(r, g, n, f, region)
    PROVE  ControlInv'
<1> DEFINE asked == Asking(g, n, f, region)
<1>0. BaseInv /\ f \in Groups
  BY DEF ControlInv, TenancyInv
<1>1. /\ UNCHANGED <<tables, checks, answered, shown>>
      /\ req[r].op = "submit" /\ req[r].step = "context" /\ UnchangedTenancy
  BY DEF CheckSubmission
<1>2. \/ /\ Rejection(req[r].tenant, asked) = None /\ Goto(r, "checked")
         /\ form' = [form EXCEPT ![r] = asked]
      \/ \E a : Answer(r, a) /\ UNCHANGED form
  BY Zenon DEF CheckSubmission, Asking
<1>3. CASE \E a : Answer(r, a) /\ UNCHANGED form
  <2>1. Paged(r)
    BY <1>0, <1>1, <1>3, AnswerShape
  <2>2. checks' \in [Requests -> 0..2]
    BY <1>1 DEF ControlInv, TablesOK
  <2> QED
    BY <1>1, <1>3, <2>1, <2>2, QuietControl
<1>4. CASE /\ Rejection(req[r].tenant, asked) = None /\ Goto(r, "checked")
           /\ form' = [form EXCEPT ![r] = asked]
  <2>1. req'[r].step = "checked" /\ req'[r].tenant = req[r].tenant
    BY <1>0, <1>1, <1>4, GoOnShape DEF InContext
  <2>2. asked \in FormRows
    BY <1>0, AskingRow
  <2>3. OneGroup(group, req[r].tenant, asked)
    BY <1>4, RejectionSound
  <2> HIDE DEF asked
  <2>4. UNCHANGED <<group, instance, job, events, checks, answered, shown>> /\ GroupsKept
    BY <1>1 DEF tables, GroupsKept
  <2>5. /\ form' \in [Requests -> FormRows] /\ form'[r] = asked
        /\ \A q \in Requests \ {r} : form'[q] = form[q]
    BY <1>4, <2>2 DEF ControlInv, TablesOK
  <2>6. TablesOK'
    BY <2>4, <2>5 DEF ControlInv, TablesOK
  <2>7. FormFor(r)'
    BY <2>1, <2>3, <2>4, <2>5 DEF FormFor
  <2> QED
    BY <2>4, <2>5, <2>6, <2>7, KeepForms, KeepJobs, KeepShown DEF ControlInv
<1> QED
  BY <1>2, <1>3, <1>4

\* An answer to a submission: the request ends, its form is emptied.
LEMMA SubmittedForm ==
    ASSUME ControlInv, NEW r \in Requests, NEW key, NEW i, NEW outcome,
           Submitted(r, key, i, outcome), UnchangedTenancy
    PROVE  /\ answered' = answered \cup {<<r, <<req[r].tenant, key>>, i, outcome>>}
           /\ form' \in [Requests -> FormRows] /\ \A q \in Requests \ {r} : form'[q] = form[q]
           /\ FormFor(r)'
<1>1. answered' = answered \cup {<<r, <<req[r].tenant, key>>, i, outcome>>}
  BY DEF Submitted
<1>2. form' = [form EXCEPT ![r] = NoForm] /\ NoForm \in FormRows
  BY DEF Submitted, NoForm, FormRows
<1>3. Paged(r)
  BY SubmittedShape DEF ControlInv, TenancyInv
<1> QED
  BY <1>1, <1>2, <1>3 DEF ControlInv, TablesOK, FormFor, Paged

\* A submission that gets the job that is there.
LEMMA ControlReused ==
    ASSUME ControlInv, TenancyInv', NEW r \in Requests, Others(r), ever \subseteq ever',
           NEW key \in Keys, req[r].tenant \in Tenants, NEW i,
           \/ Submitted(r, key, i, "reused") /\ i = job[<<req[r].tenant, key>>] /\ i # None
           \/ Submitted(r, key, i, "failed"),
           UNCHANGED <<tables, checks, shown>>, UnchangedTenancy
    PROVE  ControlInv'
<1> DEFINE j == <<req[r].tenant, key>>
<1>1. PICK outcome \in {"reused", "failed"} :
          Submitted(r, key, i, outcome) /\ (outcome = "reused" => i = job[j] /\ i # None)
  OBVIOUS
<1>2. /\ answered' = answered \cup {<<r, j, i, outcome>>}
      /\ form' \in [Requests -> FormRows] /\ \A q \in Requests \ {r} : form'[q] = form[q]
      /\ FormFor(r)'
  BY <1>1, SubmittedForm
<1>3. UNCHANGED <<group, instance, job, events, checks, shown>> /\ GroupsKept
  BY DEF tables, GroupsKept
<1>4. TablesOK'
  BY <1>2, <1>3 DEF ControlInv, TablesOK
<1>5. j \in Jobs /\ (job[j] # None => job[j] \in Instances)
  BY DEF Jobs, ControlInv, TablesOK
<1>6. AnsweredInv'
  BY <1>1, <1>2, <1>3, <1>5 DEF ControlInv, AnsweredInv
<1>7. ASSUME NEW k \in Instances, instance'[k] # None
      PROVE  BelongedIn(ever', k[1], instance'[k].by, "ADMIN") /\ OneGroup(group', k[1], instance'[k])
  BY <1>3, <1>7, BelongedKept DEF ControlInv, InstanceInv
<1>8. InstanceInv' /\ JobInv'
  BY <1>3, <1>7 DEF ControlInv, JobInv, InstanceInv
<1> QED
  BY <1>2, <1>3, <1>4, <1>6, <1>8, KeepForms, KeepShown DEF ControlInv

LEMMA SubmissionTenant ==
    ASSUME BaseInv, NEW r \in Requests, req[r].step \in {"checked", "insert"}
    PROVE  /\ req[r].tenant \in Tenants /\ req[r].user \in Users /\ req[r].op = "submit"
           /\ BelongedIn(ever, req[r].tenant, req[r].user, "ADMIN")
  BY TenantOfRequest DEF BaseInv, AskerInv, AskerOK, InContext, MinimumRole

LEMMA ControlFindJob ==
    ASSUME ControlInv, TenancyInv', NEW r \in Requests, Others(r), ever \subseteq ever',
           NEW name \in Names, NEW key \in Keys, FindProvisioningJob(r, name, key)
    PROVE  ControlInv'
<1> DEFINE j == <<req[r].tenant, key>>
           named == Naming(form[r], name, key)
<1>0. BaseInv /\ req[r].step = "checked"
  BY DEF ControlInv, TenancyInv, FindProvisioningJob
<1>1. req[r].tenant \in Tenants /\ req[r].op = "submit"
  BY <1>0, SubmissionTenant
<1>2. UNCHANGED <<tables, checks, shown>> /\ UnchangedTenancy
  BY DEF FindProvisioningJob
<1>3. CASE job[j] # None
  <2>1. Submitted(r, key, job[j], "reused")
    BY <1>3 DEF FindProvisioningJob
  <2> QED
    BY <1>1, <1>2, <1>3, <2>1, ControlReused
<1>4. CASE job[j] = None
  <2>1. Goto(r, "insert") /\ UNCHANGED answered
    BY <1>4 DEF FindProvisioningJob
  <2>2. form' = [form EXCEPT ![r] = named]
    BY <1>4, Zenon DEF FindProvisioningJob, Naming
  <2>3. form[r] \in FormRows /\ OneGroup(group, req[r].tenant, form[r])
    BY <1>0 DEF ControlInv, TablesOK, FormInv
  <2>4. /\ named \in FormRows
        /\ named.group = form[r].group /\ named.network = form[r].network
        /\ named.firewall = form[r].firewall /\ named.region = form[r].region
        /\ named.name = name /\ named.key = key
    BY <2>3, NamingRow
  <2>5. OneGroup(group, req[r].tenant, named)
    BY <2>3, <2>4, Zenon DEF OneGroup
  <2> HIDE DEF named
  <2>6. req'[r].step = "insert" /\ req'[r].tenant = req[r].tenant
    BY <1>0, <1>1, <1>2, <2>1, GoOnShape DEF InContext
  <2>7. UNCHANGED <<group, instance, job, events, checks, answered, shown>> /\ GroupsKept
    BY <1>2, <2>1 DEF tables, GroupsKept
  <2>8. /\ form' \in [Requests -> FormRows] /\ form'[r] = named
        /\ \A q \in Requests \ {r} : form'[q] = form[q]
    BY <2>2, <2>4 DEF ControlInv, TablesOK
  <2>9. TablesOK'
    BY <2>7, <2>8 DEF ControlInv, TablesOK
  <2>10. FormFor(r)'
    BY <2>4, <2>5, <2>6, <2>7, <2>8 DEF FormFor
  <2> QED
    BY <2>7, <2>8, <2>9, <2>10, KeepForms, KeepJobs, KeepShown DEF ControlInv
<1> QED
  BY <1>3, <1>4

\* The instance, its job and its event appear together.
LEMMA ControlMade ==
    ASSUME ControlInv, TenancyInv', NEW r \in Requests, Others(r), ever \subseteq ever',
           req[r].step = "insert", UnchangedTenancy, UNCHANGED <<group, checks, shown>>,
           NEW i, i = <<req[r].tenant, form[r].name>>, instance[i] = None,
           NEW j, j = <<req[r].tenant, form[r].key>>, job[j] = None,
           instance' = [instance EXCEPT ![i] =
                [group |-> form[r].group, network |-> form[r].network,
                 firewall |-> form[r].firewall, region |-> form[r].region, by |-> req[r].user]],
           job' = [job EXCEPT ![j] = i], events' = [events EXCEPT ![i] = @ + 1],
           Submitted(r, form[r].key, i, "made")
    PROVE  ControlInv'
<1> DEFINE row == [group |-> form[r].group, network |-> form[r].network,
                   firewall |-> form[r].firewall, region |-> form[r].region, by |-> req[r].user]
<1>1. /\ req[r].tenant \in Tenants /\ req[r].user \in Users
      /\ BelongedIn(ever, req[r].tenant, req[r].user, "ADMIN")
  BY SubmissionTenant DEF ControlInv, TenancyInv
<1>2. /\ OneGroup(group, req[r].tenant, form[r]) /\ form[r].name \in Names /\ form[r].key \in Keys
      /\ form[r] \in FormRows
  BY DEF ControlInv, TablesOK, FormInv
<1>3. i \in Instances /\ j \in Jobs /\ i[1] = req[r].tenant /\ j[1] = req[r].tenant
  BY <1>1, <1>2 DEF Instances, Jobs
<1>4. row \in InstanceRows /\ row # None /\ row.by = req[r].user /\ OneGroup(group, i[1], row)
  <2>1. form[r].region \in Regions
    BY <1>2 DEF OneGroup, ControlInv, TablesOK
  <2>2. row \in InstanceRows
    BY <2>1, <1>1, <1>2 DEF OneGroup, InstanceRows
  <2> QED
    BY <2>2, <1>2, <1>3, ControlAssumption DEF OneGroup
<1> HIDE DEF row
<1>5. instance' = [instance EXCEPT ![i] = row]
  BY DEF row
<1>6. /\ answered' = answered \cup {<<r, j, i, "made">>}
      /\ form' \in [Requests -> FormRows] /\ \A q \in Requests \ {r} : form'[q] = form[q]
      /\ FormFor(r)'
  BY SubmittedForm
<1>7. events[i] = 0 /\ events' \in [Instances -> 0..1] /\ events'[i] = 1
      /\ \A k \in Instances \ {i} : events'[k] = events[k]
  BY <1>3 DEF ControlInv, TablesOK, JobInv
<1>8. /\ instance' \in [Instances -> InstanceRows \cup {None}] /\ instance'[i] = row
      /\ \A k \in Instances \ {i} : instance'[k] = instance[k]
  BY <1>3, <1>4, <1>5 DEF ControlInv, TablesOK
<1>9. /\ job' \in [Jobs -> Instances \cup {None}] /\ job'[j] = i
      /\ \A k \in Jobs \ {j} : job'[k] = job[k]
  BY <1>3 DEF ControlInv, TablesOK
<1>10. GroupsKept
  BY DEF GroupsKept
<1>11. TablesOK'
  BY <1>6, <1>7, <1>8, <1>9 DEF ControlInv, TablesOK
<1>12. InstanceInv'
  <2>1. ASSUME NEW k \in Instances, instance'[k] # None
        PROVE  BelongedIn(ever', k[1], instance'[k].by, "ADMIN") /\ OneGroup(group', k[1], instance'[k])
    <3>1. CASE k = i
      BY <3>1, <1>1, <1>3, <1>4, <1>8, BelongedKept
    <3>2. CASE k # i
      BY <3>2, <2>1, <1>8, BelongedKept DEF ControlInv, InstanceInv
    <3> QED
      BY <3>1, <3>2
  <2> QED
    BY <2>1, Zenon DEF InstanceInv
<1>13. JobInv'
  <2>1. \A k \in Jobs : job[k] # None => job[k] # i /\ job[k] \in Instances
    BY DEF ControlInv, JobInv, TablesOK
  <2>2. i # None
    BY <1>3, ControlAssumption
  <2>3. \A k \in Instances : events'[k] = IF instance'[k] = None THEN 0 ELSE 1
    BY <1>4, <1>7, <1>8 DEF ControlInv, JobInv
  <2>4. ASSUME NEW k \in Instances, instance'[k] # None PROVE \E l \in Jobs : job'[l] = k
    <3>1. CASE k = i
      BY <3>1, <1>3, <1>9
    <3>2. CASE k # i
      <4>1. PICK l \in Jobs : job[l] = k
        BY <3>2, <2>4, <1>8 DEF ControlInv, JobInv
      <4>2. l # j
        BY <4>1, ControlAssumption
      <4> QED
        BY <4>1, <4>2, <1>9
    <3> QED
      BY <3>1, <3>2
  <2>5. ASSUME NEW k \in Jobs, job'[k] # None PROVE instance'[job'[k]] # None /\ job'[k][1] = k[1]
    <3>1. CASE k = j
      BY <3>1, <1>3, <1>4, <1>8, <1>9
    <3>2. CASE k # j
      <4>1. PICK l \in Instances : l = job[k] /\ l # i /\ job'[k] = l
        BY <3>2, <2>1, <2>5, <1>9
      <4>2. instance[l] # None /\ l[1] = k[1]
        BY <4>1, <2>5 DEF ControlInv, JobInv
      <4> QED
        BY <4>1, <4>2, <1>8
    <3> QED
      BY <3>1, <3>2
  <2>6. ASSUME NEW k \in Jobs, NEW l \in Jobs, job'[k] # None, job'[k] = job'[l] PROVE k = l
    BY <2>1, <2>2, <2>6, <1>9 DEF ControlInv, JobInv
  <2> QED
    BY <2>3, <2>4, <2>5, <2>6 DEF JobInv
<1>14. AnsweredInv'
  <2>1. \A a \in answered : a[4] # "failed" => a[2] # j
    BY <1>3, ControlAssumption DEF ControlInv, AnsweredInv
  <2> QED
    BY <2>1, <1>3, <1>6, <1>9 DEF ControlInv, AnsweredInv
<1> QED
  BY <1>6, <1>10, <1>11, <1>12, <1>13, <1>14, KeepForms, KeepShown DEF ControlInv

LEMMA ControlInsert ==
    ASSUME ControlInv, TenancyInv', NEW r \in Requests, Others(r), ever \subseteq ever',
           CreateProvisioningRequest(r)
    PROVE  ControlInv'
<1> DEFINE i == <<req[r].tenant, form[r].name>>
           j == <<req[r].tenant, form[r].key>>
<1>1. /\ req[r].step = "insert" /\ UnchangedTenancy /\ UNCHANGED <<group, checks, shown>>
      /\ req[r].tenant \in Tenants /\ form[r].key \in Keys
  BY SubmissionTenant DEF CreateProvisioningRequest, ControlInv, TenancyInv, BaseInv, FormInv
<1>2. CASE /\ UNCHANGED <<instance, job, events>>
           /\ \/ Submitted(r, form[r].key, i, "failed")
              \/ job[j] # None /\ Submitted(r, form[r].key, job[j], "reused")
  <2>1. UNCHANGED <<tables, checks, shown>>
    BY <1>1, <1>2 DEF tables
  <2> QED
    BY <1>1, <1>2, <2>1, ControlReused
<1>3. CASE /\ instance[i] = None /\ job[j] = None
           /\ instance' = [instance EXCEPT ![i] =
                [group |-> form[r].group, network |-> form[r].network,
                 firewall |-> form[r].firewall, region |-> form[r].region, by |-> req[r].user]]
           /\ job' = [job EXCEPT ![j] = i]
           /\ events' = [events EXCEPT ![i] = @ + 1]
           /\ Submitted(r, form[r].key, i, "made")
  BY <1>1, <1>3, ControlMade
<1> QED
  BY <1>2, <1>3, Zenon DEF CreateProvisioningRequest

\* A page shows rows of the tenant in the request's context, and nothing
\* without one.
LEMMA ControlShow ==
    ASSUME ControlInv, TenancyInv', NEW r \in Requests, Others(r), ever \subseteq ever',
           req[r].step \in InContext, NEW rows, Show(r, rows),
           \A row \in rows : row[1] = req[r].tenant /\ row[1] \in Tenants
    PROVE  ControlInv'
<1>1. /\ shown' = shown \cup ({req[r].user} \X rows)
      /\ UNCHANGED <<tables, form, checks, answered>>
  BY DEF Show
<1>2. Paged(r)
  BY ShowShape DEF ControlInv, TenancyInv
<1>3. UNCHANGED <<group, instance, job, events, form, checks, answered>> /\ GroupsKept
  BY <1>1 DEF tables, GroupsKept
<1>4. TablesOK'
  BY <1>3 DEF ControlInv, TablesOK
<1>5. FormFor(r)'
  BY <1>2 DEF FormFor, Paged
<1>6. ShownInv'
  <2>1. ASSUME NEW s \in shown' PROVE BelongedIn(ever', s[2][1], s[1], "MEMBER")
    <3>1. CASE s \in shown
      BY <3>1, BelongedKept DEF ControlInv, ShownInv
    <3>2. CASE s \notin shown
      <4>1. PICK row \in rows : s = <<req[r].user, row>>
        BY <1>1, <3>2
      <4>2. s[1] = req[r].user /\ s[2][1] = req[r].tenant /\ req[r].tenant # None
        BY <4>1, NamesAssumption
      <4>3. BelongedIn(ever, req[r].tenant, req[r].user, MinimumRole(req[r].op))
        BY <4>2 DEF ControlInv, TenancyInv, BaseInv, AskerInv, AskerOK, InContext
      <4>4. BelongedIn(ever, req[r].tenant, req[r].user, "MEMBER")
        BY <4>3, AdministratorsRead
      <4> QED
        BY <4>2, <4>4, BelongedKept
    <3> QED
      BY <3>1, <3>2
  <2> QED
    BY <2>1 DEF ShownInv
<1> QED
  BY <1>3, <1>4, <1>5, <1>6, KeepForms, KeepJobs DEF ControlInv

LEMMA ControlPages ==
    ASSUME ControlInv, TenancyInv', NEW r \in Requests, Others(r), ever \subseteq ever',
           \/ GetDashboardOverview(r) \/ GetInstanceWizardBootstrap(r)
           \/ GetTenantManagementDetail(r)
    PROVE  ControlInv'
<1> DEFINE t == req[r].tenant
           OfTenant(rows) == \A row \in rows : row[1] = t /\ row[1] \in Tenants
<1>1. /\ OfTenant(ActiveResourceGroups(t)) /\ OfTenant(ActiveNetworks(t))
      /\ OfTenant(ActiveFirewallPolicies(t)) /\ OfTenant(ActiveInstances(t))
  BY DEF ActiveResourceGroups, ActiveNetworks, ActiveFirewallPolicies, ActiveInstances,
         Groups, Instances
<1>2. PICK rows : Show(r, rows) /\ OfTenant(rows)
  <2>1. CASE GetDashboardOverview(r)
    BY <1>1, <2>1 DEF GetDashboardOverview
  <2>2. CASE GetInstanceWizardBootstrap(r)
    BY <1>1, <2>2 DEF GetInstanceWizardBootstrap
  <2>3. CASE GetTenantManagementDetail(r)
    BY <1>1, <2>3 DEF GetTenantManagementDetail
  <2> QED
    BY <2>1, <2>2, <2>3
<1>3. req[r].step \in InContext
  BY DEF GetDashboardOverview, GetInstanceWizardBootstrap, GetTenantManagementDetail, InContext
<1> QED
  BY <1>2, <1>3, ControlShow

LEMMA ControlOther ==
    ASSUME ControlInv, TenancyInv', NEW r \in Requests, Others(r), Paged(r), ever \subseteq ever',
           \/ UNCHANGED controlVars
           \/ \E op, u, t : OpenWizardAction(r, op, u, t)
           \/ AssertInstanceTenantAccess(r)
    PROVE  ControlInv'
<1>0. checks \in [Requests -> 0..2]
  BY DEF ControlInv, TablesOK
<1>1. UNCHANGED <<tables, form, answered, shown>>
  BY DEF controlVars, OpenWizardAction, AssertInstanceTenantAccess
<1>2. checks' \in [Requests -> 0..2]
  <2>1. CASE UNCHANGED controlVars
    BY <2>1, <1>0 DEF controlVars
  <2>2. CASE \E op, u, t : OpenWizardAction(r, op, u, t)
    BY <2>2, <1>0 DEF OpenWizardAction
  <2>3. CASE AssertInstanceTenantAccess(r)
    <3>1. PICK n : n \in {0, checks[r] - 1} /\ checks' = [checks EXCEPT ![r] = n]
      BY <2>3 DEF AssertInstanceTenantAccess
    <3>2. checks[r] \in 1..2
      BY <2>3, <1>0 DEF AssertInstanceTenantAccess
    <3>3. n \in 0..2
      BY <3>1, <3>2
    <3> QED
      BY <3>1, <3>3, <1>0
  <2> QED
    BY <2>1, <2>2, <2>3
<1> QED
  BY <1>1, <1>2, QuietControl

\* Every step of Next preserves the whole invariant.
LEMMA StepPreserves ==
    ASSUME ControlInv, Next
    PROVE  ControlInv'
<1>0. TenancyInv /\ BaseInv
  BY DEF ControlInv, TenancyInv
<1>1. PICK r \in Requests : (TenancyStep(r) /\ UNCHANGED controlVars) \/ ControlStep(r)
  BY DEF Next
<1>2. ReqStep(r) /\ RowStep(r)
  BY <1>0, <1>1, TenancyShape, ControlShape
<1>3. TenancyInv' /\ ever \subseteq ever' /\ Others(r)
  BY <1>0, <1>2, TenancyPreserved, BaseStep DEF ReqStep
<1>4. CASE TenancyStep(r) /\ UNCHANGED controlVars
  BY <1>0, <1>3, <1>4, TenancyShape, ControlOther
<1>5. CASE ControlStep(r)
  <2>1. ASSUME NEW op \in {"group", "submit"}, NEW u \in Users, NEW t \in Tenants,
               OpenWizardAction(r, op, u, t)
        PROVE  ControlInv'
    <3>1. Paged(r)
      BY <2>1, <1>0, OpenStep DEF OpenWizardAction
    <3> QED
      BY <2>1, <3>1, <1>3, ControlOther
  <2>2. CASE AssertInstanceTenantAccess(r)
    BY <2>2, <1>0, <1>3, AccessShape, ControlOther
  <2>3. ASSUME NEW slug \in GroupSlugs, NEW region, CreateResourceGroupWithDefaults(r, slug, region)
        PROVE  ControlInv'
    BY <2>3, <1>0, <1>3, GroupShape, ControlGroup
  <2>4. ASSUME NEW g \in Groups, NEW n \in Groups, NEW region \in Regions, NEW f \in {g, n},
               CheckSubmission(r, g, n, f, region)
        PROVE  ControlInv'
    BY <2>4, <1>3, ControlCheck
  <2>5. ASSUME NEW name \in Names, NEW key \in Keys, FindProvisioningJob(r, name, key)
        PROVE  ControlInv'
    BY <2>5, <1>3, ControlFindJob
  <2>6. CASE CreateProvisioningRequest(r)
    BY <2>6, <1>3, ControlInsert
  <2>7. CASE FindActiveUserDashboardSnapshot(r)
    <3>1. Paged(r) /\ UNCHANGED controlVars
      BY <2>7, <1>0, SnapshotShape DEF FindActiveUserDashboardSnapshot
    <3> QED
      BY <3>1, <1>3, ControlOther
  <2>8. CASE GetDashboardOverview(r) \/ GetInstanceWizardBootstrap(r) \/ GetTenantManagementDetail(r)
    BY <2>8, <1>3, ControlPages
  <2> QED
    BY <1>5, <2>1, <2>2, <2>3, <2>4, <2>5, <2>6, <2>7, <2>8, Zenon DEF ControlStep
<1> QED
  BY <1>1, <1>4, <1>5

LEMMA InitHolds ==
    ASSUME Init
    PROVE  ControlInv
<1>1. /\ account = [u \in Users |-> "active"]
      /\ role \in [Tenants -> [Users -> Roles \cup {None}]]
      /\ \A u, v \in Users : role[Home(u)][v] \in IF u = v THEN {None, "OWNER"} ELSE {None}
      /\ tenant = [t \in Tenants |->
            IF \E u \in Users : role[t][u] # None THEN "active" ELSE "absent"]
      /\ ever = {m \in Tenants \X Users \X Roles : role[m[1]][m[2]] = m[3]}
      /\ req = [r \in Requests |-> Idle]
  BY DEF Init
<1>2. /\ \E rg \in Regions : group = [g \in Groups |->
            IF tenant[g[1]] = "active" THEN rg ELSE None]
      /\ instance = [i \in Instances |-> None] /\ job = [j \in Jobs |-> None]
      /\ events = [i \in Instances |-> 0] /\ form = [r \in Requests |-> NoForm]
      /\ checks = [r \in Requests |-> 0] /\ answered = {} /\ shown = {}
  BY DEF Init
<1>3. RowsOK
  BY <1>1 DEF RowsOK
<1>4. EverInv
  <2>1. ASSUME NEW t \in Tenants, NEW u \in Users, role[t][u] # None
        PROVE  <<t, u, role[t][u]>> \in ever
    <3>1. role[t][u] \in Roles
      BY <1>1, <2>1
    <3> QED
      BY <3>1, <1>1
  <2> QED
    BY <2>1 DEF EverInv
<1>5. \A r \in Requests : req[r] = Idle /\ req[r].step = "idle" /\ req[r].doomed = {}
  BY <1>1, IdleRow
<1>6. RequestsOK
  BY <1>1, <1>5, IdleRow DEF RequestsOK
<1>7. AskerInv
  BY <1>5 DEF AskerInv, AskerOK, InContext
<1>8. MembersInv
  BY <1>1 DEF MembersInv
<1>9. TodoInv /\ GoneInv /\ DoomedInv /\ CountedInv
  BY <1>5 DEF TodoInv, GoneInv, DoomedInv, CountedInv, Leaving, Counting
<1>10. ActiveMembersKeepTenant
  BY <1>1 DEF ActiveMembersKeepTenant
<1>11. LeftoversExplained
  BY <1>1 DEF LeftoversExplained, ActiveTenantMembers
<1>12. TenancyInv
  BY <1>3, <1>4, <1>6, <1>7, <1>8, <1>9, <1>10, <1>11 DEF TenancyInv, BaseInv
<1>13. TablesOK
  BY <1>2 DEF TablesOK, FormRows, NoForm
<1>14. FormInv
  BY <1>5 DEF FormInv
<1>15. InstanceInv /\ ShownInv /\ JobInv /\ AnsweredInv
  BY <1>2 DEF InstanceInv, ShownInv, JobInv, AnsweredInv
<1> QED
  BY <1>12, <1>13, <1>14, <1>15 DEF ControlInv
-------------------------------------------------------------------------------
(***************************************************************************)
(* What the invariant gives.                                               *)
(***************************************************************************)
LEMMA StutterPreserves ==
    ASSUME ControlInv, UNCHANGED vars
    PROVE  ControlInv'
<1>1. UNCHANGED <<account, tenant, role, req, ever, late, crossed, group, instance, job, events,
                  form, checks, answered, shown>>
  BY DEF vars, tenancyVars, controlVars, tables
<1>2. /\ BaseInv' /\ MembersInv' /\ TodoInv' /\ GoneInv' /\ DoomedInv' /\ CountedInv'
      /\ ActiveMembersKeepTenant' /\ LeftoversExplained'
  <2>1. Steady
    BY <1>1 DEF Steady
  <2>2. BaseInv'
    BY <1>1, Zenon DEF ControlInv, TenancyInv, BaseInv, RequestsOK, RowsOK, EverInv, AskerInv,
       IsRequest, Request
  <2> QED
    BY <1>1, <2>1, <2>2, QuietStep DEF ControlInv
<1>3. /\ TablesOK' /\ FormInv' /\ InstanceInv' /\ ShownInv' /\ JobInv' /\ AnsweredInv'
  BY <1>1 DEF ControlInv, TablesOK, FormInv, InstanceInv, ShownInv, JobInv, AnsweredInv
<1> QED
  BY <1>2, <1>3 DEF ControlInv, TenancyInv

\* Whatever the number of accounts, tenants and concurrent requests, the
\* conjunction of the parts above holds in every reachable state.
THEOREM Invariance == Spec => []ControlInv
<1> QED
  BY InitHolds, StepPreserves, StutterPreserves, PTL DEF Spec

\* Type correctness of the rows and of the requests under way.
THEOREM TypeCorrect == Spec => []TypeOK
<1>1. ControlInv => TypeOK
  <2> SUFFICES ASSUME ControlInv PROVE TypeOK
    OBVIOUS
  <2>1. ASSUME NEW r \in Requests
        PROVE  /\ req[r].step \in Steps \cup {"checked", "insert", "snapshot"}
               /\ req[r].tries \in 0..(MaxTries - 1)
               /\ req[r].todo \subseteq Tenants
    BY DEF ControlInv, TenancyInv, BaseInv, RequestsOK, IsRequest, Request
  <2>2. ASSUME NEW r \in Requests PROVE req[r].doomed \subseteq req[r].todo
    BY DEF ControlInv, TenancyInv, BaseInv, AskerInv, AskerOK
  <2> QED
    BY <2>1, <2>2 DEF TypeOK, ControlInv, TenancyInv, BaseInv, RowsOK, TablesOK
<1> QED
  BY <1>1, Invariance, PTL

\* An account that is there never finds a tenant of its own deleted, however
\* erasures of other accounts and joins interleave (softDeleteUserWithCleanupInTransaction).
THEOREM MembersKeepTenants == Spec => []ActiveMembersKeepTenant
<1>1. ControlInv => ActiveMembersKeepTenant
  BY DEF ControlInv, TenancyInv
<1> QED
  BY <1>1, Invariance, PTL

\* What erasures leave behind was written for an account erased meanwhile, or
\* is a tenant two erasures counted at once.
THEOREM LeftoversHaveReasons == Spec => []LeftoversExplained
<1>1. ControlInv => LeftoversExplained
  BY DEF ControlInv, TenancyInv
<1> QED
  BY <1>1, Invariance, PTL

\* No instance is written to, and no group, network, policy or instance is shown
\* of, a tenant the account never had the required role in, and an instance is made
\* of one group of its tenant (submitInstanceProvisioningFromWizard, and the lists
\* of groups and instances in getDashboardOverview; not its notification counts and
\* audit events, which the code selects by user alone).
THEOREM TenantsIsolated == Spec => []TenantIsolation
<1>1. ControlInv => TenantIsolation
  <2> SUFFICES ASSUME ControlInv PROVE TenantIsolation
    OBVIOUS
  <2>1. \A t, u, minimum : BelongedIn(ever, t, u, minimum) => Belonged(t, u, minimum)
    BY DEF BelongedIn, Belonged
  <2>2. ASSUME NEW i \in Instances, instance[i] # None
        PROVE  /\ Belonged(i[1], instance[i].by, "ADMIN")
               /\ instance[i].group \in ActiveResourceGroups(i[1])
               /\ instance[i].network = instance[i].group
               /\ instance[i].firewall = instance[i].group
               /\ instance[i].region = group[instance[i].group]
    <3>1. BelongedIn(ever, i[1], instance[i].by, "ADMIN") /\ OneGroup(group, i[1], instance[i])
      BY <2>2 DEF ControlInv, InstanceInv
    <3> QED
      BY <3>1, <2>1 DEF OneGroup, ActiveResourceGroups
  <2>3. ASSUME NEW s \in shown PROVE Belonged(s[2][1], s[1], "MEMBER")
    BY <2>1 DEF ControlInv, ShownInv
  <2> QED
    BY <2>2, <2>3, Zenon DEF TenantIsolation
<1> QED
  BY <1>1, Invariance, PTL

\* However many submissions race for a key or a name, a key has one job, an
\* instance one job and one event, and the answers to one key agree
\* (createProvisioningRequest).
THEOREM KeysHaveOneJob == Spec => []OneJobPerKey
<1>1. ControlInv => OneJobPerKey
  <2> SUFFICES ASSUME ControlInv PROVE OneJobPerKey
    OBVIOUS
  <2>1. ASSUME NEW i \in Instances
        PROVE  Cardinality({j \in Jobs : job[j] = i}) = IF instance[i] = None THEN 0 ELSE 1
    <3>0. i # None
      BY ControlAssumption
    <3>1. CASE instance[i] = None
      <4>1. {j \in Jobs : job[j] = i} = {}
        BY <3>0, <3>1 DEF ControlInv, JobInv
      <4> QED
        BY <3>1, <4>1, FS_EmptySet
    <3>2. CASE instance[i] # None
      <4>1. PICK j \in Jobs : job[j] = i
        BY <3>2 DEF ControlInv, JobInv
      <4>2. {k \in Jobs : job[k] = i} = {j}
        BY <3>0, <4>1 DEF ControlInv, JobInv
      <4> QED
        BY <3>2, <4>2, FS_Singleton
    <3> QED
      BY <3>1, <3>2
  <2>2. \A i \in Instances : events[i] = IF instance[i] = None THEN 0 ELSE 1
    BY DEF ControlInv, JobInv
  <2>3. \A j \in Jobs : job[j] # None => job[j][1] = j[1]
    BY DEF ControlInv, JobInv
  <2>4. ASSUME NEW a \in answered, NEW b \in answered,
               a[4] # "failed", b[4] # "failed", a[2] = b[2]
        PROVE  a[3] = b[3] /\ (a[4] = "made" /\ b[4] = "made" => a = b)
    BY <2>4 DEF ControlInv, AnsweredInv
  <2> QED
    BY <2>1, <2>2, <2>3, <2>4 DEF OneJobPerKey
<1> QED
  BY <1>1, Invariance, PTL
===============================================================================
