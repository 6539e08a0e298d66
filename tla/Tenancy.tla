------------------------------- MODULE Tenancy --------------------------------
(***************************************************************************)
(* Tenants, memberships and the accounts they belong to.  A request reads  *)
(* its session once, then works through database statements; the account   *)
(* may be erased between any two of them.  Erasing an account is a         *)
(* transaction at READ COMMITTED: until it commits nobody sees its writes, *)
(* and it does not see those of a transaction that commits later.          *)
(*                                                                         *)
(* The first statement of the erasure updates User.email, a column with a  *)
(* unique index, so the row stays locked against the foreign-key check of  *)
(* every membership inserted for that user until the transaction ends.     *)
(***************************************************************************)
EXTENDS Naturals, FiniteSets

CONSTANTS
    Users,
    Slugs,      \* slugs of self-service tenants
    Requests,   \* request slots
    None,
    MaxTries    \* TENANT_CREATE_MAX_RETRIES

ASSUME TenancyAssumption ==
    /\ None \notin Users \cup Slugs \cup Requests
    /\ MaxTries \in Nat \ {0}

VARIABLES
    account,    \* the User rows
    tenant,     \* the Tenant rows, by slug
    role,       \* the TenantMembership rows
    req,        \* requests under way
    \* what an observer knows: every membership that ever was, memberships
    \* written for an account already erased, tenants two erasures overlapped on
    ever, late, crossed

tenancyVars == <<account, tenant, role, req, ever, late, crossed>>

\* usr-<userId>, the slug of the default tenant of a user
Home(u) == <<"usr", u>>
Tenants == {Home(u) : u \in Users} \cup Slugs

-----------------------------------------------------------------------------
(* Roles *)

Roles == {"MEMBER", "ADMIN", "OWNER"}

RolePermissions ==
    [MEMBER |-> {"read"},
     ADMIN  |-> {"read", "manage_members", "manage_infrastructure"},
     OWNER  |-> {"read", "manage_members", "manage_billing", "manage_infrastructure"}]

MinimumRolePermission ==
    [MEMBER |-> "read", ADMIN |-> "manage_members", OWNER |-> "manage_billing"]

HasRequiredTenantRole(held, minimum) ==
    MinimumRolePermission[minimum] \in RolePermissions[held]

\* A self-service slug ends with eight hexadecimal digits (buildTenantSlug), a
\* Home with the 25 characters of a cuid.
ASSUME NamesAssumption ==
    /\ None \notin Tenants /\ None \notin Roles
    /\ \A u \in Users : Home(u) \notin Slugs

-----------------------------------------------------------------------------
(* Queries *)

\* Every page that only reads asks for a member, the wizard's actions for an
\* administrator.
MinimumRole(op) == IF op \in {"group", "submit"} THEN "ADMIN" ELSE "MEMBER"

ActiveMemberships(u) == {t \in Tenants : role[t][u] # None /\ tenant[t] = "active"}

TenantAccess(t, u, minimum) ==
    /\ role[t][u] # None
    /\ tenant[t] = "active"
    /\ HasRequiredTenantRole(role[t][u], minimum)

ActiveTenantMembers(t) == {u \in Users : role[t][u] # None /\ account[u] = "active"}

Erasing(u) == \E r \in Requests :
    req[r].op = "erase" /\ req[r].user = u /\ req[r].step \in {"found", "counted"}

-----------------------------------------------------------------------------
(* Requests *)

PageOps   == {"overview", "wizard", "detail"}
TenantOps == {"create", "drop", "erase"} \cup PageOps
Steps     == {"idle", "authorized", "ensure", "repaired", "assert", "context",
              "found", "counted", "done"}

Idle == [op |-> None, user |-> None, tenant |-> None, step |-> "idle",
         answer |-> None, tries |-> 0, todo |-> {}, gone |-> {}, doomed |-> {}]

Goto(r, step)     == req' = [req EXCEPT ![r].step = step]
Answer(r, answer) == req' = [req EXCEPT ![r] =
    [Idle EXCEPT !.step = "done", !.answer = answer]]

\* Without a tenant the dashboard is shown all the same, everything else is
\* refused (UserTenantContextError).
Deny(r, code) ==
    IF req[r].op = "overview"
    THEN req' = [req EXCEPT ![r].step = "context", ![r].tenant = None]
    ELSE Answer(r, code)

\* A membership committed for u, whether or not the account still is.
Join(t, u) ==
    /\ role' = [role EXCEPT ![t][u] = "OWNER"]
    /\ ever' = ever \cup {<<t, u, "OWNER">>}
    /\ late' = IF account[u] = "deleted" THEN late \cup {<<t, u>>} ELSE late

UnchangedRows == UNCHANGED <<account, tenant, role, ever, late, crossed>>

\* The session is good while the account is there.
EnsureAuthorizedSession(r, op, u, t) ==
    /\ req[r].step = "idle"
    /\ account[u] = "active"
    /\ req' = [req EXCEPT ![r] =
          [Idle EXCEPT !.op = op, !.user = u, !.tenant = t, !.step = "authorized"]]
    /\ UnchangedRows

-----------------------------------------------------------------------------
(* Creating a tenant *)

\* Faulty: one attempt too many.
TryNextSlugOnceMore(r) ==
    IF req[r].tries = MaxTries
    THEN Answer(r, "TENANT_SLUG_RETRY_EXHAUSTED")
    ELSE req' = [req EXCEPT ![r].tries = @ + 1]

TryNextSlug(r) ==
    IF req[r].tries + 1 = MaxTries
    THEN Answer(r, "TENANT_SLUG_RETRY_EXHAUSTED")
    ELSE req' = [req EXCEPT ![r].tries = @ + 1]

CreateTenantForUser(r, slug) ==
    LET u == req[r].user IN
    /\ req[r].step = "authorized" /\ req[r].op = "create"
    /\ ~Erasing(u)
    /\ IF tenant[slug] = "absent"
       THEN /\ tenant' = [tenant EXCEPT ![slug] = "active"]
            /\ Join(slug, u)
            /\ Answer(r, "CREATED")
       ELSE /\ TryNextSlug(r)
            /\ UNCHANGED <<tenant, role, ever, late>>
    /\ UNCHANGED <<account, crossed>>

\* Deletion is switched off, whatever the input says.
DeleteTenantForUser(r) ==
    /\ req[r].step = "authorized" /\ req[r].op = "drop"
    /\ Answer(r, "TENANT_DELETE_DISABLED")
    /\ UnchangedRows

-----------------------------------------------------------------------------
(* Which tenant a request is about *)

\* The wizard's actions and the detail pane name their tenant.
ResolveNamed(r) ==
    /\ req[r].step = "authorized" /\ req[r].op \in PageOps \cup {"group", "submit"}
    /\ req[r].tenant # None
    /\ IF TenantAccess(req[r].tenant, req[r].user, MinimumRole(req[r].op))
       THEN Goto(r, "context")
       ELSE Deny(r, "TENANT_ACCESS_DENIED")
    /\ UnchangedRows

ResolveUnnamed(r) ==
    LET found == ActiveMemberships(req[r].user) IN
    /\ req[r].step = "authorized" /\ req[r].op \in {"overview", "wizard"}
    /\ req[r].tenant = None
    /\ CASE found = {}            -> Goto(r, "ensure")
         [] Cardinality(found) > 1 -> Deny(r, "TENANT_SELECTION_REQUIRED")
         [] OTHER -> req' = [req EXCEPT ![r].step = "assert",
                                        ![r].tenant = CHOOSE t \in found : TRUE]
    /\ UnchangedRows

\* One transaction, serialised per user by an advisory lock.  It never looks
\* at the account.
EnsureDefaultTenantMembership(r) ==
    LET u     == req[r].user
        found == ActiveMemberships(u) IN
    /\ req[r].step = "ensure"
    /\ ~Erasing(u)
    /\ IF found # {}
       THEN \E t \in found :
              /\ req' = [req EXCEPT ![r].step = "repaired", ![r].tenant = t]
              /\ UNCHANGED <<tenant, role, ever, late>>
       ELSE /\ tenant' = [tenant EXCEPT ![Home(u)] = "active"]
            /\ Join(Home(u), u)
            /\ req' = [req EXCEPT ![r].step = "repaired", ![r].tenant = Home(u)]
    /\ UNCHANGED <<account, crossed>>

AssertTenantAccess(r) ==
    /\ req[r].step \in {"assert", "repaired"}
    /\ IF TenantAccess(req[r].tenant, req[r].user, MinimumRole(req[r].op))
       THEN Goto(r, "context")
       ELSE Deny(r, IF req[r].step = "assert" THEN "TENANT_ACCESS_DENIED"
                                              ELSE "TENANT_NOT_FOUND")
    /\ UnchangedRows

-----------------------------------------------------------------------------
(* Erasing an account *)

SoftDeleteUser(r) ==
    LET u == req[r].user IN
    /\ req[r].step = "authorized" /\ req[r].op = "erase"
    /\ ~Erasing(u)
    /\ IF account[u] = "deleted"
       THEN Answer(r, "NOT_FOUND")
       ELSE req' = [req EXCEPT ![r].step = "found", ![r].todo = ActiveMemberships(u)]
    /\ UnchangedRows

\* Faulty: counts the member that is leaving.
CountOneTooFew(r) ==
    LET u == req[r].user IN
    /\ req[r].step = "found"
    /\ req' = [req EXCEPT ![r].step = "counted",
          ![r].gone   = {t \in Tenants : role[t][u] # None},
          ![r].doomed = {t \in req[r].todo : Cardinality(ActiveTenantMembers(t) \ {u}) <= 1}]
    /\ UnchangedRows

\* deleteUserTenantMemberships, then one count per tenant
CountRemainingMembers(r) ==
    LET u == req[r].user IN
    /\ req[r].step = "found"
    /\ req' = [req EXCEPT ![r].step = "counted",
          ![r].gone   = IF req[r].todo = {} THEN {} ELSE {t \in Tenants : role[t][u] # None},
          ![r].doomed = {t \in req[r].todo : ActiveTenantMembers(t) \ {u} = {}}]
    /\ UnchangedRows

\* Faulty: only the memberships of deleted tenants go.
CommitErasureKeepingSome(r) ==
    LET u == req[r].user IN
    /\ req[r].step = "counted"
    /\ account' = [account EXCEPT ![u] = "deleted"]
    /\ role'    = [t \in Tenants |->
                     IF t \in req[r].doomed THEN [role[t] EXCEPT ![u] = None] ELSE role[t]]
    /\ tenant'  = [t \in Tenants |-> IF t \in req[r].doomed THEN "deleted" ELSE tenant[t]]
    /\ Answer(r, "DELETED")
    /\ UNCHANGED <<ever, late, crossed>>

CommitErasure(r) ==
    LET u == req[r].user
        Overlapping(t) == \E o \in Requests \ {r} :
            req[o].step = "counted" /\ t \in req[o].todo IN
    /\ req[r].step = "counted"
    /\ account' = [account EXCEPT ![u] = "deleted"]
    /\ role'    = [t \in Tenants |->
                     IF t \in req[r].gone THEN [role[t] EXCEPT ![u] = None] ELSE role[t]]
    /\ tenant'  = [t \in Tenants |-> IF t \in req[r].doomed THEN "deleted" ELSE tenant[t]]
    /\ crossed' = crossed \cup {t \in req[r].todo : Overlapping(t)}
    /\ Answer(r, "DELETED")
    /\ UNCHANGED <<ever, late>>

-----------------------------------------------------------------------------
TenancyStep(r) ==
    \/ \E op \in TenantOps, u \in Users, t \in Tenants \cup {None} :
          /\ op \notin PageOps => t = None
          /\ op = "detail" => t # None
          /\ EnsureAuthorizedSession(r, op, u, t)
    \/ \E slug \in Slugs : CreateTenantForUser(r, slug)
    \/ DeleteTenantForUser(r)
    \/ ResolveNamed(r)
    \/ ResolveUnnamed(r)
    \/ EnsureDefaultTenantMembership(r)
    \/ AssertTenantAccess(r)
    \/ SoftDeleteUser(r)
    \/ CountRemainingMembers(r)
    \/ CommitErasure(r)

-----------------------------------------------------------------------------
(* Properties *)

\* An account that is there never finds a tenant of its own deleted: an erasure
\* deletes a tenant only when nobody active is left in it
\* (softDeleteUserWithCleanupInTransaction).
ActiveMembersKeepTenant ==
    \A t \in Tenants, u \in Users :
        role[t][u] # None /\ account[u] = "active" => tenant[t] = "active"

\* What an erased account leaves behind is explained: it belongs to a live
\* tenant only if a request that read its session before the erasure wrote the
\* membership after it (createTenantForUser, ensureDefaultTenantMembershipForUser),
\* and a live tenant without active members was left so by such a request or
\* by two erasures that each still counted the other one's member.
LeftoversExplained ==
    /\ \A t \in Tenants, u \in Users :
        role[t][u] # None /\ account[u] = "deleted" /\ tenant[t] = "active"
            => <<t, u>> \in late
    /\ \A t \in Tenants :
        tenant[t] = "active" /\ ActiveTenantMembers(t) = {}
            => t \in crossed \/ \E u \in Users : <<t, u>> \in late
=============================================================================
