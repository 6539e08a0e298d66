---------------------------- MODULE InstanceControl ---------------------------
(***************************************************************************)
(* The control plane of instances: resource groups with their default      *)
(* network and firewall policy, and provisioning requests, each a          *)
(* CloudInstance, an InstanceProvisioningJob and an event written in one   *)
(* transaction.  Authorization is that of Tenancy.                         *)
(*                                                                         *)
(* A group is named by its tenant and slug, an instance by its tenant and  *)
(* name: both pairs are unique keys.  The network and the firewall policy  *)
(* of a group are written with it, one of each, and are named by it.       *)
(***************************************************************************)
EXTENDS Tenancy

CONSTANTS
    GroupSlugs,
    Regions,        \* region codes of the catalog
    BadRegion,      \* a region code the catalog lacks
    Names,          \* instance names
    Keys            \* idempotency keys

Groups    == Tenants \X GroupSlugs
Instances == Tenants \X Names
Jobs      == Tenants \X Keys

InstanceRows == [group : Groups, network : Groups, firewall : Groups, region : Regions,
                 by : Users]

\* None is no row, and no code of a rejection.
ASSUME ControlAssumption ==
    /\ None \notin Regions /\ None \notin Groups /\ None \notin Instances
    /\ None \notin InstanceRows
    /\ None \notin {"RESOURCE_GROUP_NOT_FOUND", "NETWORK_NOT_FOUND",
                   "FIREWALL_POLICY_NOT_FOUND", "NETWORK_RESOURCE_GROUP_MISMATCH",
                   "FIREWALL_RESOURCE_GROUP_MISMATCH", "RESOURCE_GROUP_REGION_MISMATCH"}

VARIABLES
    group,      \* region of each resource group, None if there is no such row
    instance,   \* CloudInstance rows
    job,        \* InstanceProvisioningJob rows by unique key: the instance
    events,     \* "provisioning_requested" events per instance
    form,       \* what a submission under way asks for, as far as it was read
    checks,     \* access checks a request of the wizard has left
    \* what an observer knows: answers to submissions, rows shown to accounts
    answered, shown

tables      == <<group, instance, job, events>>
controlVars == <<tables, form, checks, answered, shown>>
vars        == <<tenancyVars, controlVars>>

NoForm == [group |-> None, network |-> None, firewall |-> None, region |-> None,
           name |-> None, key |-> None]

\* Rows a tenant may see; a network and a policy are there as long as their group.
ActiveResourceGroups(t)   == {g \in Groups : g[1] = t /\ group[g] # None}
ActiveNetworks(t)         == ActiveResourceGroups(t)
ActiveFirewallPolicies(t) == ActiveResourceGroups(t)
ActiveInstances(t)        == {i \in Instances : i[1] = t /\ instance[i] # None}

FindResourceGroup(t, asked)  == asked.group \in ActiveResourceGroups(t)
FindNetwork(t, asked)        == asked.network \in ActiveNetworks(t)
FindFirewallPolicy(t, asked) == asked.firewall \in ActiveFirewallPolicies(t)

UnchangedTenancy == UNCHANGED <<account, tenant, role, ever, late, crossed>>

-----------------------------------------------------------------------------
(* The wizard's actions.  The ids, names and keys are the client's choice:  *)
(* each is chosen in the step that first looks at it.                       *)

\* A resource group or an instance is asked for.
OpenWizardAction(r, op, u, t) ==
    /\ EnsureAuthorizedSession(r, op, u, t)
    /\ checks' = [checks EXCEPT ![r] = 2]
    /\ UNCHANGED <<tables, form, answered, shown>>

\* After the tenant context the action asks assertInstanceTenantAccess, and
\* the service asks it again.
AssertInstanceTenantAccess(r) ==
    /\ req[r].step = "context" /\ checks[r] > 0
    /\ IF TenantAccess(req[r].tenant, req[r].user, "ADMIN")
       THEN UNCHANGED req
       ELSE Answer(r, "TENANT_ACCESS_DENIED")
    /\ checks' = [checks EXCEPT ![r] = IF req'[r].step = "done" THEN 0 ELSE @ - 1]
    /\ UNCHANGED <<tables, form, answered, shown>> /\ UnchangedTenancy

CreateResourceGroupWithDefaults(r, slug, region) ==
    LET g == <<req[r].tenant, slug>> IN
    /\ req[r].op = "group" /\ req[r].step = "context" /\ checks[r] = 0
    /\ CASE region \notin Regions -> Answer(r, "REGION_NOT_FOUND") /\ UNCHANGED group
         [] region \in Regions /\ group[g] # None ->
              Answer(r, "RESOURCE_GROUP_CREATE_FAILED") /\ UNCHANGED group
         [] OTHER ->
              /\ group' = [group EXCEPT ![g] = region]
              /\ Answer(r, "RESOURCE_GROUP_CREATED")
    /\ UNCHANGED <<instance, job, events, form, checks, answered, shown>>
    /\ UnchangedTenancy

\* Faulty: the network is not compared with the group.
RejectionWithoutNetwork(t, asked) ==
    CASE ~FindResourceGroup(t, asked)    -> "RESOURCE_GROUP_NOT_FOUND"
      [] ~FindNetwork(t, asked)          -> "NETWORK_NOT_FOUND"
      [] ~FindFirewallPolicy(t, asked)   -> "FIREWALL_POLICY_NOT_FOUND"
      [] asked.firewall # asked.group -> "FIREWALL_RESOURCE_GROUP_MISMATCH"
      [] asked.region # group[asked.group] -> "RESOURCE_GROUP_REGION_MISMATCH"
      [] OTHER -> None

\* The three rows are looked up by id and tenant.
Rejection(t, asked) ==
    CASE ~FindResourceGroup(t, asked)        -> "RESOURCE_GROUP_NOT_FOUND"
      [] ~FindNetwork(t, asked)              -> "NETWORK_NOT_FOUND"
      [] ~FindFirewallPolicy(t, asked)       -> "FIREWALL_POLICY_NOT_FOUND"
      [] asked.network  # asked.group        -> "NETWORK_RESOURCE_GROUP_MISMATCH"
      [] asked.firewall # asked.group        -> "FIREWALL_RESOURCE_GROUP_MISMATCH"
      [] asked.region # group[asked.group]   -> "RESOURCE_GROUP_REGION_MISMATCH"
      [] OTHER                               -> None

\* The rows and the region agree or not; the plan, the image and the size are
\* refused or not.
CheckSubmission(r, g, n, f, region) ==
    LET asked == [NoForm EXCEPT !.group = g, !.network = n, !.firewall = f,
                                !.region = region]
        code  == Rejection(req[r].tenant, asked) IN
    /\ req[r].op = "submit" /\ req[r].step = "context" /\ checks[r] = 0
    /\ \/ code = None /\ Goto(r, "checked") /\ form' = [form EXCEPT ![r] = asked]
       \/ code = None /\ Answer(r, "PROVISIONING_REQUEST_INVALID") /\ UNCHANGED form
       \/ code # None /\ Answer(r, code) /\ UNCHANGED form
    /\ UNCHANGED <<tables, checks, answered, shown>> /\ UnchangedTenancy

Submitted(r, key, i, outcome) ==
    /\ answered' = answered \cup {<<r, <<req[r].tenant, key>>, i, outcome>>}
    /\ Answer(r, IF outcome = "failed" THEN "UNKNOWN" ELSE "INSTANCE_PROVISIONING_REQUESTED")
    /\ form' = [form EXCEPT ![r] = NoForm]

\* createProvisioningRequest: the first statement of the transaction
FindProvisioningJob(r, name, key) ==
    LET j == <<req[r].tenant, key>> IN
    /\ req[r].step = "checked"
    /\ IF job[j] # None
       THEN Submitted(r, key, job[j], "reused")
       ELSE /\ Goto(r, "insert")
            /\ form' = [form EXCEPT ![r].name = name, ![r].key = key]
            /\ UNCHANGED answered
    /\ UNCHANGED <<tables, checks, shown>> /\ UnchangedTenancy

\* Faulty: the instance is inserted outside the job's transaction.
CreateInstanceFirst(r) ==
    LET i == <<req[r].tenant, form[r].name>>
        j == <<req[r].tenant, form[r].key>> IN
    /\ req[r].step = "insert"
    /\ instance[i] = None
    /\ instance' = [instance EXCEPT ![i] =
          [group |-> form[r].group, network |-> form[r].network,
           firewall |-> form[r].firewall, region |-> form[r].region,
           by |-> req[r].user]]
    /\ IF job[j] = None
       THEN /\ job'    = [job EXCEPT ![j] = i]
            /\ events' = [events EXCEPT ![i] = @ + 1]
            /\ Submitted(r, form[r].key, i, "made")
       ELSE /\ UNCHANGED <<job, events>>
            /\ Submitted(r, form[r].key, job[j], "reused")
    /\ UNCHANGED <<group, checks, shown>> /\ UnchangedTenancy

\* The inserts.  The instance comes first, so its unique name is what a second
\* transaction with the same name trips over; only a conflict on the job's key
\* is answered with the job that is there.
CreateProvisioningRequest(r) ==
    LET i == <<req[r].tenant, form[r].name>>
        j == <<req[r].tenant, form[r].key>> IN
    /\ req[r].step = "insert"
    /\ \/ /\ instance[i] # None
          /\ Submitted(r, form[r].key, i, "failed")
          /\ UNCHANGED <<instance, job, events>>
       \/ /\ instance[i] = None /\ job[j] # None
          /\ Submitted(r, form[r].key, job[j], "reused")
          /\ UNCHANGED <<instance, job, events>>
       \/ /\ instance[i] = None /\ job[j] = None
          /\ instance' = [instance EXCEPT ![i] =
                [group |-> form[r].group, network |-> form[r].network,
                 firewall |-> form[r].firewall, region |-> form[r].region,
                 by |-> req[r].user]]
          /\ job'    = [job EXCEPT ![j] = i]
          /\ events' = [events EXCEPT ![i] = @ + 1]
          /\ Submitted(r, form[r].key, i, "made")
    /\ UNCHANGED <<group, checks, shown>> /\ UnchangedTenancy

-----------------------------------------------------------------------------
(* Pages.  The lists are filtered by the tenant resolved before, and empty  *)
(* without one.                                                            *)

Show(r, rows) ==
    /\ shown' = shown \cup ({req[r].user} \X rows)
    /\ Answer(r, "SHOWN")
    /\ UNCHANGED <<tables, form, checks, answered>> /\ UnchangedTenancy

\* The dashboard fails when the account is gone by the time its row is read.
FindActiveUserDashboardSnapshot(r) ==
    /\ req[r].op = "overview" /\ req[r].step = "context"
    /\ IF account[req[r].user] = "deleted"
       THEN Answer(r, "DASHBOARD_USER_NOT_FOUND")
       ELSE Goto(r, "snapshot")
    /\ UNCHANGED controlVars /\ UnchangedTenancy

\* Its rows of the control plane.  The notification counts and audit events beside
\* them, which defaultDependencies selects by user alone, are left out.
GetDashboardOverview(r) ==
    /\ req[r].op = "overview" /\ req[r].step = "snapshot"
    /\ Show(r, ActiveResourceGroups(req[r].tenant) \cup ActiveInstances(req[r].tenant))

GetInstanceWizardBootstrap(r) ==
    /\ req[r].op = "wizard" /\ req[r].step = "context"
    /\ Show(r, ActiveResourceGroups(req[r].tenant) \cup ActiveNetworks(req[r].tenant)
                \cup ActiveFirewallPolicies(req[r].tenant))

GetTenantManagementDetail(r) ==
    /\ req[r].op = "detail" /\ req[r].step = "context"
    /\ Show(r, ActiveResourceGroups(req[r].tenant))

-----------------------------------------------------------------------------
\* Accounts that registered before tenants existed have no membership; the
\* others own their default tenant, and may share another one.
Init ==
    /\ account = [u \in Users |-> "active"]
    /\ role \in [Tenants -> [Users -> Roles \cup {None}]]
    /\ \A u, v \in Users : role[Home(u)][v] \in IF u = v THEN {None, "OWNER"} ELSE {None}
    /\ \A s \in Slugs : (\A u \in Users : role[s][u] = None)
                        \/ \E u \in Users : role[s][u] = "OWNER"
    /\ tenant = [t \in Tenants |->
          IF \E u \in Users : role[t][u] # None THEN "active" ELSE "absent"]
    /\ ever = {m \in Tenants \X Users \X Roles : role[m[1]][m[2]] = m[3]}
    /\ late = {} /\ crossed = {}
    /\ req = [r \in Requests |-> Idle]
    /\ \E rg \in Regions : group = [g \in Groups |->
          IF tenant[g[1]] = "active" THEN rg ELSE None]
    /\ instance = [i \in Instances |-> None]
    /\ job = [j \in Jobs |-> None]
    /\ events = [i \in Instances |-> 0]
    /\ form = [r \in Requests |-> NoForm]
    /\ checks = [r \in Requests |-> 0]
    /\ answered = {} /\ shown = {}

ControlStep(r) ==
    \/ \E op \in {"group", "submit"}, u \in Users, t \in Tenants : OpenWizardAction(r, op, u, t)
    \/ AssertInstanceTenantAccess(r)
    \/ \E slug \in GroupSlugs, region \in Regions \cup {BadRegion} :
          CreateResourceGroupWithDefaults(r, slug, region)
    \/ \E g, n \in Groups, region \in Regions : \E f \in {g, n} :
          CheckSubmission(r, g, n, f, region)
    \/ \E name \in Names, key \in Keys : FindProvisioningJob(r, name, key)
    \/ CreateProvisioningRequest(r)
    \/ FindActiveUserDashboardSnapshot(r)
    \/ GetDashboardOverview(r)
    \/ GetInstanceWizardBootstrap(r)
    \/ GetTenantManagementDetail(r)

Next == \E r \in Requests :
    \/ TenancyStep(r) /\ UNCHANGED controlVars
    \/ ControlStep(r)

Spec == Init /\ [][Next]_vars

-----------------------------------------------------------------------------
(* Properties *)

TypeOK ==
    /\ account \in [Users -> {"active", "deleted"}]
    /\ tenant \in [Tenants -> {"absent", "active", "deleted"}]
    /\ role \in [Tenants -> [Users -> Roles \cup {None}]]
    /\ \A r \in Requests :
          /\ req[r].step \in Steps \cup {"checked", "insert", "snapshot"}
          /\ req[r].tries \in 0..(MaxTries - 1)
          /\ req[r].doomed \subseteq req[r].todo /\ req[r].todo \subseteq Tenants
          /\ checks[r] \in 0..2
    /\ group \in [Groups -> Regions \cup {None}]
    /\ job \in [Jobs -> Instances \cup {None}]
    /\ events \in [Instances -> 0..1]

\* The groups, networks, policies and instances that a request is shown, and the
\* instances it makes, belong to a tenant its user really had the required role in,
\* and the parts of an instance to one resource group of that tenant in the region
\* asked for (submitInstanceProvisioningFromWizard, and the lists of groups and
\* instances in getDashboardOverview).  It says nothing of the notification counts
\* and audit events of the dashboard: they are the user's own, but of every tenant,
\* as get-dashboard-overview.ts:140-143 does not pass the tenant on.
Belonged(t, u, minimum) ==
    \E held \in Roles : HasRequiredTenantRole(held, minimum) /\ <<t, u, held>> \in ever

TenantIsolation ==
    /\ \A i \in Instances : instance[i] # None =>
          /\ Belonged(i[1], instance[i].by, "ADMIN")
          /\ instance[i].group \in ActiveResourceGroups(i[1])
          /\ instance[i].network = instance[i].group
          /\ instance[i].firewall = instance[i].group
          /\ instance[i].region = group[instance[i].group]
    /\ \A s \in shown : Belonged(s[2][1], s[1], "MEMBER")

\* However submissions race, a key has one job, an instance belongs to exactly
\* one job and one event, and all answers to one key name the same instance,
\* at most one of them as the one that made it (createProvisioningRequest).
OneJobPerKey ==
    /\ \A i \in Instances :
          Cardinality({j \in Jobs : job[j] = i}) = (IF instance[i] = None THEN 0 ELSE 1)
          /\ events[i] = (IF instance[i] = None THEN 0 ELSE 1)
    /\ \A j \in Jobs : job[j] # None => job[j][1] = j[1]
    /\ \A a, b \in {x \in answered : x[4] # "failed"} : a[2] = b[2] =>
          /\ a[3] = b[3]
          /\ a[4] = "made" /\ b[4] = "made" => a = b

\* "idempotent instance provisioning request submission" (README.md:34): no
\* submission fails over the very instance its key stands for.
RetriesAreAnswered ==
    \A a \in answered : a[4] = "failed" => job[a[2]] # a[3]
=============================================================================
