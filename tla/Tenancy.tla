------------------------------- MODULE Tenancy -------------------------------
(***************************************************************************)
(* The apiserver's routes that manage an organization: its members, its    *)
(* API keys, its projects and the organization itself.  Each route is one  *)
(* transaction at Postgres's default level, READ COMMITTED: the caller's   *)
(* permission, the guards and the write are separate statements, each of   *)
(* which sees what others have committed by then, and writes appear when   *)
(* the transaction commits.  An uncommitted write locks its row.  The row  *)
(* level security of memberships is part of every statement on it.  Signup *)
(* gives each user one organization, which is named after that user.       *)
(***************************************************************************)
EXTENDS Naturals, FiniteSets

CONSTANTS
    Users,
    Keys,          \* API keys that can be created
    Requests,      \* requests the apiserver can be serving at the same time
    OfferedRoles,  \* roles that invitations and role changes name
    MaxProjects,   \* resource_quotas.max_projects
    MaxServed      \* requests that pass their permission check

ASSUME TenancyAssumption ==
    /\ OfferedRoles \subseteq {"owner", "admin", "developer", "viewer"}
    /\ {MaxProjects, MaxServed} \subseteq Nat

VARIABLES
    registered,  \* the users table
    orgs,        \* the organizations table
    roles,       \* the memberships table: roles[org][user]
    keys,        \* the api_keys table
    projects,    \* projects per organization
    txs,         \* transactions in progress
    served,
    raced,       \* history: organizations whose owners changed under a guard
    crowded,     \* history: organizations whose projects changed under a trigger
    keyActs      \* history: pairs of a key and an organization it changed

rows == <<registered, orgs, roles, keys, projects>>
history == <<raced, crowded, keyActs>>
vars == <<rows, txs, served, history>>

Orgs == Users
NoTx == [at |-> "none"]

\* permissionMatrix, the rows these routes ask for.
Granted(op) ==
    CASE op \in {"invite", "change_role", "remove", "create_key", "revoke_key", "update_org"} -> {"owner", "admin"}
      [] op = "create_project" -> {"owner", "admin", "developer"}
      [] op = "delete_org" -> {"owner"}

Ops == {"invite", "change_role", "remove", "create_key", "revoke_key", "update_org", "create_project", "delete_org"}
MemberOps == {"invite", "change_role", "remove"}

\* What a request asks for: the fields its route does not use are fixed.
Request(op, actor, via, org, target, role, key) ==
    [op |-> op, actor |-> actor, via |-> via, org |-> org, target |-> target, role |-> role, key |-> key]

TypeOK ==
    /\ registered \in SUBSET Users
    /\ orgs \in SUBSET registered
    /\ roles \in [Orgs -> [Users -> {"none", "owner"} \cup OfferedRoles]]
    /\ keys \in [Keys -> [state : {"none", "active", "revoked"}, org : {{}} \cup {{o} : o \in Orgs},
                          user : {{}} \cup {{u} : u \in Users}]]
    /\ projects \in [Orgs -> Nat]
    /\ \A r \in Requests : txs[r] = NoTx \/
          /\ txs[r].at \in {"target", "count", "quota", "write", "blocked", "commit"}
          /\ txs[r].op \in Ops /\ txs[r].actor \in Users /\ txs[r].org \in Orgs
          /\ txs[r].overtaken \in BOOLEAN
    /\ served \in 0..MaxServed
    /\ \A o \in Orgs \ orgs : projects[o] = 0 /\ \A u \in Users : roles[o][u] = "none"

NoKey == [state |-> "none", org |-> {}, user |-> {}]

Init ==
    /\ registered = {} /\ orgs = {}
    /\ roles = [o \in Orgs |-> [u \in Users |-> "none"]]
    /\ keys = [k \in Keys |-> NoKey]
    /\ projects = [o \in Orgs |-> 0]
    /\ txs = [r \in Requests |-> NoTx]
    /\ served = 0
    /\ raced = {} /\ crowded = {} /\ keyActs = {}

Owners(org) == {u \in Users : roles[org][u] = "owner"}

\* handleSignup: user, organization, quota and owner membership in one transaction.
Signup(u) ==
    /\ u \notin registered
    /\ registered' = registered \cup {u}
    /\ orgs' = orgs \cup {u}
    /\ roles' = [roles EXCEPT ![u][u] = "owner"]
    /\ UNCHANGED <<keys, projects, txs, served, history>>

-----------------------------------------------------------------------------
(* Authentication and permission *)

\* Mutation of KeyOrgMatches: a key is as good as its creator's login.
KeyOrgUnchecked(via, org) == TRUE

\* requireAPIKeyOrgMatch
KeyOrgMatches(via, org) == \A k \in via : keys[k].org = {org}

\* Authenticate: a login names its user, an active key the user who created it.
Authentic(actor, via) ==
    /\ actor \in registered
    /\ \A k \in via : keys[k].state = "active" /\ keys[k].user = {actor}

\* requirePermission
Permitted(op, actor, via, org) == KeyOrgMatches(via, org) /\ roles[org][actor] \in Granted(op)

FirstStatement(op) ==
    CASE op \in {"change_role", "remove"} -> "target"
      [] op = "create_project" -> "quota"
      [] OTHER -> "write"

\* A route up to and including requirePermission.  A route that names a key
\* resolves the organization from it.
Begin(r, request) ==
    /\ txs[r] = NoTx /\ served < MaxServed
    /\ Authentic(request.actor, request.via)
    /\ request.op = "revoke_key" => \A k \in request.key : keys[k].org = {request.org}
    /\ request.op = "invite" => request.target \in registered
    /\ Permitted(request.op, request.actor, request.via, request.org)
    /\ served' = served + 1
    /\ txs' = [txs EXCEPT ![r] =
          [at |-> FirstStatement(request.op), op |-> request.op, actor |-> request.actor, via |-> request.via,
           org |-> request.org, target |-> request.target, role |-> request.role, key |-> request.key,
           overtaken |-> FALSE]]
    /\ UNCHANGED <<rows, history>>

\* The requests the routes offer, per caller.
InviteRequests(actor, via, org) ==
    {Request("invite", actor, via, org, target, role, {}) : target \in Users, role \in OfferedRoles}

ChangeRoleRequests(actor, via, org) ==
    {Request("change_role", actor, via, org, target, role, {}) : target \in Users, role \in OfferedRoles}

RemoveRequests(actor, via, org) ==
    {Request("remove", actor, via, org, target, "none", {}) : target \in Users}

CreateKeyRequest(actor, via, org) == Request("create_key", actor, via, org, actor, "none", {})

RevokeKeyRequests(actor, via, org) ==
    {Request("revoke_key", actor, via, org, actor, "none", {k}) : k \in Keys}

CreateProjectRequest(actor, via, org) == Request("create_project", actor, via, org, actor, "none", {})

UpdateOrganizationRequest(actor, via, org) == Request("update_org", actor, via, org, actor, "none", {})

DeleteOrganizationRequest(actor, via, org) == Request("delete_org", actor, via, org, actor, "none", {})

Asked ==
    UNION {
       InviteRequests(actor, via, org) \cup ChangeRoleRequests(actor, via, org)
       \cup RemoveRequests(actor, via, org) \cup RevokeKeyRequests(actor, via, org)
       \cup {CreateKeyRequest(actor, via, org), CreateProjectRequest(actor, via, org),
             UpdateOrganizationRequest(actor, via, org), DeleteOrganizationRequest(actor, via, org)}
       : via \in {{}} \cup {{k} : k \in Keys}, actor \in Users, org \in Orgs}

-----------------------------------------------------------------------------
(* The statements of a transaction *)

At(r, at) == txs' = [txs EXCEPT ![r].at = at]
\* fn's error: the deferred Rollback.
Rollback(r) == txs' = [txs EXCEPT ![r] = NoTx]

\* The policy memberships_isolation: one's own row, or an owner's or admin's view.
Visible(actor, org, target) == actor = target \/ roles[org][actor] \in {"owner", "admin"}

Demotes(tx, role) == role = "owner" /\ (tx.op = "remove" \/ tx.role # "owner")

\* RoleForUser of the member to be changed or removed.
ReadTarget(r) ==
    LET tx == txs[r] IN
    /\ tx.at = "target"
    /\ IF Visible(tx.actor, tx.org, tx.target) /\ roles[tx.org][tx.target] # "none"
       THEN At(r, IF Demotes(tx, roles[tx.org][tx.target]) THEN "count" ELSE "write")
       ELSE Rollback(r)
    /\ UNCHANGED <<rows, served, history>>

\* Mutation of LastOwner: only an organization without any owner is protected.
LastOwnerOffByOne(owners) == owners < 1

LastOwner(owners) == owners <= 1

\* CountOwners, over the rows the policy shows.
CountOwners(r) ==
    LET tx == txs[r] IN
    /\ tx.at = "count"
    /\ IF LastOwner(Cardinality({u \in Owners(tx.org) : Visible(tx.actor, tx.org, u)}))
       THEN Rollback(r) ELSE At(r, "write")
    /\ UNCHANGED <<rows, served, history>>

\* checkProjectQuota
CheckProjectQuota(r) ==
    /\ txs[r].at = "quota"
    /\ IF projects[txs[r].org] >= MaxProjects THEN Rollback(r) ELSE At(r, "write")
    /\ UNCHANGED <<rows, served, history>>

\* Mutation of EnforceProjectQuota: the count is compared before the insert.
EnforceProjectQuotaLate(org) == projects[org] <= MaxProjects

\* The trigger enforce_project_quota
EnforceProjectQuota(org) == projects[org] + 1 <= MaxProjects

\* A row some other transaction has written but not committed.
Locked(r) ==
    \E s \in Requests \ {r} :
        /\ txs[s] # NoTx /\ txs[s].at = "commit" /\ txs[s].org = txs[r].org
        /\ \/ "delete_org" \in {txs[s].op, txs[r].op}
           \/ {txs[s].op, txs[r].op} \subseteq MemberOps /\ txs[s].target = txs[r].target
           \/ txs[s].op = "revoke_key" /\ txs[r].op = "revoke_key" /\ txs[s].key = txs[r].key
           \/ txs[s].op = "update_org" /\ txs[r].op = "update_org"

\* Whether the statement finds its row, or may insert it.
Applies(tx) ==
    /\ tx.org \in orgs
    /\ CASE tx.op = "invite" -> roles[tx.org][tx.target] = "none"
         [] tx.op \in {"change_role", "remove"} -> roles[tx.org][tx.target] # "none"
         [] tx.op = "revoke_key" -> \A k \in tx.key : keys[k].state = "active"
         [] tx.op = "create_project" -> EnforceProjectQuota(tx.org)
         [] OTHER -> TRUE

\* The policy as the statement begins; it does not ask for a role anywhere else.
Policy(tx) == tx.op \in MemberOps => Visible(tx.actor, tx.org, tx.target)

\* The route's INSERT, UPDATE or DELETE.  The audit row that follows it on every
\* route but the organization's delete is not modelled.
Write(r) ==
    LET tx == txs[r] IN
    /\ \/ tx.at = "write" /\ ~Locked(r)
       \/ tx.at = "blocked" /\ ~Locked(r)
    /\ IF (tx.at = "blocked" \/ Policy(tx)) /\ Applies(tx)
       THEN At(r, "commit") ELSE Rollback(r)
    /\ UNCHANGED <<rows, served, history>>

\* The statement waits for a lock, its snapshot taken before.
Block(r) ==
    /\ txs[r].at = "write" /\ Locked(r)
    /\ IF Policy(txs[r]) THEN At(r, "blocked") ELSE Rollback(r)
    /\ UNCHANGED <<rows, served, history>>

FreshKey == CHOOSE k \in Keys : keys[k].state = "none"

\* Mutation of RolesAfter: the memberships of a deleted organization stay.
RolesAfterNoCascade(tx) ==
    CASE tx.op \in {"invite", "change_role"} -> [roles EXCEPT ![tx.org][tx.target] = tx.role]
      [] tx.op = "remove" -> [roles EXCEPT ![tx.org][tx.target] = "none"]
      [] OTHER -> roles

\* The tables once tx has committed.  The cascade of an organization takes its
\* members, keys and projects along.
RolesAfter(tx) ==
    CASE tx.op \in {"invite", "change_role"} -> [roles EXCEPT ![tx.org][tx.target] = tx.role]
      [] tx.op = "remove" -> [roles EXCEPT ![tx.org][tx.target] = "none"]
      [] tx.op = "delete_org" -> [roles EXCEPT ![tx.org] = [u \in Users |-> "none"]]
      [] OTHER -> roles

KeysAfter(tx) ==
    CASE tx.op = "create_key" ->
            [keys EXCEPT ![FreshKey] = [state |-> "active", org |-> {tx.org}, user |-> {tx.actor}]]
      [] tx.op \in {"revoke_key", "delete_org"} ->
            [k \in Keys |-> IF k \in tx.key \/ (tx.op = "delete_org" /\ keys[k].org = {tx.org})
                            THEN [keys[k] EXCEPT !.state = "revoked"] ELSE keys[k]]
      [] OTHER -> keys

ProjectsAfter(tx) ==
    CASE tx.op = "create_project" -> [projects EXCEPT ![tx.org] = @ + 1]
      [] tx.op = "delete_org" -> [projects EXCEPT ![tx.org] = 0]
      [] OTHER -> projects

\* Another transaction counts owners or projects that tx, as it commits, changes.
Overtakes(tx, other) ==
    /\ other # NoTx /\ other.org = tx.org
    /\ \/ /\ other.op \in {"change_role", "remove"} /\ other.at # "target"
          /\ \E u \in Users : (roles[tx.org][u] = "owner") # (RolesAfter(tx)[tx.org][u] = "owner")
       \/ other.op = "create_project" /\ other.at = "commit" /\ tx.op = "create_project"

Commit(r) ==
    LET tx == txs[r] IN
    /\ tx.at = "commit"
    /\ tx.op = "create_key" => \E k \in Keys : keys[k].state = "none"
    /\ orgs' = IF tx.op = "delete_org" THEN orgs \ {tx.org} ELSE orgs
    /\ roles' = RolesAfter(tx)
    /\ keys' = KeysAfter(tx)
    /\ projects' = ProjectsAfter(tx)
    /\ txs' = [s \in Requests |->
          IF s = r THEN NoTx
          ELSE IF Overtakes(tx, txs[s]) THEN [txs[s] EXCEPT !.overtaken = TRUE]
          ELSE txs[s]]
    /\ raced' = IF tx.overtaken /\ tx.op # "create_project" THEN raced \cup {tx.org} ELSE raced
    /\ crowded' = IF tx.overtaken /\ tx.op = "create_project" THEN crowded \cup {tx.org} ELSE crowded
    /\ keyActs' = keyActs \cup {<<k, tx.org>> : k \in tx.via}
    /\ UNCHANGED <<registered, served>>

\* A statement fails, the request is cancelled or the process dies.
Abort(r) ==
    /\ txs[r] # NoTx
    /\ Rollback(r)
    /\ UNCHANGED <<rows, served, history>>

-----------------------------------------------------------------------------

Next ==
    \/ \E u \in Users : Signup(u)
    \/ \E r \in Requests :
          \/ \E request \in Asked : Begin(r, request)
          \/ ReadTarget(r) \/ CountOwners(r) \/ CheckProjectQuota(r)
          \/ Write(r) \/ Block(r) \/ Commit(r) \/ Abort(r)

Spec == Init /\ [][Next]_vars

-----------------------------------------------------------------------------
(* Properties *)

\* CountOwners keeps an organization's last owner, unless its owners changed
\* between a transaction's reads and its commit: no sequence of invitations,
\* role changes and removals leaves an organization without an owner otherwise.
OwnerlessOnlyByRace == \A o \in orgs : Owners(o) = {} => o \in raced

\* checkProjectQuota and the trigger both count before an insert: an
\* organization holds more projects than its quota only if another project was
\* committed between a trigger's count and its transaction's commit.
ProjectsOverOnlyByRace == \A o \in orgs : projects[o] > MaxProjects => o \in crowded

\* Whatever route an API key is used for, and whichever organizations its
\* creator belongs to, it changes the organization it was created in only.
KeyConfined == \A act \in keyActs : keys[act[1]].org = {act[2]}

=============================================================================
