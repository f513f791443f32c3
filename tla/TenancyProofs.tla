---------------------------- MODULE TenancyProofs ----------------------------
(***************************************************************************)
(* Proofs about the routes that manage an organization, for any number of  *)
(* users, keys and concurrent requests, any roles on offer and any quota.  *)
(* The inductive invariant says what a transaction may rely on between its *)
(* statements: what it has locked stays as it is, and what it only read    *)
(* stays as it is unless the history marks the transaction as overtaken.   *)
(***************************************************************************)
EXTENDS Tenancy, TLAPS, FiniteSetTheorems

TxRecords ==
    [at : {"target", "count", "quota", "write", "blocked", "commit"}, op : Ops, actor : Users,
     via : SUBSET Keys, org : Orgs, target : Users, role : {"none"} \cup OfferedRoles,
     key : SUBSET Keys, overtaken : BOOLEAN]

TxsTyped == txs \in [Requests -> {NoTx} \cup TxRecords]

\* Only the routes with a guard of that kind are at its statement.
AtGuard(tx) ==
    /\ tx.at = "quota" => tx.op = "create_project"
    /\ tx.at \in {"target", "count"} => tx.op \in {"change_role", "remove"}

\* The keys a request came with belong to the organization it is about.
KeysOf(tx) == \A k \in tx.via : keys[k].state # "none" /\ keys[k].org = {tx.org}

\* What a written row, which is locked, still is.
Held(tx) ==
    tx.at = "commit" =>
       /\ tx.org \in orgs
       /\ tx.op = "invite" => roles[tx.org][tx.target] = "none"

\* What the guard of a demotion found: an owner besides its target.
OtherOwner(tx) ==
    (/\ tx.op \in {"change_role", "remove"} /\ tx.at \in {"write", "blocked", "commit"}
     /\ ~tx.overtaken /\ Demotes(tx, roles[tx.org][tx.target]))
    => \E u \in Users \ {tx.target} : roles[tx.org][u] = "owner"

\* What the trigger found: room for one project more.
Room(tx) ==
    tx.op = "create_project" /\ tx.at = "commit" /\ ~tx.overtaken => projects[tx.org] + 1 <= MaxProjects

TxInv(tx) ==
    /\ tx.org \in registered
    /\ AtGuard(tx) /\ KeysOf(tx) /\ Held(tx) /\ OtherOwner(tx) /\ Room(tx)

Transactions == \A r \in Requests : txs[r] # NoTx => TxInv(txs[r])

\* Row locks: no two written transactions of an organization write the same
\* member, and none of them deletes the organization.
Exclusive(tx, other) ==
    tx.org = other.org =>
       /\ tx.op # "delete_org" /\ other.op # "delete_org"
       /\ tx.op \in MemberOps /\ other.op \in MemberOps => tx.target # other.target
Locks == \A r, s \in Requests : (r # s /\ txs[r].at = "commit" /\ txs[s].at = "commit") => Exclusive(txs[r], txs[s])

\* A key that acted was created, and in that organization.
Acts == \A act \in keyActs : act[1] \in Keys /\ keys[act[1]].state # "none" /\ keys[act[1]].org = {act[2]}

Tables ==
    /\ registered \in SUBSET Users
    /\ orgs \in SUBSET registered
    /\ roles \in [Orgs -> [Users -> {"none", "owner"} \cup OfferedRoles]]
    /\ keys \in [Keys -> [state : {"none", "active", "revoked"}, org : {{}} \cup {{o} : o \in Orgs},
                          user : {{}} \cup {{u} : u \in Users}]]
    /\ projects \in [Orgs -> Nat]
    /\ \A o \in Orgs \ orgs : projects[o] = 0 /\ \A u \in Users : roles[o][u] = "none"

Inv ==
    /\ Tables /\ served \in 0..MaxServed
    /\ TxsTyped /\ Transactions /\ Locks /\ Acts
    /\ OwnerlessOnlyByRace /\ ProjectsOverOnlyByRace

-----------------------------------------------------------------------------
(* Transactions *)

\* No transaction is a record of another shape: its place tells it from one.
LEMMA OpenTx ==
    ASSUME TxsTyped, NEW r \in Requests, txs[r].at # "none"
    PROVE  txs[r] \in TxRecords /\ txs[r] # NoTx
BY DEF TxsTyped, NoTx

\* The absence of a transaction is not a transaction.
LEMMA NoTxShape == NoTx.at = "none" /\ NoTx \notin TxRecords
BY DEF NoTx, TxRecords

\* A route asks for a request of the shared shape.
LEMMA AskedType ==
    ASSUME NEW request \in Asked
    PROVE  /\ request.op \in Ops /\ request.actor \in Users /\ request.via \in SUBSET Keys
           /\ request.org \in Orgs /\ request.target \in Users
           /\ request.role \in {"none"} \cup OfferedRoles /\ request.key \in SUBSET Keys
<1>1. PICK via \in {{}} \cup {{k} : k \in Keys}, actor \in Users, org \in Orgs :
          request \in InviteRequests(actor, via, org) \cup ChangeRoleRequests(actor, via, org)
             \cup RemoveRequests(actor, via, org) \cup RevokeKeyRequests(actor, via, org)
             \cup {CreateKeyRequest(actor, via, org), CreateProjectRequest(actor, via, org),
                   UpdateOrganizationRequest(actor, via, org), DeleteOrganizationRequest(actor, via, org)}
    BY DEF Asked
<1>2. via \in SUBSET Keys
    OBVIOUS
<1>3. \E op \in Ops, target \in Users, role \in {"none"} \cup OfferedRoles, key \in SUBSET Keys :
          request = Request(op, actor, via, org, target, role, key)
    <2>1. CASE request \in InviteRequests(actor, via, org)
        BY <2>1 DEF InviteRequests, Ops
    <2>2. CASE request \in ChangeRoleRequests(actor, via, org)
        BY <2>2 DEF ChangeRoleRequests, Ops
    <2>3. CASE request \in RemoveRequests(actor, via, org)
        BY <2>3 DEF RemoveRequests, Ops
    <2>4. CASE request \in RevokeKeyRequests(actor, via, org)
        <3>1. PICK k \in Keys : request = Request("revoke_key", actor, via, org, actor, "none", {k})
            BY <2>4 DEF RevokeKeyRequests
        <3>2. {k} \in SUBSET Keys /\ "revoke_key" \in Ops
            BY DEF Ops
        <3> QED BY <3>1, <3>2
    <2>5. CASE request \in {CreateKeyRequest(actor, via, org), CreateProjectRequest(actor, via, org),
                            UpdateOrganizationRequest(actor, via, org), DeleteOrganizationRequest(actor, via, org)}
        <3>1. {} \in SUBSET Keys /\ {"create_key", "create_project", "update_org", "delete_org"} \subseteq Ops
            BY DEF Ops
        <3> QED BY <2>5, <3>1 DEF CreateKeyRequest, CreateProjectRequest, UpdateOrganizationRequest, DeleteOrganizationRequest
    <2> QED BY <1>1, <2>1, <2>2, <2>3, <2>4, <2>5
<1>4. PICK op \in Ops, target \in Users, role \in {"none"} \cup OfferedRoles, key \in SUBSET Keys :
          request = Request(op, actor, via, org, target, role, key)
    BY <1>3
<1> QED BY <1>2, <1>4 DEF Request

\* A transaction that is opened, moves on or ends leaves the others as they are.
LEMMA OneMoves ==
    ASSUME Inv, NEW r \in Requests, NEW tx \in {NoTx} \cup TxRecords,
           txs' = [txs EXCEPT ![r] = tx], UNCHANGED <<rows, history>>, served' \in 0..MaxServed,
           tx # NoTx => TxInv(tx),
           \A s \in Requests \ {r} : tx.at = "commit" /\ txs[s].at = "commit"
              => Exclusive(tx, txs[s])
    PROVE  Inv'
<1>1. TxsTyped'
    BY DEF Inv, TxsTyped
<1>2. \A s \in Requests : txs'[s] = IF s = r THEN tx ELSE txs[s]
    BY DEF Inv, TxsTyped
<1>3. Tables' /\ Acts' /\ OwnerlessOnlyByRace' /\ ProjectsOverOnlyByRace'
    BY DEF Inv, Tables, Acts, OwnerlessOnlyByRace, ProjectsOverOnlyByRace, Owners, rows, history
<1>4. Transactions'
    <2> SUFFICES ASSUME NEW s \in Requests, txs'[s] # NoTx PROVE TxInv(txs[s])'
        BY DEF Transactions
    <2>1. TxInv(txs'[s])
        BY <1>2 DEF Inv, Transactions
    <2> QED BY <2>1 DEF TxInv, AtGuard, KeysOf, Held, OtherOwner, Room, rows
<1>5. Locks'
    <2> SUFFICES ASSUME NEW a \in Requests, NEW b \in Requests, a # b, txs'[a].at = "commit", txs'[b].at = "commit"
                 PROVE  Exclusive(txs'[a], txs'[b])
        BY DEF Locks, Exclusive
    <2>1. CASE a # r /\ b # r
        BY <1>2, <2>1 DEF Inv, Locks
    <2>2. CASE a = r
        BY <1>2, <2>2
    <2>3. CASE b = r
        <3>1. Exclusive(txs'[b], txs'[a])
            BY <1>2, <2>3
        <3> QED BY <3>1 DEF Exclusive
    <2> QED BY <2>1, <2>2, <2>3
<1> QED BY <1>1, <1>3, <1>4, <1>5 DEF Inv

\* A transaction that ends without commit disturbs nothing.
LEMMA Ends ==
    ASSUME Inv, NEW r \in Requests, Rollback(r), UNCHANGED <<rows, served, history>>
    PROVE  Inv'
<1>1. served' \in 0..MaxServed
    BY DEF Inv
<1> QED BY <1>1, OneMoves, NoTxShape DEF Rollback

\* A transaction that moves on to its next statement with what that one relies on.
LEMMA MovesOn ==
    ASSUME Inv, NEW r \in Requests, txs[r] \in TxRecords,
           NEW at \in {"count", "write", "blocked", "commit"}, At(r, at), UNCHANGED <<rows, served, history>>,
           at = "count" => txs[r].op \in {"change_role", "remove"},
           Held([txs[r] EXCEPT !.at = at]), OtherOwner([txs[r] EXCEPT !.at = at]), Room([txs[r] EXCEPT !.at = at]),
           at = "commit" => \A s \in Requests \ {r} : txs[s].at = "commit" => Exclusive(txs[r], txs[s])
    PROVE  Inv'
<1> DEFINE tx == [txs[r] EXCEPT !.at = at]
<1>1. tx \in TxRecords
    BY DEF TxRecords
<1>2. txs' = [txs EXCEPT ![r] = tx]
    BY DEF At
<1>3. /\ tx.at = at /\ tx.op = txs[r].op /\ tx.via = txs[r].via /\ tx.org = txs[r].org
      /\ tx.target = txs[r].target
    BY DEF TxRecords
<1>4. TxInv(txs[r])
    BY NoTxShape DEF Inv, Transactions
<1>5. TxInv(tx)
    BY <1>3, <1>4 DEF TxInv, AtGuard, KeysOf
<1>6. \A s \in Requests \ {r} : tx.at = "commit" /\ txs[s].at = "commit" => Exclusive(tx, txs[s])
    BY <1>3 DEF Exclusive
<1>7. served' \in 0..MaxServed
    BY DEF Inv
<1> HIDE DEF tx
<1> QED BY <1>1, <1>2, <1>5, <1>6, <1>7, OneMoves

-----------------------------------------------------------------------------
(* The statements before the write *)

\* More than one owner means one besides any given member.
LEMMA MoreThanOne ==
    ASSUME NEW S, NEW x, ~LastOwner(Cardinality(S))
    PROVE  \E y \in S : y # x
<1> SUFFICES ASSUME \A y \in S : y = x PROVE FALSE
    OBVIOUS
<1>1. CASE S = {}
    BY <1>1, FS_EmptySet DEF LastOwner
<1>2. CASE S = {x}
    BY <1>2, FS_Singleton DEF LastOwner
<1> QED BY <1>1, <1>2

\* A transaction that begins has read nothing yet.
LEMMA BeginInv ==
    ASSUME Inv, NEW r \in Requests, NEW request \in Asked, Begin(r, request)
    PROVE  Inv'
<1> DEFINE tx == [at |-> FirstStatement(request.op), op |-> request.op, actor |-> request.actor, via |-> request.via,
                  org |-> request.org, target |-> request.target, role |-> request.role, key |-> request.key,
                  overtaken |-> FALSE]
<1>1. tx \in TxRecords /\ tx.at \in {"target", "quota", "write"}
    BY AskedType DEF TxRecords, FirstStatement
<1>2. txs' = [txs EXCEPT ![r] = tx] /\ UNCHANGED <<rows, history>>
    BY DEF Begin
<1>3. served' \in 0..MaxServed
    BY TenancyAssumption DEF Begin, Inv
<1>4. tx.org \in registered
    <2>1. roles[request.org][request.actor] # "none"
        BY AskedType DEF Begin, Permitted, Granted, Ops
    <2> QED BY <2>1, AskedType DEF Inv, Tables
<1>5. KeysOf(tx)
    BY AskedType DEF Begin, Authentic, Permitted, KeyOrgMatches, KeysOf
<1>6. AtGuard(tx) /\ Held(tx) /\ OtherOwner(tx) /\ Room(tx)
    BY AskedType DEF AtGuard, Held, OtherOwner, Room, FirstStatement
<1>7. TxInv(tx)
    BY <1>4, <1>5, <1>6 DEF TxInv
<1> HIDE DEF tx
<1> QED BY <1>1, <1>2, <1>3, <1>7, OneMoves

\* Reading the target decides whether owners are counted.
LEMMA ReadTargetInv ==
    ASSUME Inv, NEW r \in Requests, ReadTarget(r)
    PROVE  Inv'
<1>1. txs[r] \in TxRecords /\ txs[r] # NoTx
    BY OpenTx DEF ReadTarget, Inv
<1>2. txs[r].op \in {"change_role", "remove"}
    BY <1>1 DEF ReadTarget, Inv, Transactions, TxInv, AtGuard
<1>3. CASE Rollback(r)
    BY <1>3, Ends DEF ReadTarget
<1>4. CASE At(r, "count")
    <2>1. LET tx == [txs[r] EXCEPT !.at = "count"] IN Held(tx) /\ OtherOwner(tx) /\ Room(tx)
        BY <1>1 DEF TxRecords, Held, OtherOwner, Room
    <2> QED BY <1>1, <1>2, <1>4, <2>1, MovesOn DEF ReadTarget
<1>5. CASE At(r, "write") /\ ~Demotes(txs[r], roles[txs[r].org][txs[r].target])
    <2>1. LET tx == [txs[r] EXCEPT !.at = "write"] IN Held(tx) /\ OtherOwner(tx) /\ Room(tx)
        BY <1>1, <1>5 DEF TxRecords, Held, OtherOwner, Room, Demotes
    <2> QED BY <1>1, <1>5, <2>1, MovesOn DEF ReadTarget
<1> QED BY <1>3, <1>4, <1>5 DEF ReadTarget

\* Who passes the count has seen another owner.
LEMMA CountOwnersInv ==
    ASSUME Inv, NEW r \in Requests, CountOwners(r)
    PROVE  Inv'
<1>1. txs[r] \in TxRecords /\ txs[r] # NoTx
    BY OpenTx DEF CountOwners, Inv
<1>2. CASE Rollback(r)
    BY <1>2, Ends DEF CountOwners
<1> DEFINE seen == {u \in Owners(txs[r].org) : Visible(txs[r].actor, txs[r].org, u)}
<1> HIDE DEF seen
<1>3. CASE At(r, "write") /\ ~LastOwner(Cardinality(seen))
    <2>1. \E u \in Users \ {txs[r].target} : roles[txs[r].org][u] = "owner"
        <3>1. \E u \in seen : u # txs[r].target
            BY <1>3, MoreThanOne
        <3> QED BY <3>1 DEF Owners, seen
    <2>2. LET tx == [txs[r] EXCEPT !.at = "write"] IN Held(tx) /\ OtherOwner(tx) /\ Room(tx)
        BY <1>1, <2>1 DEF TxRecords, Held, OtherOwner, Room
    <2> QED BY <1>1, <1>3, <2>2, MovesOn DEF CountOwners
<1> QED BY <1>2, <1>3 DEF CountOwners, seen

\* The check alone promises nothing to the insert.
LEMMA CheckProjectQuotaInv ==
    ASSUME Inv, NEW r \in Requests, CheckProjectQuota(r)
    PROVE  Inv'
<1>1. txs[r] \in TxRecords /\ txs[r] # NoTx
    BY OpenTx DEF CheckProjectQuota, Inv
<1>2. txs[r].op = "create_project"
    BY <1>1 DEF CheckProjectQuota, Inv, Transactions, TxInv, AtGuard
<1>3. CASE Rollback(r)
    BY <1>3, Ends DEF CheckProjectQuota
<1>4. CASE At(r, "write")
    <2>1. LET tx == [txs[r] EXCEPT !.at = "write"] IN Held(tx) /\ OtherOwner(tx) /\ Room(tx)
        BY <1>1, <1>2 DEF TxRecords, Held, OtherOwner, Room
    <2> QED BY <1>1, <1>4, <2>1, MovesOn DEF CheckProjectQuota
<1> QED BY <1>3, <1>4 DEF CheckProjectQuota

-----------------------------------------------------------------------------
(* The write and the commit *)

\* Waiting for a lock, a transaction keeps what its guard found.
LEMMA BlockInv ==
    ASSUME Inv, NEW r \in Requests, Block(r)
    PROVE  Inv'
<1>1. txs[r] \in TxRecords /\ txs[r] # NoTx
    BY OpenTx DEF Block, Inv
<1>2. TxInv(txs[r])
    BY <1>1 DEF Inv, Transactions
<1>3. CASE Rollback(r)
    BY <1>3, Ends DEF Block
<1>4. CASE At(r, "blocked")
    <2>1. LET tx == [txs[r] EXCEPT !.at = "blocked"] IN Held(tx) /\ OtherOwner(tx) /\ Room(tx)
        BY <1>1, <1>2 DEF Block, TxInv, TxRecords, Held, OtherOwner, Room, Demotes
    <2> QED BY <1>1, <1>4, <2>1, MovesOn DEF Block
<1> QED BY <1>3, <1>4 DEF Block

\* The written row is locked by nobody else.
LEMMA Unlocked ==
    ASSUME TxsTyped, NEW r \in Requests, txs[r] \in TxRecords, ~Locked(r),
           NEW s \in Requests \ {r}, txs[s].at = "commit"
    PROVE  Exclusive(txs[r], txs[s])
<1>1. txs[s] # NoTx
    BY NoTxShape
<1> QED BY <1>1 DEF Locked, Exclusive

\* Writing takes the lock and establishes what the commit needs.
LEMMA WriteInv ==
    ASSUME Inv, NEW r \in Requests, Write(r)
    PROVE  Inv'
<1>1. txs[r] \in TxRecords /\ txs[r] # NoTx
    BY OpenTx DEF Write, Inv
<1>2. TxInv(txs[r])
    BY <1>1 DEF Inv, Transactions
<1>3. CASE Rollback(r)
    BY <1>3, Ends DEF Write
<1>4. CASE At(r, "commit") /\ Applies(txs[r])
    <2> DEFINE tx == [txs[r] EXCEPT !.at = "commit"]
    <2>1. /\ tx.at = "commit" /\ tx.op = txs[r].op /\ tx.org = txs[r].org /\ tx.target = txs[r].target
          /\ tx.role = txs[r].role /\ tx.overtaken = txs[r].overtaken
        BY <1>1 DEF TxRecords
    <2>2. Held(tx) /\ Room(tx)
        BY <1>4, <2>1 DEF Applies, EnforceProjectQuota, Held, Room
    <2>3. OtherOwner(tx)
        <3>1. OtherOwner(txs[r]) /\ txs[r].at \in {"write", "blocked"}
            BY <1>2 DEF TxInv, Write
        <3> QED BY <2>1, <3>1 DEF OtherOwner, Demotes
    <2>4. \A s \in Requests \ {r} : txs[s].at = "commit" => Exclusive(txs[r], txs[s])
        BY <1>1, Unlocked DEF Write, Inv
    <2> QED BY <1>1, <1>4, <2>2, <2>3, <2>4, MovesOn DEF Write
<1> QED BY <1>3, <1>4 DEF Write

\* What a commit can change of the memberships.
LEMMA RolesAfterWhere ==
    ASSUME Tables, NEW tx \in TxRecords, NEW o \in Orgs, NEW u \in Users
    PROVE  \/ RolesAfter(tx)[o][u] = roles[o][u]
           \/ o = tx.org /\ u = tx.target /\ tx.op \in {"invite", "change_role"} /\ RolesAfter(tx)[o][u] = tx.role
           \/ o = tx.org /\ u = tx.target /\ tx.op = "remove" /\ RolesAfter(tx)[o][u] = "none"
           \/ o = tx.org /\ tx.op = "delete_org" /\ RolesAfter(tx)[o][u] = "none"
<1>1. tx.org \in Orgs /\ tx.target \in Users /\ tx.op \in Ops
    BY DEF TxRecords
<1>2. roles \in [Orgs -> [Users -> {"none", "owner"} \cup OfferedRoles]]
    BY DEF Tables
<1>3. CASE tx.op \in {"invite", "change_role"}
    BY <1>1, <1>2, <1>3 DEF RolesAfter
<1>4. CASE tx.op = "remove"
    BY <1>1, <1>2, <1>4 DEF RolesAfter
<1>5. CASE tx.op = "delete_org"
    BY <1>1, <1>2, <1>5 DEF RolesAfter
<1>6. CASE tx.op \notin {"invite", "change_role", "remove", "delete_org"}
    BY <1>6 DEF RolesAfter
<1> QED BY <1>3, <1>4, <1>5, <1>6

\* A commit writes roles that exist.
LEMMA RolesAfterType ==
    ASSUME Tables, NEW tx \in TxRecords
    PROVE  RolesAfter(tx) \in [Orgs -> [Users -> {"none", "owner"} \cup OfferedRoles]]
<1>1. tx.org \in Orgs /\ tx.target \in Users /\ tx.op \in Ops /\ tx.role \in {"none"} \cup OfferedRoles
    BY DEF TxRecords
<1>2. roles \in [Orgs -> [Users -> {"none", "owner"} \cup OfferedRoles]]
    BY DEF Tables
<1>3. CASE tx.op \in {"invite", "change_role"}
    BY <1>1, <1>2, <1>3 DEF RolesAfter
<1>4. CASE tx.op = "remove"
    BY <1>1, <1>2, <1>4 DEF RolesAfter
<1>5. CASE tx.op = "delete_org"
    BY <1>1, <1>2, <1>5 DEF RolesAfter
<1>6. CASE tx.op \notin {"invite", "change_role", "remove", "delete_org"}
    BY <1>2, <1>6 DEF RolesAfter
<1> QED BY <1>3, <1>4, <1>5, <1>6

\* A key keeps its organization, and is never free again.
LEMMA KeysAfterKeeps ==
    ASSUME Tables, NEW tx \in TxRecords, tx.op = "create_key" => \E k \in Keys : keys[k].state = "none"
    PROVE  /\ KeysAfter(tx) \in [Keys -> [state : {"none", "active", "revoked"}, org : {{}} \cup {{o} : o \in Orgs},
                                          user : {{}} \cup {{u} : u \in Users}]]
           /\ \A k \in Keys : keys[k].state # "none"
                 => KeysAfter(tx)[k].state # "none" /\ KeysAfter(tx)[k].org = keys[k].org
<1> DEFINE KeyRecords == [state : {"none", "active", "revoked"}, org : {{}} \cup {{o} : o \in Orgs},
                          user : {{}} \cup {{u} : u \in Users}]
<1>1. keys \in [Keys -> KeyRecords] /\ tx.org \in Orgs /\ tx.actor \in Users
    BY DEF Tables, TxRecords
<1>2. CASE tx.op = "create_key"
    <2> DEFINE new == [state |-> "active", org |-> {tx.org}, user |-> {tx.actor}]
    <2>1. new \in KeyRecords
        BY <1>1
    <2>2. FreshKey \in Keys /\ keys[FreshKey].state = "none"
        BY <1>2 DEF FreshKey
    <2>3. KeysAfter(tx) = [keys EXCEPT ![FreshKey] = new]
        BY <1>2 DEF KeysAfter
    <2> HIDE DEF new, KeyRecords
    <2>4. KeysAfter(tx) \in [Keys -> KeyRecords] /\ \A k \in Keys : k # FreshKey => KeysAfter(tx)[k] = keys[k]
        BY <1>1, <2>1, <2>2, <2>3
    <2> QED BY <2>2, <2>4 DEF KeyRecords
<1>3. CASE tx.op \in {"revoke_key", "delete_org"}
    <2>1. \A k \in Keys : keys[k] \in KeyRecords /\ [keys[k] EXCEPT !.state = "revoked"] \in KeyRecords
                          /\ [keys[k] EXCEPT !.state = "revoked"].org = keys[k].org
                          /\ [keys[k] EXCEPT !.state = "revoked"].state = "revoked"
        BY <1>1
    <2>2. KeysAfter(tx) = [k \in Keys |-> IF k \in tx.key \/ (tx.op = "delete_org" /\ keys[k].org = {tx.org})
                                          THEN [keys[k] EXCEPT !.state = "revoked"] ELSE keys[k]]
        BY <1>3 DEF KeysAfter
    <2> HIDE DEF KeyRecords
    <2>3. KeysAfter(tx) \in [Keys -> KeyRecords]
        BY <2>1, <2>2
    <2>4. \A k \in Keys : keys[k].state # "none"
             => KeysAfter(tx)[k].state # "none" /\ KeysAfter(tx)[k].org = keys[k].org
        BY <2>1, <2>2
    <2> QED BY <2>3, <2>4 DEF KeyRecords
<1>4. CASE tx.op \notin {"create_key", "revoke_key", "delete_org"}
    BY <1>1, <1>4 DEF KeysAfter
<1> QED BY <1>2, <1>3, <1>4

\* A commit changes the projects of its own organization only.
LEMMA ProjectsAfterWhere ==
    ASSUME Tables, NEW tx \in TxRecords
    PROVE  /\ ProjectsAfter(tx) \in [Orgs -> Nat]
           /\ \A o \in Orgs :
                 \/ ProjectsAfter(tx)[o] = projects[o]
                 \/ o = tx.org /\ tx.op = "create_project" /\ ProjectsAfter(tx)[o] = projects[o] + 1
                 \/ o = tx.org /\ tx.op = "delete_org" /\ ProjectsAfter(tx)[o] = 0
<1>1. projects \in [Orgs -> Nat] /\ tx.org \in Orgs
    BY DEF Tables, TxRecords
<1>2. CASE tx.op = "create_project"
    BY <1>1, <1>2 DEF ProjectsAfter
<1>3. CASE tx.op = "delete_org"
    BY <1>1, <1>3 DEF ProjectsAfter
<1>4. CASE tx.op \notin {"create_project", "delete_org"}
    BY <1>1, <1>4 DEF ProjectsAfter
<1> QED BY <1>2, <1>3, <1>4

\* A transaction that goes on while tx commits keeps what it relies on, or is
\* marked as overtaken.
LEMMA OthersKeep ==
    ASSUME Inv, NEW r \in Requests, NEW s \in Requests \ {r}, txs[r] \in TxRecords, txs[s] \in TxRecords,
           NEW other \in TxRecords, Commit(r),
           other = [txs[s] EXCEPT !.overtaken = other.overtaken],
           other.overtaken = (txs[s].overtaken \/ Overtakes(txs[r], txs[s]))
    PROVE  TxInv(other)'
<1> DEFINE tx == txs[r]
<1>1. /\ tx.at = "commit" /\ roles' = RolesAfter(tx) /\ keys' = KeysAfter(tx) /\ projects' = ProjectsAfter(tx)
      /\ orgs' = IF tx.op = "delete_org" THEN orgs \ {tx.org} ELSE orgs
      /\ registered' = registered /\ Tables
    BY DEF Commit, Inv
<1>2. TxInv(txs[s]) /\ TxInv(tx)
    BY NoTxShape DEF Inv, Transactions
<1>3. /\ other.at = txs[s].at /\ other.op = txs[s].op /\ other.via = txs[s].via /\ other.org = txs[s].org
      /\ other.target = txs[s].target /\ other.role = txs[s].role /\ other.org \in Orgs /\ other.target \in Users
      /\ other.via \in SUBSET Keys
    BY DEF TxRecords
<1>4. other.at = "commit" => Exclusive(tx, txs[s])
    BY <1>1, <1>3 DEF Inv, Locks
<1>5. (other.org \in registered /\ AtGuard(other))'
    BY <1>1, <1>2, <1>3 DEF TxInv, AtGuard
<1>6. KeysOf(other)'
    <2>1. \A k \in Keys : keys[k].state # "none" => keys'[k].state # "none" /\ keys'[k].org = keys[k].org
        BY <1>1, KeysAfterKeeps DEF Commit
    <2> QED BY <1>2, <1>3, <2>1 DEF TxInv, KeysOf
<1>7. Held(other)'
    <2> SUFFICES ASSUME other.at = "commit"
                 PROVE  other.org \in orgs' /\ (other.op = "invite" => roles'[other.org][other.target] = "none")
        BY DEF Held
    <2>1. other.org \in orgs'
        BY <1>1, <1>2, <1>3, <1>4 DEF TxInv, Held, Exclusive
    <2>2. ASSUME other.op = "invite" PROVE roles'[other.org][other.target] = "none"
        <3>1. roles[other.org][other.target] = "none"
            BY <1>2, <1>3, <2>2 DEF TxInv, Held
        <3>2. \/ RolesAfter(tx)[other.org][other.target] \in {roles[other.org][other.target], "none"}
              \/ tx.org = other.org /\ tx.target = other.target /\ tx.op \in {"invite", "change_role"}
            BY <1>1, <1>3, RolesAfterWhere
        <3> QED BY <1>1, <1>3, <1>4, <2>2, <3>1, <3>2 DEF Exclusive, MemberOps
    <2> QED BY <2>1, <2>2
<1>8. OtherOwner(other)'
    <2> SUFFICES ASSUME other.op \in {"change_role", "remove"}, other.at \in {"write", "blocked", "commit"},
                        ~other.overtaken, Demotes(other, roles'[other.org][other.target])
                 PROVE  \E u \in Users \ {other.target} : roles'[other.org][u] = "owner"
        BY DEF OtherOwner, Demotes
    <2>1. \A u \in Users : (roles[other.org][u] = "owner") = (roles'[other.org][u] = "owner")
        <3>1. CASE other.org = tx.org
            <4>1. ~Overtakes(tx, txs[s]) /\ txs[s] # NoTx
                BY NoTxShape
            <4> QED BY <1>1, <1>3, <3>1, <4>1 DEF Overtakes
        <3>2. CASE other.org # tx.org
            BY <1>1, <1>3, <3>2, RolesAfterWhere
        <3> QED BY <3>1, <3>2
    <2>2. Demotes(txs[s], roles[txs[s].org][txs[s].target])
        BY <1>3, <2>1 DEF Demotes
    <2>3. \E u \in Users \ {txs[s].target} : roles[txs[s].org][u] = "owner"
        BY <1>2, <1>3, <2>2 DEF TxInv, OtherOwner
    <2> QED BY <1>3, <2>1, <2>3
<1>9. Room(other)'
    <2> SUFFICES ASSUME other.op = "create_project", other.at = "commit", ~other.overtaken
                 PROVE  projects'[other.org] + 1 <= MaxProjects
        BY DEF Room
    <2>1. projects[other.org] + 1 <= MaxProjects
        BY <1>2, <1>3 DEF TxInv, Room
    <2>2. ~(other.org = tx.org /\ tx.op = "create_project")
        <3>1. ~Overtakes(tx, txs[s]) /\ txs[s] # NoTx
            BY NoTxShape
        <3> QED BY <1>3, <3>1 DEF Overtakes
    <2>3. projects'[other.org] \in {projects[other.org], 0}
        BY <1>1, <1>3, <2>2, ProjectsAfterWhere
    <2>4. projects[other.org] \in Nat
        BY <1>1, <1>3 DEF Tables
    <2> QED BY <2>1, <2>3, <2>4, TenancyAssumption
<1> QED BY <1>5, <1>6, <1>7, <1>8, <1>9 DEF TxInv

\* The tables after a commit.
LEMMA CommitTables ==
    ASSUME Inv, NEW r \in Requests, txs[r] \in TxRecords, Commit(r)
    PROVE  Tables'
<1> DEFINE tx == txs[r]
<1>1. /\ tx.at = "commit" /\ roles' = RolesAfter(tx) /\ keys' = KeysAfter(tx) /\ projects' = ProjectsAfter(tx)
      /\ orgs' = IF tx.op = "delete_org" THEN orgs \ {tx.org} ELSE orgs
      /\ registered' = registered /\ Tables /\ TxInv(tx)
    BY NoTxShape DEF Commit, Inv, Transactions
<1>2. roles' \in [Orgs -> [Users -> {"none", "owner"} \cup OfferedRoles]] /\ projects' \in [Orgs -> Nat]
    BY <1>1, RolesAfterType, ProjectsAfterWhere
<1>3. keys' \in [Keys -> [state : {"none", "active", "revoked"}, org : {{}} \cup {{o} : o \in Orgs},
                          user : {{}} \cup {{u} : u \in Users}]]
    BY <1>1, KeysAfterKeeps DEF Commit
<1>4. ASSUME NEW o \in Orgs \ orgs' PROVE projects'[o] = 0 /\ \A u \in Users : roles'[o][u] = "none"
    <2>1. CASE o \notin orgs
        <3>1. o # tx.org
            BY <1>1, <2>1 DEF TxInv, Held
        <3>2. projects[o] = 0 /\ \A u \in Users : roles[o][u] = "none"
            BY <1>1, <2>1 DEF Tables
        <3> QED BY <1>1, <3>1, <3>2, RolesAfterWhere, ProjectsAfterWhere
    <2>2. CASE o \in orgs
        <3>1. o = tx.org /\ tx.op = "delete_org"
            BY <1>1, <1>4, <2>2
        <3>2. roles \in [Orgs -> [Users -> {"none", "owner"} \cup OfferedRoles]] /\ projects \in [Orgs -> Nat]
            BY <1>1 DEF Tables
        <3> QED BY <1>1, <3>1, <3>2 DEF RolesAfter, ProjectsAfter
    <2> QED BY <2>1, <2>2
<1>5. registered' \in SUBSET Users /\ orgs' \in SUBSET registered'
    BY <1>1 DEF Tables
<1> QED BY <1>2, <1>3, <1>4, <1>5 DEF Tables

\* An owner is left unless the owners changed under the guard.
LEMMA CommitOwners ==
    ASSUME Inv, NEW r \in Requests, txs[r] \in TxRecords, Commit(r)
    PROVE  OwnerlessOnlyByRace'
<1> DEFINE tx == txs[r]
<1>1. /\ tx.at = "commit" /\ roles' = RolesAfter(tx)
      /\ orgs' = IF tx.op = "delete_org" THEN orgs \ {tx.org} ELSE orgs
      /\ raced' = IF tx.overtaken /\ tx.op # "create_project" THEN raced \cup {tx.org} ELSE raced
      /\ Tables /\ TxInv(tx)
    BY NoTxShape DEF Commit, Inv, Transactions
<1> SUFFICES ASSUME NEW o \in orgs', \A u \in Users : roles'[o][u] # "owner", o \notin raced' PROVE FALSE
    BY DEF OwnerlessOnlyByRace, Owners
<1>2. o \in orgs /\ o \in Orgs /\ o \notin raced
    BY <1>1 DEF Tables, Orgs
<1>3. PICK u \in Users : roles[o][u] = "owner"
    BY <1>2 DEF Inv, OwnerlessOnlyByRace, Owners
<1>4. /\ o = tx.org /\ u = tx.target
      /\ \/ tx.op \in {"invite", "change_role"} /\ roles'[o][u] = tx.role
         \/ tx.op = "remove"
    BY <1>1, <1>2, <1>3, RolesAfterWhere
<1>5. tx.op # "invite"
    BY <1>1, <1>3, <1>4 DEF TxInv, Held
<1>6. ~tx.overtaken /\ Demotes(tx, roles[tx.org][tx.target])
    BY <1>1, <1>3, <1>4, <1>5 DEF Demotes
<1>7. PICK v \in Users \ {tx.target} : roles[tx.org][v] = "owner"
    BY <1>1, <1>4, <1>5, <1>6 DEF TxInv, OtherOwner
<1>8. roles'[o][v] = roles[o][v]
    BY <1>1, <1>2, <1>4, <1>7, RolesAfterWhere
<1> QED BY <1>4, <1>7, <1>8

\* The quota holds unless another project came between the count and the commit.
LEMMA CommitProjects ==
    ASSUME Inv, NEW r \in Requests, txs[r] \in TxRecords, Commit(r)
    PROVE  ProjectsOverOnlyByRace'
<1> DEFINE tx == txs[r]
<1>1. /\ tx.at = "commit" /\ projects' = ProjectsAfter(tx)
      /\ orgs' = IF tx.op = "delete_org" THEN orgs \ {tx.org} ELSE orgs
      /\ crowded' = IF tx.overtaken /\ tx.op = "create_project" THEN crowded \cup {tx.org} ELSE crowded
      /\ Tables /\ TxInv(tx)
    BY NoTxShape DEF Commit, Inv, Transactions
<1> SUFFICES ASSUME NEW o \in orgs', projects'[o] > MaxProjects, o \notin crowded' PROVE FALSE
    BY DEF ProjectsOverOnlyByRace
<1>2. o \in orgs /\ o \in Orgs /\ o \notin crowded
    BY <1>1 DEF Tables, Orgs
<1>3. ~(projects[o] > MaxProjects) /\ projects[o] \in Nat /\ MaxProjects \in Nat
    BY <1>1, <1>2, TenancyAssumption DEF Inv, ProjectsOverOnlyByRace, Tables
<1>4. o = tx.org /\ tx.op = "create_project" /\ projects'[o] = projects[o] + 1
    BY <1>1, <1>2, <1>3, ProjectsAfterWhere
<1>5. projects[o] + 1 <= MaxProjects
    BY <1>1, <1>4 DEF TxInv, Room
<1> QED BY <1>3, <1>4, <1>5

\* A commit keeps the invariant, marking those it overtakes.
LEMMA CommitInv ==
    ASSUME Inv, NEW r \in Requests, Commit(r)
    PROVE  Inv'
<1>1. txs[r] \in TxRecords /\ txs[r] # NoTx
    BY OpenTx DEF Commit, Inv
<1>2. Tables' /\ OwnerlessOnlyByRace' /\ ProjectsOverOnlyByRace' /\ served' \in 0..MaxServed
    BY <1>1, CommitTables, CommitOwners, CommitProjects DEF Commit, Inv
<1>3. ASSUME NEW s \in Requests \ {r}, txs[s] # NoTx
      PROVE  /\ txs'[s] \in TxRecords
             /\ txs'[s] = [txs[s] EXCEPT !.overtaken = txs'[s].overtaken]
             /\ txs'[s].overtaken = (txs[s].overtaken \/ Overtakes(txs[r], txs[s]))
    <2>1. txs[s] \in TxRecords
        BY <1>3 DEF Inv, TxsTyped
    <2>2. txs'[s] = IF Overtakes(txs[r], txs[s]) THEN [txs[s] EXCEPT !.overtaken = TRUE] ELSE txs[s]
        BY <1>3 DEF Commit
    <2>3. CASE Overtakes(txs[r], txs[s])
        BY <2>1, <2>2, <2>3 DEF TxRecords
    <2>4. CASE ~Overtakes(txs[r], txs[s])
        BY <2>1, <2>2, <2>4 DEF TxRecords
    <2> QED BY <2>3, <2>4
<1>4. \A s \in Requests : txs[s] = NoTx => txs'[s] = NoTx
    BY DEF Commit, Overtakes
<1>5. txs'[r] = NoTx
    BY DEF Commit
<1>6. TxsTyped'
    <2>1. \A s \in Requests : txs'[s] \in {NoTx} \cup TxRecords
        BY <1>3, <1>4, <1>5
    <2>2. txs' = [s \in Requests |-> txs'[s]]
        BY DEF Commit
    <2> QED BY <2>1, <2>2 DEF TxsTyped
<1>7. Transactions'
    <2> SUFFICES ASSUME NEW s \in Requests, txs'[s] # NoTx PROVE TxInv(txs[s])'
        BY DEF Transactions
    <2>1. s # r /\ txs[s] # NoTx
        BY <1>4, <1>5
    <2>2. txs[s] \in TxRecords
        BY <2>1 DEF Inv, TxsTyped
    <2>3. PICK other \in TxRecords : other = txs'[s]
        BY <1>3, <2>1
    <2>4. TxInv(other)'
        BY <1>1, <1>3, <2>1, <2>2, <2>3, OthersKeep
    <2> QED BY <2>3, <2>4 DEF TxInv, AtGuard, KeysOf, Held, OtherOwner, Room
<1>8. Locks'
    <2> SUFFICES ASSUME NEW a \in Requests, NEW b \in Requests, a # b, txs'[a].at = "commit", txs'[b].at = "commit"
                 PROVE  Exclusive(txs'[a], txs'[b])
        BY DEF Locks, Exclusive
    <2>1. \A s \in Requests : txs'[s].at = "commit" =>
             /\ txs[s].at = "commit" /\ txs'[s].op = txs[s].op /\ txs'[s].org = txs[s].org
             /\ txs'[s].target = txs[s].target
        <3>1. ASSUME NEW s \in Requests, txs'[s].at = "commit"
              PROVE  /\ txs[s].at = "commit" /\ txs'[s].op = txs[s].op /\ txs'[s].org = txs[s].org
                     /\ txs'[s].target = txs[s].target
            <4>1. s # r /\ txs[s] # NoTx
                BY <1>4, <1>5, <3>1, NoTxShape
            <4>2. txs[s] \in TxRecords
                BY <4>1 DEF Inv, TxsTyped
            <4>3. txs'[s] = [txs[s] EXCEPT !.overtaken = txs'[s].overtaken]
                BY <1>3, <4>1
            <4> QED BY <3>1, <4>2, <4>3 DEF TxRecords
        <3> QED BY <3>1
    <2>2. Exclusive(txs[a], txs[b])
        BY <2>1 DEF Inv, Locks
    <2> QED BY <2>1, <2>2 DEF Exclusive
<1>9. Acts'
    <2>1. \A k \in Keys : keys[k].state # "none" => keys'[k].state # "none" /\ keys'[k].org = keys[k].org
        BY <1>1, KeysAfterKeeps DEF Commit, Inv
    <2>2. \A k \in txs[r].via : k \in Keys /\ keys[k].state # "none" /\ keys[k].org = {txs[r].org}
        BY <1>1 DEF Inv, Transactions, TxInv, KeysOf, TxRecords
    <2>3. keyActs' = keyActs \cup {<<k, txs[r].org>> : k \in txs[r].via}
        BY DEF Commit
    <2> QED BY <2>1, <2>2, <2>3 DEF Inv, Acts
<1> QED BY <1>2, <1>6, <1>7, <1>8, <1>9 DEF Inv

-----------------------------------------------------------------------------
(* Signup *)

\* A new organization has its owner.
LEMMA SignupInv ==
    ASSUME Inv, NEW u \in Users, Signup(u)
    PROVE  Inv'
<1>1. /\ u \notin registered /\ registered' = registered \cup {u} /\ orgs' = orgs \cup {u}
      /\ roles' = [roles EXCEPT ![u][u] = "owner"]
      /\ UNCHANGED <<keys, projects, txs, served, raced, crowded, keyActs>> /\ Tables /\ u \in Orgs
    BY DEF Signup, history, Inv, Orgs
<1>2. \A o \in Orgs, v \in Users : roles'[o][v] = IF o = u /\ v = u THEN "owner" ELSE roles[o][v]
    BY <1>1 DEF Tables
<1>3. Tables'
    <2>1. roles' \in [Orgs -> [Users -> {"none", "owner"} \cup OfferedRoles]]
        BY <1>1 DEF Tables
    <2> QED BY <1>1, <1>2, <2>1 DEF Tables
<1>4. OwnerlessOnlyByRace'
    <2>1. orgs \subseteq Orgs
        BY <1>1 DEF Tables, Orgs
    <2>2. \A o \in orgs : o # u
        BY <1>1 DEF Tables
    <2> QED BY <1>1, <1>2, <2>1, <2>2 DEF Inv, OwnerlessOnlyByRace, Owners
<1>5. ProjectsOverOnlyByRace'
    <2>1. projects[u] = 0
        BY <1>1 DEF Tables
    <2> QED BY <1>1, <2>1, TenancyAssumption DEF Inv, ProjectsOverOnlyByRace
<1>6. Transactions'
    <2> SUFFICES ASSUME NEW s \in Requests, txs[s] # NoTx PROVE TxInv(txs[s])'
        BY <1>1 DEF Transactions
    <2>1. txs[s] \in TxRecords /\ TxInv(txs[s])
        BY DEF Inv, TxsTyped, Transactions
    <2>2. txs[s].org \in Orgs /\ txs[s].target \in Users /\ txs[s].org # u
        BY <1>1, <2>1 DEF TxRecords, TxInv
    <2>3. \A v \in Users : roles'[txs[s].org][v] = roles[txs[s].org][v]
        BY <1>2, <2>2
    <2> QED BY <1>1, <2>1, <2>2, <2>3 DEF TxInv, AtGuard, KeysOf, Held, OtherOwner, Room
<1> QED BY <1>1, <1>3, <1>4, <1>5, <1>6 DEF Inv, TxsTyped, Locks, Acts, Exclusive

-----------------------------------------------------------------------------
(* The theorems *)

\* There are no organizations.
LEMMA InitInv == Init => Inv
<1> SUFFICES ASSUME Init PROVE Inv
    OBVIOUS
<1>1. Tables /\ served \in 0..MaxServed
    BY TenancyAssumption DEF Init, Tables, NoKey, Orgs
<1>2. TxsTyped /\ Transactions /\ Locks
    BY NoTxShape DEF Init, TxsTyped, Transactions, Locks
<1> QED BY <1>1, <1>2 DEF Init, Inv, Acts, OwnerlessOnlyByRace, ProjectsOverOnlyByRace

\* Every step keeps the invariant.
LEMMA NextInv == Inv /\ [Next]_vars => Inv'
<1> SUFFICES ASSUME Inv, [Next]_vars PROVE Inv'
    OBVIOUS
<1>1. ASSUME NEW r \in Requests, Abort(r) PROVE Inv'
    BY <1>1, Ends DEF Abort
<1>2. CASE Next
    BY <1>1, <1>2, SignupInv, BeginInv, ReadTargetInv, CountOwnersInv, CheckProjectQuotaInv, WriteInv, BlockInv,
       CommitInv DEF Next
<1>3. CASE UNCHANGED vars
    BY <1>3 DEF vars, rows, history, Inv, Tables, TxsTyped, Transactions, TxInv, AtGuard, KeysOf, Held, OtherOwner,
                Room, Locks, Acts, OwnerlessOnlyByRace, ProjectsOverOnlyByRace, Owners
<1> QED BY <1>2, <1>3

\* The inductive invariant holds in every reachable state.
LEMMA Always == Spec => []Inv
BY InitInv, NextInv, PTL DEF Spec

\* The tables and the transactions have their types; in particular nothing is
\* left of, and nothing is written into, an organization that was deleted.
THEOREM TypeCorrect == Spec => []TypeOK
<1>1. Inv => TypeOK
    <2> SUFFICES ASSUME Inv PROVE TypeOK
        OBVIOUS
    <2>1. \A r \in Requests : txs[r] = NoTx \/ txs[r] \in TxRecords
        BY DEF Inv, TxsTyped
    <2> QED BY <2>1 DEF Inv, Tables, TypeOK, TxRecords
<1> QED BY <1>1, Always, PTL

\* CountOwners protects the last owner of every organization, for any number
\* of members and routes in flight, except when the owners it counted changed
\* before its transaction committed.
THEOREM LastOwnerKept == Spec => []OwnerlessOnlyByRace
<1>1. Inv => OwnerlessOnlyByRace
    BY DEF Inv
<1> QED BY <1>1, Always, PTL

\* An organization exceeds its project quota only when another project was
\* committed between the trigger's count and the commit of its transaction.
THEOREM ProjectQuotaKept == Spec => []ProjectsOverOnlyByRace
<1>1. Inv => ProjectsOverOnlyByRace
    BY DEF Inv
<1> QED BY <1>1, Always, PTL

\* An API key never changes another organization than its own: it is checked
\* once per request, and no key moves or is created anew while one is served.
THEOREM KeysStayHome == Spec => []KeyConfined
<1>1. Inv => KeyConfined
    BY DEF Inv, Acts, KeyConfined
<1> QED BY <1>1, Always, PTL

=============================================================================
