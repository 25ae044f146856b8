---------------------------- MODULE ControlPlane ----------------------------
(***************************************************************************)
(* The control plane of one tenant: the authorization policy of            *)
(* services/control-plane/src/authorization.mjs, and the owner counter the *)
(* database keeps with the trigger preserve_final_owner of migration       *)
(* 0001_control_plane.sql.                                                 *)
(*                                                                         *)
(* The repository holds the policy and the schema, no handler yet: the     *)
(* transactions are what the two READMEs prescribe, "ask the policy, then  *)
(* change the rows in a transaction of the database".  A transaction asks  *)
(* on what is committed, and by the time it has its locks that may be old. *)
(* A request that the policy refuses changes nothing and is not a step.    *)
(*                                                                         *)
(* PostgreSQL at READ COMMITTED: a row that one transaction has written is *)
(* locked until that transaction ends; a statement that waited for the     *)
(* lock sees the row as it was committed last; the other transactions see  *)
(* committed rows only.  An assignment of a role that is not revoked is    *)
(* the pair of its member and its role, which the UNIQUE of the table      *)
(* allows once; revoked rows are left out.                                 *)
(***************************************************************************)
EXTENDS Integers, FiniteSets

CONSTANTS
  Members,        \* the memberships of the tenant
  Founder,        \* the member the tenant is bootstrapped with as its owner
  Requested,      \* bound: the roles that requests assign and revoke
  Transactions,   \* the concurrent transactions of the database
  Prerequisites,  \* what a lease rests on: host, device key, pairing, grant
  Paired,         \* the member the pairing belongs to
  MaximumLease,   \* maximumLeaseLifetimeSeconds
  Horizon,        \* bound: the clock stops here
  Quota           \* the units the paired member has at the start

ASSUME ControlPlaneAssumption ==
  /\ Founder \in Members
  /\ Paired \in Members
  /\ Requested \subseteq {"owner", "admin", "operator", "auditor"}
  /\ MaximumLease \in Nat
  /\ Horizon \in Nat
  /\ Quota \in Nat

VARIABLES
  tenant,       \* the tenant's row as committed: its state and owner counter
  membership,   \* the state of each membership
  held,         \* the committed assignments that are not revoked
  tx,           \* what each transaction is doing
  clock,        \* the server's clock
  until,        \* each prerequisite: the first second it no longer holds
  quota,        \* the units left to the paired member
  leases        \* the leases issued

vars == <<tenant, membership, held, tx, clock, until, quota, leases>>
owners == <<tenant, membership, held, tx>>
leasing == <<clock, until, quota, leases>>

-----------------------------------------------------------------------------
(* The policy.  What is checked first is refused first, but every refusal  *)
(* has the same effect: the codes and statuses are left out.  Identities   *)
(* are always resolved here, and all of them belong to this tenant.        *)

Roles == {"owner", "admin", "operator", "auditor"}

Manages == {"membership.read", "role.assign", "role.revoke", "host.read",
            "host.manage", "device_key.manage", "pairing.create",
            "pairing.revoke", "lease.issue", "audit.read"}

Permissions ==
  [owner    |-> Manages,
   admin    |-> Manages,
   operator |-> {"host.read", "pairing.create", "pairing.revoke",
                 "lease.issue"},
   auditor  |-> {"host.read", "audit.read"}]

AdminManaged == {"operator", "auditor"}

RolesOf(m) == {r \in Roles : <<m, r>> \in held}

\* An actor of this tenant, active in an active tenant, with a role for it.
Authorized(actor, action) ==
  /\ membership[actor] = "active"
  /\ tenant.state = "active"
  /\ \E r \in RolesOf(actor) : action \in Permissions[r]

MayMutate(actor, target, role) ==
  /\ membership[target] = "active"
  /\ "owner" \in RolesOf(actor) \/ role \in AdminManaged

\* Mutant: the end of the entitlement is not looked at.
MayLeaseLapsed(actor, ttl, units) ==
  /\ ttl >= 1 /\ ttl <= MaximumLease
  /\ units >= 1
  /\ \A p \in Prerequisites \ {"entitlement"} : until[p] > clock
  /\ actor = Paired
  /\ quota >= units

\* authorizeLease: the host and the key, then the pairing, then the grant,
\* then the quota; each holds at its start and no longer at its end.
MayLease(actor, ttl, units) ==
  /\ ttl >= 1 /\ ttl <= MaximumLease
  /\ units >= 1
  /\ \A p \in Prerequisites : until[p] > clock
  /\ actor = Paired
  /\ quota >= units

-----------------------------------------------------------------------------
(* Transactions                                                            *)

Idle == [phase |-> "idle"]

Busy(t) == tx[t].phase # "idle"

\* The transaction has found the row it revokes and not ended yet.
Locks(t, row) ==
  /\ tx[t].phase \in {"row", "counted"}
  /\ tx[t].change = "revoke"
  /\ tx[t].row = row

RowFree(row) == \A t \in Transactions : ~Locks(t, row)

\* The tenant's row is locked by who has changed it and has not ended.
TenantFree == \A t \in Transactions : tx[t].phase \notin {"counted", "closing"}

\* The handler has asked the policy about what it read.
Ask(t, actor, target, role, change) ==
  /\ ~Busy(t)
  /\ Authorized(actor, IF change = "assign" THEN "role.assign"
                                            ELSE "role.revoke")
  /\ MayMutate(actor, target, role)
  /\ tx' = [tx EXCEPT ![t] = [phase |-> "asked", change |-> change,
                              row |-> <<target, role>>]]
  /\ UNCHANGED <<tenant, membership, held, leasing>>

\* The statement finds its row and locks it: the row that a revocation is to
\* change is read again once it is locked; an insertion has no row yet.
LockRow(t) ==
  /\ tx[t].phase = "asked"
  /\ tx[t].change = "revoke" => RowFree(tx[t].row)
  /\ tx' = [tx EXCEPT ![t] =
              IF tx[t].change = "revoke" /\ tx[t].row \notin held
              THEN Idle
              ELSE [@ EXCEPT !.phase = "row"]]
  /\ UNCHANGED <<tenant, membership, held, leasing>>

\* Mutant: the trigger does not count a revocation.
DeltaOfInsert(change, row) ==
  IF row[2] = "owner" /\ change = "assign" THEN 1 ELSE 0

\* owner_delta of the trigger.
Delta(change, row) ==
  IF row[2] # "owner" THEN 0 ELSE IF change = "assign" THEN 1 ELSE -1

\* The WHERE of the trigger's UPDATE, on the tenant's row as it is now.
MayCount(delta) ==
  delta < 0 => /\ tenant.owners >= -delta
               /\ tenant.state = "closed" \/ tenant.owners + delta >= 1

\* Mutant: the trigger does not wait for the tenant's row.
CountUnlocked(t) ==
  LET delta == Delta(tx[t].change, tx[t].row)
  IN  /\ tx[t].phase = "row"
      /\ delta # 0
      /\ tx' = [tx EXCEPT ![t] = IF MayCount(delta)
                                 THEN [@ EXCEPT !.phase = "counted"]
                                 ELSE Idle]
      /\ UNCHANGED <<tenant, membership, held, leasing>>

\* The trigger counts the owner, or raises, which ends the transaction.  A
\* change that is not about owners does not touch the tenant's row.
Count(t) ==
  LET delta == Delta(tx[t].change, tx[t].row)
  IN  /\ tx[t].phase = "row"
      /\ delta # 0
      /\ TenantFree
      /\ tx' = [tx EXCEPT ![t] = IF MayCount(delta)
                                 THEN [@ EXCEPT !.phase = "counted"]
                                 ELSE Idle]
      /\ UNCHANGED <<tenant, membership, held, leasing>>

\* The row is written and the transaction commits.  An insertion first waits
\* for the others that insert the same pair, and fails if one is there.
Commit(t) ==
  LET row == tx[t].row
  IN  /\ \/ tx[t].phase = "counted"
         \/ tx[t].phase = "row" /\ Delta(tx[t].change, row) = 0
      /\ tx[t].change = "assign" => row \notin held
      /\ held' = IF tx[t].change = "assign" THEN held \cup {row}
                                            ELSE held \ {row}
      /\ tenant' = [tenant EXCEPT !.owners = @ + Delta(tx[t].change, row)]
      /\ tx' = [tx EXCEPT ![t] = Idle]
      /\ UNCHANGED <<membership, leasing>>

\* The UNIQUE is violated, the connection is lost or the server stops.
Rollback(t) ==
  /\ Busy(t)
  /\ tx' = [tx EXCEPT ![t] = Idle]
  /\ UNCHANGED <<tenant, membership, held, leasing>>

\* Another transaction closes, suspends or resumes the tenant.
LockTenant(t) ==
  /\ ~Busy(t)
  /\ tenant.state # "closed"
  /\ TenantFree
  /\ tx' = [tx EXCEPT ![t] = [phase |-> "closing"]]
  /\ UNCHANGED <<tenant, membership, held, leasing>>

ChangeTenant(t, state) ==
  /\ tx[t].phase = "closing"
  /\ tenant' = [tenant EXCEPT !.state = state]
  /\ tx' = [tx EXCEPT ![t] = Idle]
  /\ UNCHANGED <<membership, held, leasing>>

ChangeMember(m, state) ==
  /\ membership[m] # state
  /\ membership' = [membership EXCEPT ![m] = state]
  /\ UNCHANGED <<tenant, held, tx, leasing>>

-----------------------------------------------------------------------------
(* Leases                                                                  *)

IssueLease(actor, ttl, units) ==
  /\ Authorized(actor, "lease.issue")
  /\ MayLease(actor, ttl, units)
  /\ leases' = leases \cup {clock + ttl}
  /\ quota' = quota - units
  /\ UNCHANGED <<owners, clock, until>>

\* The host is disabled, the key or the pairing revoked, the grant ended.
Lapse(p) ==
  /\ until[p] > clock
  /\ until' = [until EXCEPT ![p] = clock]
  /\ UNCHANGED <<owners, clock, quota, leases>>

Tick ==
  /\ clock < Horizon
  /\ clock' = clock + 1
  /\ UNCHANGED <<owners, until, quota, leases>>

-----------------------------------------------------------------------------
MembershipStates == {"active", "suspended"}
TenantStates == {"active", "suspended", "closed"}
Changes == {"assign", "revoke"}

\* The bootstrap has committed: the founder is the owner and is counted.
Init ==
  /\ tenant = [state |-> "active", owners |-> 1]
  /\ membership = [m \in Members |-> "active"]
  /\ held = {<<Founder, "owner">>}
  /\ tx = [t \in Transactions |-> Idle]
  /\ clock = 0
  /\ until = [p \in Prerequisites |-> Horizon + 1]
  /\ quota = Quota
  /\ leases = {}

Next ==
  \/ \E t \in Transactions, actor, target \in Members, role \in Requested,
        change \in Changes : Ask(t, actor, target, role, change)
  \/ \E t \in Transactions : LockRow(t)
  \/ \E t \in Transactions : Count(t)
  \/ \E t \in Transactions : Commit(t)
  \/ \E t \in Transactions : Rollback(t)
  \/ \E t \in Transactions : LockTenant(t)
  \/ \E t \in Transactions, state \in TenantStates : ChangeTenant(t, state)
  \/ \E m \in Members, state \in MembershipStates : ChangeMember(m, state)
  \/ \E actor \in Members, ttl \in 0..MaximumLease + 1, units \in 0..1 :
        IssueLease(actor, ttl, units)
  \/ \E p \in Prerequisites : Lapse(p)
  \/ Tick

Spec == Init /\ [][Next]_vars

-----------------------------------------------------------------------------
Rows == Members \X Roles

TransactionStates ==
  {Idle, [phase |-> "closing"]} \cup
  [phase : {"asked", "row", "counted"}, change : Changes, row : Rows]

\* The types of the variables.  The counter is a natural number: the CHECK of
\* its column would otherwise abort the transaction that made it negative.
TypeOK ==
  /\ tenant \in [state : TenantStates, owners : Nat]
  /\ membership \in [Members -> MembershipStates]
  /\ held \subseteq Rows
  /\ tx \in [Transactions -> TransactionStates]
  /\ clock \in 0..Horizon
  /\ until \in [Prerequisites -> 0..Horizon + 1]
  /\ quota \in 0..Quota
  /\ leases \subseteq 0..Horizon + MaximumLease

OwnerRows == {row \in held : row[2] = "owner"}

\* The counter on the tenant's row is the number of its owner assignments,
\* after any interleaving of assignments, revocations and rollbacks.
OwnersCounted == tenant.owners = Cardinality(OwnerRows)

\* A tenant that is not closed has an owner, although transactions that each
\* saw two owners may revoke both at once.
OwnerRemains == tenant.state # "closed" => OwnerRows # {}

\* A lease that was issued lasts at most one maximal lease longer than the
\* host, the key, the pairing and the grant it was issued on.
LeasesEndSoon ==
  \A ends \in leases, p \in Prerequisites : ends <= until[p] + MaximumLease

=============================================================================
