------------------------- MODULE ControlPlaneProofs -------------------------
(***************************************************************************)
(* The owner counter, the final owner and the end of leases, for any       *)
(* number of members, concurrent transactions, prerequisites and seconds.  *)
(***************************************************************************)
EXTENDS ControlPlane, FiniteSetTheorems, TLAPS

(* The transaction t has changed the tenant's row, or is about to.         *)
HoldsTenant(t) == tx[t].phase \in {"counted", "closing"}

(* What a transaction that is under way has found and still holds for it,  *)
(* because of the locks it has.                                            *)
Found(t) ==
  /\ tx[t].phase \in {"row", "counted"} /\ tx[t].change = "revoke"
       => tx[t].row \in held
  /\ tx[t].phase = "counted" => tx[t].row[2] = "owner"
  /\ tx[t].phase = "counted" /\ tx[t].change = "revoke"
       => tenant.owners >= 1 /\ (tenant.state = "closed" \/ tenant.owners >= 2)
  /\ tx[t].phase = "closing" => tenant.state # "closed"

(* The strengthening that is inductive: the tenant's row is held by one    *)
(* transaction, and so is each row that is being revoked.                  *)
IInv ==
  /\ TypeOK
  /\ IsFiniteSet(held)
  /\ OwnersCounted
  /\ tenant.state # "closed" => tenant.owners >= 1
  /\ \A t \in Transactions : Found(t)
  /\ \A t, u \in Transactions : HoldsTenant(t) /\ HoldsTenant(u) => t = u
  /\ \A t, u \in Transactions : Locks(t, tx[t].row) /\ Locks(u, tx[t].row) => t = u
  /\ \A ends \in leases : ends <= clock + MaximumLease
  /\ LeasesEndSoon

(* Granting a role counts an owner exactly when the role is owner.         *)
LEMMA OwnerGranted ==
  ASSUME IsFiniteSet(held), NEW row \in Rows, row \notin held,
         held' = held \cup {row}
  PROVE  /\ IsFiniteSet(held')
         /\ Cardinality(OwnerRows') =
              Cardinality(OwnerRows) + (IF row[2] = "owner" THEN 1 ELSE 0)
         /\ Cardinality(OwnerRows) \in Nat
<1>1. IsFiniteSet(OwnerRows)
  BY FS_Subset DEF OwnerRows
<1>2. IsFiniteSet(held')
  BY FS_AddElement
<1>3. OwnerRows' = IF row[2] = "owner" THEN OwnerRows \cup {row} ELSE OwnerRows
  BY DEF OwnerRows
<1>4. row \notin OwnerRows
  BY DEF OwnerRows
<1> QED
  BY <1>1, <1>2, <1>3, <1>4, FS_AddElement, FS_CardinalityType

(* And taking it away.                                                     *)
LEMMA OwnerRevoked ==
  ASSUME IsFiniteSet(held), NEW row \in Rows, row \in held,
         held' = held \ {row}
  PROVE  /\ IsFiniteSet(held')
         /\ Cardinality(OwnerRows') =
              Cardinality(OwnerRows) - (IF row[2] = "owner" THEN 1 ELSE 0)
         /\ Cardinality(OwnerRows) \in Nat
<1>1. IsFiniteSet(OwnerRows)
  BY FS_Subset DEF OwnerRows
<1>2. IsFiniteSet(held')
  BY FS_RemoveElement
<1>3. OwnerRows' = IF row[2] = "owner" THEN OwnerRows \ {row} ELSE OwnerRows
  BY DEF OwnerRows
<1>4. row[2] = "owner" => row \in OwnerRows
  BY DEF OwnerRows
<1>5. CASE row[2] = "owner"
  BY <1>1, <1>2, <1>3, <1>4, <1>5, FS_RemoveElement, FS_CardinalityType
<1>6. CASE row[2] # "owner"
  BY <1>1, <1>2, <1>3, <1>6, FS_CardinalityType
<1> QED
  BY <1>5, <1>6

(* The database starts with one active owner, counted.                     *)
LEMMA InitIInv == Init => IInv
<1> SUFFICES ASSUME Init PROVE IInv
  OBVIOUS
<1> USE ControlPlaneAssumption DEF Init
<1>1. TypeOK
  BY DEF TypeOK, TenantStates, MembershipStates, Rows, Roles,
         TransactionStates, Idle
<1>2. IsFiniteSet(held) /\ OwnersCounted
  <2>1. OwnerRows = {<<Founder, "owner">>}
    BY DEF OwnerRows
  <2> QED
    BY <2>1, FS_Singleton DEF OwnersCounted
<1>3. \A t \in Transactions : tx[t].phase = "idle"
  BY DEF Idle
<1>4. /\ \A t \in Transactions : Found(t)
      /\ \A t, u \in Transactions : HoldsTenant(t) /\ HoldsTenant(u) => t = u
      /\ \A t, u \in Transactions : Locks(t, tx[t].row) /\ Locks(u, tx[t].row) => t = u
  BY <1>3 DEF Found, HoldsTenant, Locks
<1> QED
  BY <1>1, <1>2, <1>4 DEF IInv, LeasesEndSoon

(* The owners' tables and the leases do not depend on one another.         *)
LEMMA LeasingKeeps ==
  ASSUME IInv, TypeOK', UNCHANGED owners,
         \A ends \in leases' : ends <= clock' + MaximumLease,
         LeasesEndSoon'
  PROVE  IInv'
BY DEF IInv, owners, Found, HoldsTenant, Locks, OwnersCounted, OwnerRows

(* A step of the transaction t that leaves the committed rows as they are. *)
LEMMA PendingKeeps ==
  ASSUME IInv, TypeOK', NEW t \in Transactions,
         UNCHANGED <<tenant, held, leasing>>,
         \A u \in Transactions \ {t} : tx'[u] = tx[u],
         Found(t)',
         HoldsTenant(t)' => HoldsTenant(t) \/ TenantFree,
         tx'[t].phase \in {"row", "counted"} /\ tx'[t].change = "revoke"
           => Locks(t, tx'[t].row) \/ RowFree(tx'[t].row)
  PROVE  IInv'
<1>1. \A u \in Transactions : Found(u)'
  BY DEF IInv, Found
<1>2. \A u, v \in Transactions : HoldsTenant(u)' /\ HoldsTenant(v)' => u = v
  BY DEF IInv, HoldsTenant, TenantFree
<1>3. \A u, v \in Transactions :
        Locks(u, tx[u].row)' /\ Locks(v, tx[u].row)' => u = v
  <2> SUFFICES ASSUME NEW u \in Transactions, NEW v \in Transactions,
                      Locks(u, tx[u].row)', Locks(v, tx[u].row)', u # v
               PROVE  FALSE
    OBVIOUS
  <2>1. \A w \in Transactions \ {t} : Locks(w, tx[w].row)' => Locks(w, tx[w].row)
    BY DEF Locks
  <2>2. CASE u = t
    BY <2>1, <2>2 DEF Locks, RowFree, IInv
  <2>3. CASE v = t
    BY <2>1, <2>3 DEF Locks, RowFree, IInv
  <2> QED
    BY <2>1, <2>2, <2>3 DEF IInv, Locks
<1> QED
  BY <1>1, <1>2, <1>3
     DEF IInv, leasing, OwnersCounted, OwnerRows, LeasesEndSoon

(* Every step keeps the strengthening, from the types after it.            *)
LEMMA AskKeeps ==
  ASSUME IInv, TypeOK', NEW t \in Transactions, NEW actor, NEW target,
         NEW role, NEW change, Ask(t, actor, target, role, change)
  PROVE  IInv'
<1>1. tx'[t].phase = "asked" /\ \A u \in Transactions \ {t} : tx'[u] = tx[u]
  BY DEF Ask, IInv, TypeOK
<1>2. Found(t)' /\ ~HoldsTenant(t)'
  BY <1>1 DEF Found, HoldsTenant
<1> QED
  BY <1>1, <1>2, PendingKeeps DEF Ask

(* A transaction that ends without a change keeps the invariant.           *)
LEMMA EndKeeps ==
  ASSUME IInv, TypeOK', NEW t \in Transactions,
         tx' = [tx EXCEPT ![t] = Idle], UNCHANGED <<tenant, held, leasing>>
  PROVE  IInv'
<1>1. tx'[t].phase = "idle" /\ \A u \in Transactions \ {t} : tx'[u] = tx[u]
  BY DEF Idle, IInv, TypeOK
<1>2. Found(t)' /\ ~HoldsTenant(t)'
  BY <1>1 DEF Found, HoldsTenant
<1> QED
  BY <1>1, <1>2, PendingKeeps

(* Locking the membership row keeps it.                                    *)
LEMMA LockRowKeeps ==
  ASSUME IInv, TypeOK', NEW t \in Transactions, LockRow(t)
  PROVE  IInv'
<1>1. CASE tx[t].change = "revoke" /\ tx[t].row \notin held
  BY <1>1, EndKeeps DEF LockRow
<1>2. CASE ~(tx[t].change = "revoke" /\ tx[t].row \notin held)
  <2>1. tx[t].change \in Changes /\ DOMAIN tx[t] = {"phase", "change", "row"}
    BY DEF LockRow, IInv, TypeOK, TransactionStates, Idle
  <2>2. /\ tx'[t] = [tx[t] EXCEPT !.phase = "row"]
        /\ \A u \in Transactions \ {t} : tx'[u] = tx[u]
    BY <1>2 DEF LockRow, IInv, TypeOK
  <2>3. /\ tx'[t].phase = "row"
        /\ tx'[t].change = tx[t].change
        /\ tx'[t].row = tx[t].row
    BY <2>1, <2>2
  <2>4. Found(t)' /\ ~HoldsTenant(t)'
    BY <1>2, <2>3 DEF Found, HoldsTenant, LockRow
  <2> QED
    BY <2>2, <2>3, <2>4, PendingKeeps DEF LockRow
<1> QED
  BY <1>1, <1>2

(* So does the count of the owners, or the refusal it ends in.             *)
LEMMA CountKeeps ==
  ASSUME IInv, TypeOK', NEW t \in Transactions, Count(t)
  PROVE  IInv'
<1> DEFINE delta == Delta(tx[t].change, tx[t].row)
<1>1. CASE ~MayCount(delta)
  BY <1>1, EndKeeps DEF Count
<1>2. CASE MayCount(delta)
  <2>1. /\ tx[t].change \in Changes
        /\ DOMAIN tx[t] = {"phase", "change", "row"}
    BY DEF Count, IInv, TypeOK, TransactionStates, Idle
  <2>2. /\ tx'[t] = [tx[t] EXCEPT !.phase = "counted"]
        /\ \A u \in Transactions \ {t} : tx'[u] = tx[u]
    BY <1>2 DEF Count, IInv, TypeOK
  <2>3. /\ tx'[t].phase = "counted"
        /\ tx'[t].change = tx[t].change
        /\ tx'[t].row = tx[t].row
    BY <2>1, <2>2
  <2>4. /\ tx[t].row[2] = "owner"
        /\ tx[t].change = "revoke" => tx[t].row \in held
        /\ tx[t].change = "revoke" => delta = -1
    BY DEF Count, Delta, IInv, Found
  <2>5. tx[t].change = "revoke"
          => tenant.owners >= 1 /\ (tenant.state = "closed" \/ tenant.owners >= 2)
    BY <1>2, <2>4 DEF MayCount, IInv, TypeOK
  <2>6. Found(t)'
    BY <2>3, <2>4, <2>5 DEF Found, Count
  <2>7. tx[t].change = "revoke" => Locks(t, tx[t].row)
    BY DEF Count, Locks
  <2> QED
    BY <2>2, <2>3, <2>6, <2>7, PendingKeeps DEF Count
<1> QED
  BY <1>1, <1>2

(* The counter after a commit is a number, and counts the rows after it.   *)
LEMMA CommitCounts ==
  ASSUME IInv, NEW t \in Transactions, Commit(t)
  PROVE  /\ IsFiniteSet(held')
         /\ tenant.owners + Delta(tx[t].change, tx[t].row) \in Nat
         /\ OwnersCounted'
         /\ tenant'.state = tenant.state
         /\ tenant.state # "closed" => tenant'.owners >= 1
<1> DEFINE row == tx[t].row
           delta == Delta(tx[t].change, row)
<1>1. tx[t].change \in Changes /\ row \in Rows
  BY DEF Commit, IInv, TypeOK, TransactionStates, Idle
<1>2. tenant.owners = Cardinality(OwnerRows) /\ IsFiniteSet(held)
  BY DEF IInv, OwnersCounted
<1>3. tenant'.owners = tenant.owners + delta /\ tenant'.state = tenant.state
  BY DEF Commit, IInv, TypeOK
<1>4. CASE tx[t].change = "assign"
  <2>1. row \notin held /\ held' = held \cup {row}
    BY <1>4 DEF Commit
  <2>2. delta = IF row[2] = "owner" THEN 1 ELSE 0
    BY <1>4 DEF Delta
  <2>3. /\ IsFiniteSet(held')
        /\ Cardinality(OwnerRows') = Cardinality(OwnerRows) + delta
        /\ Cardinality(OwnerRows) \in Nat
    BY <1>1, <1>2, <2>1, <2>2, OwnerGranted
  <2> QED
    BY <1>2, <1>3, <2>2, <2>3 DEF OwnersCounted, IInv
<1>5. CASE tx[t].change = "revoke"
  <2>1. row \in held /\ held' = held \ {row}
    BY <1>5 DEF Commit, IInv, Found
  <2>2. delta = - (IF row[2] = "owner" THEN 1 ELSE 0)
    BY <1>5 DEF Delta
  <2>3. /\ IsFiniteSet(held')
        /\ Cardinality(OwnerRows') =
             Cardinality(OwnerRows) - (IF row[2] = "owner" THEN 1 ELSE 0)
        /\ Cardinality(OwnerRows) \in Nat
    BY <1>1, <1>2, <2>1, OwnerRevoked
  <2>4. row[2] = "owner" => /\ tenant.owners >= 1
                            /\ tenant.state # "closed" => tenant.owners >= 2
    BY <1>5 DEF Commit, IInv, Found, Delta
  <2>5. CASE row[2] = "owner"
    BY <1>2, <1>3, <2>2, <2>3, <2>4, <2>5 DEF OwnersCounted
  <2>6. CASE row[2] # "owner"
    BY <1>2, <1>3, <2>2, <2>3, <2>6 DEF OwnersCounted, IInv
  <2> QED
    BY <2>5, <2>6
<1> QED
  BY <1>1, <1>3, <1>4, <1>5 DEF Changes

(* A commit keeps it: the count it was decided on is still the count.      *)
LEMMA CommitKeeps ==
  ASSUME IInv, TypeOK', NEW t \in Transactions, Commit(t)
  PROVE  IInv'
<1> DEFINE row == tx[t].row
<1>1. tx'[t].phase = "idle" /\ \A u \in Transactions \ {t} : tx'[u] = tx[u]
  BY DEF Commit, Idle, IInv, TypeOK
<1>2. \A u \in Transactions \ {t} : Found(u)'
  <2> SUFFICES ASSUME NEW u \in Transactions \ {t} PROVE Found(u)'
    OBVIOUS
  <2>1. Found(u) /\ tx'[u] = tx[u]
    BY <1>1 DEF IInv
  <2>2. ASSUME tx[u].phase \in {"row", "counted"}, tx[u].change = "revoke"
        PROVE  tx[u].row \in held'
    <3>1. tx[u].row \in held
      BY <2>1, <2>2 DEF Found
    <3>2. ASSUME tx[t].change = "revoke" PROVE tx[u].row # row
      BY <2>2, <3>2 DEF IInv, Commit, Locks
    <3>3. tx[t].change \in Changes
      BY DEF Commit, IInv, TypeOK, TransactionStates, Idle
    <3> QED
      BY <3>1, <3>2, <3>3 DEF Commit, Changes
  <2>3. ASSUME tx[u].phase = "counted" PROVE tenant' = tenant
    <3>1. tx[t].phase # "counted"
      BY <2>3 DEF IInv, HoldsTenant
    <3>2. Delta(tx[t].change, row) = 0
      BY <3>1 DEF Commit
    <3> QED
      BY <3>2 DEF Commit, IInv, TypeOK
  <2> QED
    BY <2>1, <2>2, <2>3, CommitCounts DEF Found
<1>3. Found(t)' /\ ~HoldsTenant(t)' /\ \A r : ~Locks(t, r)'
  BY <1>1 DEF Found, HoldsTenant, Locks
<1>4. /\ \A u, v \in Transactions : HoldsTenant(u)' /\ HoldsTenant(v)' => u = v
      /\ \A u, v \in Transactions :
           Locks(u, tx[u].row)' /\ Locks(v, tx[u].row)' => u = v
  BY <1>1, <1>3 DEF IInv, HoldsTenant, Locks
<1>5. UNCHANGED leasing
  BY DEF Commit
<1> QED
  BY <1>2, <1>3, <1>4, <1>5, CommitCounts DEF IInv, leasing, LeasesEndSoon

(* Locking the tenant keeps it.                                            *)
LEMMA LockTenantKeeps ==
  ASSUME IInv, TypeOK', NEW t \in Transactions, LockTenant(t)
  PROVE  IInv'
<1>1. tx'[t].phase = "closing" /\ \A u \in Transactions \ {t} : tx'[u] = tx[u]
  BY DEF LockTenant, IInv, TypeOK
<1>2. Found(t)'
  BY <1>1 DEF Found, LockTenant
<1> QED
  BY <1>1, <1>2, PendingKeeps DEF LockTenant

(* A change of the tenant's state keeps it.                                *)
LEMMA ChangeTenantKeeps ==
  ASSUME IInv, TypeOK', NEW t \in Transactions, NEW state, ChangeTenant(t, state)
  PROVE  IInv'
<1>1. tx'[t].phase = "idle" /\ \A u \in Transactions \ {t} : tx'[u] = tx[u]
  BY DEF ChangeTenant, Idle, IInv, TypeOK
<1>2. tenant'.owners = tenant.owners /\ tenant.state # "closed"
  BY DEF ChangeTenant, IInv, TypeOK, Found
<1>3. \A u \in Transactions \ {t} : ~HoldsTenant(u)
  BY DEF ChangeTenant, IInv, HoldsTenant
<1>4. \A u \in Transactions : Found(u)' /\ ~HoldsTenant(u)'
  BY <1>1, <1>3 DEF Found, HoldsTenant, ChangeTenant, IInv
<1>5. \A u, v \in Transactions :
        Locks(u, tx[u].row)' /\ Locks(v, tx[u].row)' => u = v
  BY <1>1 DEF IInv, Locks
<1>6. UNCHANGED <<held, leasing>>
  BY DEF ChangeTenant
<1> QED
  BY <1>2, <1>4, <1>5, <1>6
     DEF IInv, OwnersCounted, OwnerRows, leasing, LeasesEndSoon

(* Leases, what they rest on, and the clock keep it.                       *)
LEMMA LeasingStepKeeps ==
  ASSUME IInv, TypeOK',
         \/ \E actor \in Members, ttl \in 0..MaximumLease + 1, units \in 0..1 :
              IssueLease(actor, ttl, units)
         \/ \E p \in Prerequisites : Lapse(p)
         \/ Tick
  PROVE  IInv'
<1> USE ControlPlaneAssumption DEF IInv, TypeOK, leasing, LeasesEndSoon
<1>1. ASSUME NEW actor \in Members, NEW ttl \in 0..MaximumLease + 1,
             NEW units \in 0..1, IssueLease(actor, ttl, units)
      PROVE  IInv'
  BY <1>1, LeasingKeeps DEF IssueLease, MayLease
<1>2. ASSUME NEW p \in Prerequisites, Lapse(p) PROVE IInv'
  BY <1>2, LeasingKeeps DEF Lapse
<1>3. CASE Tick
  BY <1>3, LeasingKeeps DEF Tick
<1> QED
  BY <1>1, <1>2, <1>3

(* Every step keeps the types; that of the counter rests on IInv.          *)
LEMMA StepTypes == IInv /\ [Next]_vars => TypeOK'
<1> SUFFICES ASSUME IInv, [Next]_vars PROVE TypeOK'
  OBVIOUS
<1>0. TypeOK
  BY DEF IInv
<1> USE ControlPlaneAssumption, <1>0
    DEF TypeOK, owners, leasing, TransactionStates, Rows, Changes
<1>1. ASSUME NEW t \in Transactions, NEW actor \in Members,
             NEW target \in Members, NEW role \in Requested,
             NEW change \in Changes, Ask(t, actor, target, role, change)
      PROVE  TypeOK'
  BY <1>1 DEF Ask, Roles
<1>2. ASSUME NEW t \in Transactions, LockRow(t) PROVE TypeOK'
  BY <1>2 DEF LockRow, Idle
<1>3. ASSUME NEW t \in Transactions, Count(t) PROVE TypeOK'
  BY <1>3 DEF Count, Idle
<1>4. ASSUME NEW t \in Transactions, Commit(t) PROVE TypeOK'
  <2>1. tenant.owners + Delta(tx[t].change, tx[t].row) \in Nat
    BY <1>4, CommitCounts
  <2> QED
    BY <1>4, <2>1 DEF Commit, Idle
<1>5. ASSUME NEW t \in Transactions, Rollback(t) PROVE TypeOK'
  BY <1>5 DEF Rollback, Idle
<1>6. ASSUME NEW t \in Transactions, LockTenant(t) PROVE TypeOK'
  BY <1>6 DEF LockTenant, Idle
<1>7. ASSUME NEW t \in Transactions, NEW state \in TenantStates, ChangeTenant(t, state)
      PROVE  TypeOK'
  BY <1>7 DEF ChangeTenant, Idle
<1>8. ASSUME NEW m \in Members, NEW state \in MembershipStates, ChangeMember(m, state)
      PROVE  TypeOK'
  BY <1>8 DEF ChangeMember
<1>9. ASSUME NEW actor \in Members, NEW ttl \in 0..MaximumLease + 1,
             NEW units \in 0..1, IssueLease(actor, ttl, units)
      PROVE  TypeOK'
  BY <1>9 DEF IssueLease, MayLease
<1>10. ASSUME NEW p \in Prerequisites, Lapse(p) PROVE TypeOK'
  BY <1>10 DEF Lapse
<1>11. CASE Tick
  BY <1>11 DEF Tick
<1>12. CASE UNCHANGED vars
  BY <1>12 DEF vars
<1> QED
  BY <1>1, <1>2, <1>3, <1>4, <1>5, <1>6, <1>7, <1>8, <1>9, <1>10, <1>11, <1>12 DEF Next

(* Every step keeps the invariant.                                         *)
LEMMA StepIInv == IInv /\ [Next]_vars => IInv'
<1> SUFFICES ASSUME IInv, [Next]_vars PROVE IInv'
  OBVIOUS
<1>1. TypeOK'
  BY StepTypes
<1>2. ASSUME NEW t \in Transactions, Rollback(t) PROVE IInv'
  BY <1>1, <1>2, EndKeeps DEF Rollback
<1>3. ASSUME NEW m \in Members, NEW state \in MembershipStates, ChangeMember(m, state)
      PROVE  IInv'
  BY <1>1, <1>3 DEF ChangeMember, IInv, leasing, Found, HoldsTenant, Locks,
     OwnersCounted, OwnerRows, LeasesEndSoon
<1>4. CASE UNCHANGED vars
  BY <1>1, <1>4 DEF vars, IInv, Found, HoldsTenant, Locks, OwnersCounted,
     OwnerRows, LeasesEndSoon
<1> QED
  BY <1>1, <1>2, <1>3, <1>4, AskKeeps, LockRowKeeps, CountKeeps, CommitKeeps,
     LockTenantKeeps, ChangeTenantKeeps, LeasingStepKeeps DEF Next

(* The invariant is one of the specification.                              *)
LEMMA Inductive == Spec => []IInv
<1>1. Init => IInv
  BY InitIInv
<1>2. IInv /\ [Next]_vars => IInv'
  BY StepIInv
<1> QED
  BY <1>1, <1>2, PTL DEF Spec

(* The types of the variables.                                             *)
THEOREM ControlPlaneTyped == Spec => []TypeOK
<1>1. IInv => TypeOK
  BY DEF IInv
<1> QED
  BY <1>1, Inductive, PTL

(* The counter of the tenant's row, which preserve_final_owner changes by  *)
(* one and decides on, is the number of the tenant's owner assignments for *)
(* any number of concurrent transactions.                                  *)
THEOREM CounterIsExact == Spec => []OwnersCounted
<1>1. IInv => OwnersCounted
  BY DEF IInv
<1> QED
  BY <1>1, Inductive, PTL

(* No interleaving of transactions leaves a tenant that is not closed      *)
(* without an owner.                                                       *)
THEOREM FinalOwnerStays == Spec => []OwnerRemains
<1>1. IInv => OwnerRemains
  <2> SUFFICES ASSUME IInv, tenant.state # "closed", OwnerRows = {} PROVE FALSE
    BY DEF OwnerRemains
  <2>1. Cardinality(OwnerRows) = 0
    BY FS_EmptySet
  <2> QED
    BY <2>1 DEF IInv, OwnersCounted
<1> QED
  BY <1>1, Inductive, PTL

(* No lease outlasts what it was issued on by more than one maximal lease. *)
THEOREM LeasesLapse == Spec => []LeasesEndSoon
<1>1. IInv => LeasesEndSoon
  BY DEF IInv
<1> QED
  BY <1>1, Inductive, PTL
=============================================================================
