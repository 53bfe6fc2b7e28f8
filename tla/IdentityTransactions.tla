------------------------ MODULE IdentityTransactions ------------------------
(***************************************************************************)
(* The identity repository on PostgreSQL (internal/repository/postgres.go) *)
(* and its two callers that create principals.  A registration, an unlink  *)
(* and a merge are transactions of several statements at READ COMMITTED:   *)
(* a session runs one of them, a statement waits for the row locks it      *)
(* needs, its writes become visible when the transaction commits.  The row *)
(* lock a foreign key takes on the principal (FOR KEY SHARE) conflicts     *)
(* with the merge's FOR UPDATE, so an insert for a principal waits while a *)
(* merge holds it.                                                         *)
(***************************************************************************)
EXTENDS IdentityStore

CONSTANTS
  Sessions,    \* connections a transaction runs on
  SetStatuses  \* statuses SetWorkforceMembershipStatus is called with

ASSUME SetStatusesAssumption == SetStatuses \subseteq MembershipStatuses

VARIABLE sessions  \* session -> the transaction it is in

txVars == <<principals, externals, references, memberships, registered, stripped, sessions>>

NoTx == [op |-> "none"]
LookedUp == [op : {"looked"}, key : IssuerKeys]
Inserted == [op : {"inserted"}, key : IssuerKeys, principal : PrincipalIds]
Counted == [op : {"counted"}, key : IssuerKeys, principal : PrincipalIds, rows : SUBSET IssuerKeys]
Merge == [op : {"merge"}, source : PrincipalIds, target : PrincipalIds,
          held : SUBSET PrincipalIds, moved : SUBSET IssuerKeys, wrote : BOOLEAN]

TxInit == IdentityInit /\ sessions = [s \in Sessions |-> NoTx]

Store == <<principals, externals, references, memberships, registered, stripped>>

-----------------------------------------------------------------------------
(* Row locks *)

PrincipalsLocked(s) == IF sessions[s].op = "merge" THEN sessions[s].held ELSE {}

RowsLocked(s) ==
  CASE sessions[s].op = "counted" -> sessions[s].rows
    [] sessions[s].op = "merge" -> sessions[s].moved
    [] OTHER -> {}

\* a key inserted and not yet committed: a second insert of it waits
KeysInserted(s) == IF sessions[s].op = "inserted" THEN {sessions[s].key} ELSE {}

PrincipalFree(s, p) == \A o \in Sessions \ {s} : p \notin PrincipalsLocked(o)
RowsFree(s, keys) == \A o \in Sessions \ {s} : RowsLocked(o) \cap keys = {}
KeyFree(s, k) == \A o \in Sessions \ {s} : k \notin KeysInserted(o)
IdsInserted == {sessions[o].principal : o \in {o \in Sessions : sessions[o].op = "inserted"}}

-----------------------------------------------------------------------------
(* First authentication and buyer registration *)

Looked(s, k) ==
  /\ sessions[s] = NoTx
  /\ sessions' = [sessions EXCEPT ![s] = [op |-> "looked", key |-> k]]
  /\ UNCHANGED Store

\* buyer registration: a known identity is answered, or refused, as it is
Register(s, k) == ~externals[k].linked /\ Looked(s, k)

\* first authentication: an identity that is linked and not ACTIVE does not
\* resolve either, and is met again by the insert
Resolve(s, k) == (externals[k].linked => externals[k].status # "ACTIVE") /\ Looked(s, k)

\* INSERT principal, INSERT external_identity ON CONFLICT DO NOTHING
CreateLinkedIdentityInserts(s, p) ==
  /\ sessions[s].op = "looked"
  /\ ~Exists(p) /\ p \notin IdsInserted
  /\ KeyFree(s, sessions[s].key)
  /\ sessions' = [sessions EXCEPT ![s] =
       IF externals[sessions[s].key].linked THEN NoTx
       ELSE [op |-> "inserted", key |-> sessions[s].key, principal |-> p]]
  /\ UNCHANGED Store

CreateLinkedIdentityCommits(s) ==
  /\ sessions[s].op = "inserted"
  /\ CreateLinkedIdentity(sessions[s].principal, sessions[s].key)
  /\ sessions' = [sessions EXCEPT ![s] = NoTx]

-----------------------------------------------------------------------------
(* Single-statement inserts *)

LinkCommits(s, p, k) ==
  /\ sessions[s] = NoTx
  /\ PrincipalFree(s, p) /\ KeyFree(s, k)
  /\ LinkExternalIdentity(p, k)
  /\ UNCHANGED sessions

CreateIdentityCommits(p) ==
  /\ p \notin IdsInserted
  /\ CreateIdentity(p)
  /\ UNCHANGED sessions

MembershipCommits(s, p, t) ==
  /\ sessions[s] = NoTx
  /\ PrincipalFree(s, p)
  /\ CreateWorkforceMembership(p, t)
  /\ UNCHANGED sessions

ReferenceCommits(s, p, r) ==
  /\ sessions[s] = NoTx
  /\ PrincipalFree(s, p)
  /\ CreateIdentityReference(p, r)
  /\ UNCHANGED sessions

StatusCommits(p, t, status) ==
  /\ SetWorkforceMembershipStatus(p, t, status)
  /\ UNCHANGED sessions

-----------------------------------------------------------------------------
(* UnlinkExternalIdentityAudited *)

\* SELECT ... WHERE principal_id = p AND status = 'ACTIVE' FOR UPDATE: the rows
\* the count was taken of stay locked until the transaction ends
CountLocks(p) == ActiveKeys(p)

UnlinkCounts(s, p, k) ==
  /\ sessions[s] = NoTx
  /\ ActiveKeys(p) # {}
  /\ RowsFree(s, ActiveKeys(p))
  /\ UnlinkAllowed(p, FALSE)
  /\ sessions' = [sessions EXCEPT ![s] =
       [op |-> "counted", key |-> k, principal |-> p, rows |-> CountLocks(p)]]
  /\ UNCHANGED Store

UnlinkCommits(s) ==
  /\ sessions[s].op = "counted"
  /\ RowsFree(s, {sessions[s].key})
  /\ LET k == sessions[s].key  p == sessions[s].principal IN
     \/ /\ ActiveFor(k, p)
        /\ externals' = [externals EXCEPT ![k].status = "UNLINKED"]
        /\ UNCHANGED <<principals, references, memberships, registered, stripped>>
     \/ ~ActiveFor(k, p) /\ UNCHANGED Store
  /\ sessions' = [sessions EXCEPT ![s] = NoTx]

UnlinkAdministratively(s, p, k) ==
  /\ sessions[s] = NoTx
  /\ RowsFree(s, {k})
  /\ UnlinkExternalIdentityAudited(p, k, TRUE)
  /\ UNCHANGED sessions

-----------------------------------------------------------------------------
(* MergePrincipalsAudited *)

MergeBegins(s, source, target) ==
  /\ sessions[s] = NoTx
  /\ source # target
  /\ sessions' = [sessions EXCEPT ![s] = [op |-> "merge", source |-> source, target |-> target,
                                          held |-> {}, moved |-> {}, wrote |-> FALSE]]
  /\ UNCHANGED Store

\* the order in which the merge locks its two principals
LockOrder(x) == IF x.source < x.target THEN <<x.source, x.target>> ELSE <<x.target, x.source>>

BothLocked(x) == x.held = {x.source, x.target}

NextLock(x) == IF LockOrder(x)[1] \in x.held THEN LockOrder(x)[2] ELSE LockOrder(x)[1]

\* SELECT status ... FOR UPDATE; a missing principal ends the merge
MergeLocks(s) ==
  /\ sessions[s].op = "merge"
  /\ ~BothLocked(sessions[s])
  /\ LET p == NextLock(sessions[s]) IN
     /\ PrincipalFree(s, p)
     /\ sessions' = [sessions EXCEPT ![s] =
          IF Exists(p) THEN [sessions[s] EXCEPT !.held = sessions[s].held \union {p}] ELSE NoTx]
  /\ UNCHANGED Store

\* Mutant: the statuses are not compared again under the locks.
EligibleUnread(x) == x.source # x.target

\* the statuses read under the two locks are compared
StillEligible(x) == MergeEligible(x.source, x.target)

\* the source's external identities are the first rows written
MergeMovesExternals(s) ==
  /\ sessions[s].op = "merge" /\ ~sessions[s].wrote
  /\ BothLocked(sessions[s])
  /\ LET x == sessions[s]
         rows == {k \in IssuerKeys : OfPrincipal(k, x.source)} IN
     \/ /\ StillEligible(x)
        /\ RowsFree(s, rows)
        /\ sessions' = [sessions EXCEPT ![s].moved = rows, ![s].wrote = TRUE]
     \/ /\ ~StillEligible(x)
        /\ sessions' = [sessions EXCEPT ![s] = NoTx]
  /\ UNCHANGED Store

\* the remaining statements, the audit rows and the commit
MergeCommits(s) ==
  /\ sessions[s].op = "merge" /\ sessions[s].wrote
  /\ LET source == sessions[s].source  target == sessions[s].target IN
     /\ externals' = [k \in IssuerKeys |->
          IF k \in sessions[s].moved THEN [externals[k] EXCEPT !.principal = target] ELSE externals[k]]
     /\ references' = TransferredReferences(source, target)
     /\ memberships' = MergedMemberships(source, target)
     /\ principals' = [principals EXCEPT ![source] = "ARCHIVED"]
  /\ sessions' = [sessions EXCEPT ![s] = NoTx]
  /\ UNCHANGED <<registered, stripped>>

\* an error, or a lost connection, before the commit
RollsBack(s) ==
  /\ sessions[s] # NoTx
  /\ sessions' = [sessions EXCEPT ![s] = NoTx]
  /\ UNCHANGED Store

TxNext ==
  \/ \E s \in Sessions :
       \/ \E k \in IssuerKeys : Register(s, k) \/ Resolve(s, k)
       \/ \E p \in PrincipalIds : CreateLinkedIdentityInserts(s, p)
       \/ CreateLinkedIdentityCommits(s)
       \/ \E p \in PrincipalIds, k \in IssuerKeys :
            UnlinkCounts(s, p, k) \/ UnlinkAdministratively(s, p, k) \/ LinkCommits(s, p, k)
       \/ UnlinkCommits(s)
       \/ \E p, q \in PrincipalIds : MergeBegins(s, p, q)
       \/ RollsBack(s)
       \/ MergeLocks(s) \/ MergeMovesExternals(s) \/ MergeCommits(s)
       \/ \E p \in PrincipalIds, t \in MemberTenants : MembershipCommits(s, p, t)
       \/ \E p \in PrincipalIds, r \in ReferenceKeys : ReferenceCommits(s, p, r)
  \/ \E p \in PrincipalIds : CreateIdentityCommits(p)
  \/ \E p \in PrincipalIds, t \in MemberTenants, status \in SetStatuses :
       StatusCommits(p, t, status)

TxSpec == TxInit /\ [][TxNext]_txVars

-----------------------------------------------------------------------------
(* Properties *)

TxTypeOK ==
  /\ principals \in [PrincipalIds -> {"ABSENT", "ACTIVE", "ARCHIVED"}]
  /\ externals \in [IssuerKeys -> {Unlinked} \union ExternalIdentity]
  /\ references \in [ReferenceKeys -> {Unmapped} \union IdentityReference]
  /\ memberships \in [PrincipalIds \X MemberTenants -> MembershipStatuses \union {"ABSENT"}]
  /\ registered \subseteq PrincipalIds /\ stripped \subseteq PrincipalIds
  /\ sessions \in [Sessions -> {NoTx} \union LookedUp \union Inserted \union Counted \union Merge]

Abstract == INSTANCE IdentityStore
  WITH principals <- principals, externals <- externals, references <- references,
       memberships <- memberships, registered <- registered, stripped <- stripped

\* Whatever the interleaving of transactions, PostgreSQL's identity store
\* takes the steps of the in-memory one: every commit is one whole operation
\* of it, decided on the state it commits to.
ImplementsIdentityStore == Abstract!IdentitySpec

\* A principal loses its last usable credential only to an administrator or
\* to a merge: concurrent unlinks of the same principal never both pass the
\* count (postgres.go:743-806).
LastCredentialKept ==
  [][\A p \in PrincipalIds :
       (ActiveKeys(p) # {} /\ (ActiveKeys(p))' = {}) =>
         \/ principals'[p] = "ARCHIVED" /\ principals[p] = "ACTIVE"
         \/ p \in stripped']_txVars

\* Losing the race of two first authentications leaves nothing behind: every
\* principal a registration made owns an external identity, until a merge
\* archives it (postgres.go:437-502).
NoOrphanPrincipal ==
  \A p \in registered :
    principals[p] = "ARCHIVED" \/ \E k \in IssuerKeys : OfPrincipal(k, p)

\* A merge strands nothing: when it archives its source, no credential, engine
\* reference or usable membership is left there (postgres.go:819-992).
MergeStrandsNothing ==
  [][\A p \in PrincipalIds :
       (principals[p] = "ACTIVE" /\ principals'[p] = "ARCHIVED") =>
         /\ \A k \in IssuerKeys : ~(externals'[k].linked /\ externals'[k].principal = p)
         /\ \A r \in ReferenceKeys : ~(references'[r].mapped /\ references'[r].principal = p)
         /\ \A t \in MemberTenants : memberships'[<<p, t>>] \in {"ABSENT", "DISABLED"}]_txVars

\* Merges never wait for each other in a circle, even of one pair of
\* principals in both directions (postgres.go:836-842).
MergesNeverDeadlock ==
  \A s, o \in Sessions :
    (s # o /\ sessions[s].op = "merge" /\ sessions[o].op = "merge") =>
      ~ /\ sessions[s].held # {} /\ ~BothLocked(sessions[s])
        /\ sessions[o].held # {} /\ ~BothLocked(sessions[o])
        /\ sessions[s].held # sessions[o].held
        /\ {sessions[s].source, sessions[s].target} = {sessions[o].source, sessions[o].target}

\* The identity transactions leave no principal without a credential it was
\* created with, never deadlock in a merge, keep the last credential, strand
\* nothing in a merge, and implement the abstract identity store, in which
\* each command is one atomic step.
IdentityPromises ==
  /\ [](TxTypeOK /\ NoOrphanPrincipal /\ MergesNeverDeadlock)
  /\ LastCredentialKept
  /\ MergeStrandsNothing
  /\ ImplementsIdentityStore
=============================================================================
