--------------------------- MODULE IdentityProofs ---------------------------
(***************************************************************************)
(* PostgreSQL's identity store implements the in-memory one, for any       *)
(* number of sessions, principals and credentials. The invariant says what *)
(* a transaction still knows when it commits: the rows an unlink counted   *)
(* are ACTIVE credentials of its principal, the rows a merge moves are all *)
(* of its source's, both principals of it are ACTIVE, and no row is locked *)
(* by two transactions.                                                    *)
(***************************************************************************)
EXTENDS IdentityTransactions, TLAPS

KeysOf(p) == {k \in IssuerKeys : OfPrincipal(k, p)}

FirstLock(x) == LockOrder(x)[1]

\* What a counting unlink knows.
CountedInv ==
  \A s \in Sessions : sessions[s].op = "counted" =>
    /\ sessions[s].rows \subseteq ActiveKeys(sessions[s].principal)
    /\ \E j, k \in sessions[s].rows : j # k

\* What a merge knows of its locks ...
HeldInv ==
  \A s \in Sessions : sessions[s].op = "merge" =>
    LET x == sessions[s]
    IN /\ x.source # x.target
       /\ x.held \in {{}, {FirstLock(x)}, {x.source, x.target}}
       /\ x.wrote => x.held = {x.source, x.target}
       /\ ~x.wrote => x.moved = {}

\* ... and of what it found under them.
MovedInv ==
  \A s \in Sessions : sessions[s].op = "merge" /\ sessions[s].wrote =>
    /\ MergeEligible(sessions[s].source, sessions[s].target)
    /\ sessions[s].moved = KeysOf(sessions[s].source)

LocksApart ==
  \A s, o \in Sessions : s # o =>
    /\ RowsLocked(s) \cap RowsLocked(o) = {}
    /\ PrincipalsLocked(s) \cap PrincipalsLocked(o) = {}

TxInv == TxTypeOK /\ CountedInv /\ HeldInv /\ MovedInv /\ LocksApart

StoreTyped ==
  /\ principals \in [PrincipalIds -> {"ABSENT", "ACTIVE", "ARCHIVED"}]
  /\ externals \in [IssuerKeys -> {Unlinked} \union ExternalIdentity]
  /\ references \in [ReferenceKeys -> {Unmapped} \union IdentityReference]
  /\ memberships \in [PrincipalIds \X MemberTenants -> MembershipStatuses \union {"ABSENT"}]
  /\ registered \subseteq PrincipalIds /\ stripped \subseteq PrincipalIds

-----------------------------------------------------------------------------
(* The abstract store *)

\* The operations of the abstract store keep its types.
LEMMA OperationsTyped ==
  ASSUME StoreTyped, [IdentityNext]_identityVars
  PROVE  StoreTyped'
<1>1. CASE UNCHANGED identityVars
  BY <1>1 DEF StoreTyped, identityVars
<1>2. ASSUME NEW p \in PrincipalIds, CreateIdentity(p) PROVE StoreTyped'
  BY <1>2 DEF StoreTyped, CreateIdentity
<1>3. ASSUME NEW p \in PrincipalIds, NEW k \in IssuerKeys,
             LinkExternalIdentity(p, k) \/ CreateLinkedIdentity(p, k)
      PROVE  StoreTyped'
  <2>1. [linked |-> TRUE, principal |-> p, status |-> "ACTIVE"] \in ExternalIdentity
    BY DEF ExternalIdentity
  <2> QED BY Zenon, <1>3, <2>1 DEF StoreTyped, LinkExternalIdentity, CreateLinkedIdentity
<1>4. ASSUME NEW p \in PrincipalIds, NEW k \in IssuerKeys, NEW a \in BOOLEAN,
             UnlinkExternalIdentityAudited(p, k, a)
      PROVE  StoreTyped'
  <2>1. externals[k] \in ExternalIdentity
    BY <1>4 DEF StoreTyped, UnlinkExternalIdentityAudited, ActiveFor, OfPrincipal, Unlinked
  <2>2. [externals[k] EXCEPT !.status = "UNLINKED"] \in ExternalIdentity
    BY Zenon, <2>1 DEF ExternalIdentity
  <2> QED BY <1>4, <2>2 DEF StoreTyped, UnlinkExternalIdentityAudited
<1>5. ASSUME NEW p \in PrincipalIds, NEW target \in PrincipalIds, MergePrincipalsAudited(p, target)
      PROVE  StoreTyped'
  <2>1. externals' \in [IssuerKeys -> {Unlinked} \union ExternalIdentity]
    <3> SUFFICES ASSUME NEW k \in IssuerKeys, OfPrincipal(k, p)
                 PROVE  [externals[k] EXCEPT !.principal = target] \in ExternalIdentity
      BY <1>5 DEF MergePrincipalsAudited, TransferredExternals, StoreTyped
    <3>1. externals[k] \in ExternalIdentity
      BY DEF StoreTyped, OfPrincipal, Unlinked
    <3> QED BY Zenon, <3>1 DEF ExternalIdentity
  <2>2. references' \in [ReferenceKeys -> {Unmapped} \union IdentityReference]
    <3> SUFFICES ASSUME NEW r \in ReferenceKeys, references[r].mapped
                 PROVE  [references[r] EXCEPT !.principal = target] \in IdentityReference
      BY <1>5 DEF MergePrincipalsAudited, TransferredReferences, StoreTyped
    <3>1. references[r] \in IdentityReference
      BY DEF StoreTyped, Unmapped
    <3> QED BY Zenon, <3>1 DEF IdentityReference
  <2>3. memberships' \in [PrincipalIds \X MemberTenants -> MembershipStatuses \union {"ABSENT"}]
    BY <1>5 DEF MergePrincipalsAudited, MergedMemberships, StoreTyped, MembershipStatuses
  <2> QED BY Zenon, <1>5, <2>1, <2>2, <2>3 DEF MergePrincipalsAudited, StoreTyped
<1>6. ASSUME NEW p \in PrincipalIds, NEW t \in MemberTenants,
             \/ CreateWorkforceMembership(p, t)
             \/ \E s \in MembershipStatuses : SetWorkforceMembershipStatus(p, t, s)
      PROVE  StoreTyped'
  BY <1>6 DEF StoreTyped, CreateWorkforceMembership, SetWorkforceMembershipStatus, MembershipStatuses
<1>7. ASSUME NEW p \in PrincipalIds, NEW r \in ReferenceKeys, CreateIdentityReference(p, r)
      PROVE  StoreTyped'
  <2>1. [mapped |-> TRUE, principal |-> p] \in IdentityReference
    BY DEF IdentityReference
  <2> QED BY <1>7, <2>1 DEF StoreTyped, CreateIdentityReference
<1> QED BY <1>1, <1>2, <1>3, <1>4, <1>5, <1>6, <1>7 DEF IdentityNext

\* A principal loses its last ACTIVE credential to an administrator or to its
\* own merge only.
LEMMA OperationsKeepLastCredential ==
  ASSUME StoreTyped, [IdentityNext]_identityVars, NEW q \in PrincipalIds,
         ActiveKeys(q) # {}, (ActiveKeys(q))' = {}
  PROVE  \/ principals'[q] = "ARCHIVED" /\ principals[q] = "ACTIVE"
         \/ q \in stripped'
<1>1. PICK j \in IssuerKeys : ActiveFor(j, q)
  BY DEF ActiveKeys
<1>2. \A k \in IssuerKeys : ~ActiveFor(k, q)'
  BY DEF ActiveKeys
<1>3. CASE externals' = externals
  BY <1>1, <1>2, <1>3 DEF ActiveFor, OfPrincipal
<1>4. ASSUME NEW p \in PrincipalIds, NEW k \in IssuerKeys,
             LinkExternalIdentity(p, k) \/ CreateLinkedIdentity(p, k)
      PROVE  FALSE
  <2>1. j # k /\ externals'[j] = externals[j]
    BY <1>1, <1>4 DEF LinkExternalIdentity, CreateLinkedIdentity, ActiveFor, OfPrincipal, StoreTyped
  <2> QED BY <1>1, <1>2, <2>1 DEF ActiveFor, OfPrincipal
<1>5. ASSUME NEW p \in PrincipalIds, NEW k \in IssuerKeys, NEW a \in BOOLEAN,
             UnlinkExternalIdentityAudited(p, k, a)
      PROVE  q \in stripped'
  <2>1. \A i \in IssuerKeys : i # k => externals'[i] = externals[i]
    BY <1>5 DEF UnlinkExternalIdentityAudited, StoreTyped
  <2>2. \A i \in IssuerKeys : ActiveFor(i, q) => i = k
    BY <1>2, <2>1 DEF ActiveFor, OfPrincipal
  <2>3. j = k /\ p = q
    BY <1>1, <1>5, <2>2 DEF UnlinkExternalIdentityAudited, ActiveFor, OfPrincipal
  <2>4. \A i \in ActiveKeys(p) : i = k
    BY <2>2, <2>3 DEF ActiveKeys
  <2>5. a
    BY <1>5, <2>4 DEF UnlinkExternalIdentityAudited, UnlinkAllowed
  <2> QED BY <1>5, <2>3, <2>5 DEF UnlinkExternalIdentityAudited
<1>6. ASSUME NEW p \in PrincipalIds, NEW target \in PrincipalIds, MergePrincipalsAudited(p, target)
      PROVE  principals'[q] = "ARCHIVED" /\ principals[q] = "ACTIVE"
  <2>1. CASE q = p
    BY <1>6, <2>1 DEF MergePrincipalsAudited, MergeEligible, StoreTyped
  <2>2. CASE q # p
    <3>1. externals'[j] = externals[j]
      BY <1>1, <1>6, <2>2 DEF MergePrincipalsAudited, TransferredExternals, ActiveFor, OfPrincipal
    <3> QED BY <1>1, <1>2, <3>1 DEF ActiveFor, OfPrincipal
  <2> QED BY <2>1, <2>2
<1> QED BY Zenon, <1>3, <1>4, <1>5, <1>6
    DEF IdentityNext, identityVars, CreateIdentity, CreateWorkforceMembership,
        SetWorkforceMembershipStatus, CreateIdentityReference

\* A registered principal keeps an external identity, or is archived.
LEMMA OperationsOrphanNobody ==
  ASSUME StoreTyped, NoOrphanPrincipal, [IdentityNext]_identityVars
  PROVE  NoOrphanPrincipal'
<1> SUFFICES ASSUME NEW q \in registered'
             PROVE  principals'[q] = "ARCHIVED" \/ \E k \in IssuerKeys : OfPrincipal(k, q)'
  BY DEF NoOrphanPrincipal
<1> DEFINE Kept == principals'[q] = "ARCHIVED" \/ \E k \in IssuerKeys : OfPrincipal(k, q)'
<1> SUFFICES Kept
  OBVIOUS
<1>1. CASE UNCHANGED <<principals, externals, registered>>
  BY <1>1 DEF NoOrphanPrincipal, OfPrincipal
<1>2. ASSUME NEW p \in PrincipalIds, CreateIdentity(p) PROVE Kept
  <2>1. q \in registered /\ q \in PrincipalIds /\ externals' = externals
    BY <1>2 DEF CreateIdentity, StoreTyped
  <2>2. CASE principals[q] = "ARCHIVED"
    BY <1>2, <2>1, <2>2 DEF CreateIdentity, Exists, StoreTyped
  <2> QED BY <2>1, <2>2 DEF NoOrphanPrincipal, OfPrincipal
<1>3. ASSUME NEW p \in PrincipalIds, NEW k \in IssuerKeys, LinkExternalIdentity(p, k) PROVE Kept
  <2>1. q \in registered /\ principals' = principals
    BY <1>3 DEF LinkExternalIdentity
  <2>2. \A i \in IssuerKeys : OfPrincipal(i, q) => externals'[i] = externals[i]
    BY <1>3 DEF LinkExternalIdentity, OfPrincipal, StoreTyped
  <2> QED BY <2>1, <2>2 DEF NoOrphanPrincipal, OfPrincipal
<1>4. ASSUME NEW p \in PrincipalIds, NEW k \in IssuerKeys, CreateLinkedIdentity(p, k) PROVE Kept
  <2>1. CASE q = p
    <3>1. externals'[k] = [linked |-> TRUE, principal |-> p, status |-> "ACTIVE"]
      BY <1>4 DEF CreateLinkedIdentity, StoreTyped
    <3> QED BY <2>1, <3>1 DEF OfPrincipal
  <2>2. CASE q # p
    <3>1. q \in registered /\ q \in PrincipalIds /\ principals'[q] = principals[q]
      BY <1>4, <2>2 DEF CreateLinkedIdentity, StoreTyped
    <3>2. \A i \in IssuerKeys : OfPrincipal(i, q) => externals'[i] = externals[i]
      BY <1>4 DEF CreateLinkedIdentity, OfPrincipal, StoreTyped
    <3> QED BY <3>1, <3>2 DEF NoOrphanPrincipal, OfPrincipal
  <2> QED BY <2>1, <2>2
<1>5. ASSUME NEW p \in PrincipalIds, NEW k \in IssuerKeys, NEW a \in BOOLEAN,
             UnlinkExternalIdentityAudited(p, k, a)
      PROVE  Kept
  <2>1. q \in registered /\ principals' = principals
    BY <1>5 DEF UnlinkExternalIdentityAudited
  <2>2. externals[k] \in ExternalIdentity
    BY <1>5 DEF UnlinkExternalIdentityAudited, ActiveFor, OfPrincipal, StoreTyped, Unlinked
  <2>3. \A i \in IssuerKeys : OfPrincipal(i, q) => OfPrincipal(i, q)'
    BY <1>5, <2>2 DEF UnlinkExternalIdentityAudited, OfPrincipal, StoreTyped, ExternalIdentity
  <2> QED BY <2>1, <2>3 DEF NoOrphanPrincipal
<1>6. ASSUME NEW p \in PrincipalIds, NEW target \in PrincipalIds, MergePrincipalsAudited(p, target)
      PROVE  Kept
  <2>1. q \in registered /\ q \in PrincipalIds
    BY <1>6 DEF MergePrincipalsAudited, StoreTyped
  <2>2. CASE q = p
    BY <1>6, <2>2 DEF MergePrincipalsAudited, StoreTyped
  <2>3. CASE q # p
    <3>1. principals'[q] = principals[q]
      BY <1>6, <2>1, <2>3 DEF MergePrincipalsAudited, StoreTyped
    <3>2. \A i \in IssuerKeys : OfPrincipal(i, q) => externals'[i] = externals[i]
      BY <1>6, <2>3 DEF MergePrincipalsAudited, TransferredExternals, OfPrincipal
    <3> QED BY <2>1, <3>1, <3>2 DEF NoOrphanPrincipal, OfPrincipal
  <2> QED BY <2>2, <2>3
<1> QED BY Zenon, <1>1, <1>2, <1>3, <1>4, <1>5, <1>6
    DEF IdentityNext, identityVars, CreateWorkforceMembership,
        SetWorkforceMembershipStatus, CreateIdentityReference

\* A merge leaves its source nothing.
LEMMA OperationsStrandNothing ==
  ASSUME StoreTyped, [IdentityNext]_identityVars, NEW q \in PrincipalIds,
         principals[q] = "ACTIVE", principals'[q] = "ARCHIVED"
  PROVE  /\ \A k \in IssuerKeys : ~(externals'[k].linked /\ externals'[k].principal = q)
         /\ \A r \in ReferenceKeys : ~(references'[r].mapped /\ references'[r].principal = q)
         /\ \A t \in MemberTenants : memberships'[<<q, t>>] \in {"ABSENT", "DISABLED"}
<1>1. PICK p \in PrincipalIds, target \in PrincipalIds : MergePrincipalsAudited(p, target)
  BY Zenon DEF IdentityNext, identityVars, CreateIdentity, LinkExternalIdentity, CreateLinkedIdentity,
     UnlinkExternalIdentityAudited, CreateWorkforceMembership, SetWorkforceMembershipStatus,
     CreateIdentityReference, StoreTyped
<1>2. p = q /\ q # target
  BY <1>1 DEF MergePrincipalsAudited, MergeEligible, StoreTyped
<1>3. ASSUME NEW k \in IssuerKeys PROVE ~(externals'[k].linked /\ externals'[k].principal = q)
  <2>1. CASE OfPrincipal(k, q)
    <3>1. externals[k] \in ExternalIdentity
      BY <2>1 DEF OfPrincipal, StoreTyped, Unlinked
    <3>2. externals'[k] = [externals[k] EXCEPT !.principal = target]
      BY <1>1, <1>2, <2>1 DEF MergePrincipalsAudited, TransferredExternals
    <3> QED BY <1>2, <3>1, <3>2 DEF ExternalIdentity
  <2>2. CASE ~OfPrincipal(k, q)
    BY <1>1, <1>2, <2>2 DEF MergePrincipalsAudited, TransferredExternals, OfPrincipal
  <2> QED BY <2>1, <2>2
<1>4. ASSUME NEW r \in ReferenceKeys PROVE ~(references'[r].mapped /\ references'[r].principal = q)
  <2>1. CASE references[r].mapped /\ references[r].principal = q
    <3>1. references[r] \in IdentityReference
      BY <2>1 DEF StoreTyped, Unmapped
    <3>2. references'[r] = [references[r] EXCEPT !.principal = target]
      BY <1>1, <1>2, <2>1 DEF MergePrincipalsAudited, TransferredReferences
    <3> QED BY <1>2, <3>1, <3>2 DEF IdentityReference
  <2>2. CASE ~(references[r].mapped /\ references[r].principal = q)
    BY <1>1, <1>2, <2>2 DEF MergePrincipalsAudited, TransferredReferences
  <2> QED BY <2>1, <2>2
<1>5. ASSUME NEW t \in MemberTenants PROVE memberships'[<<q, t>>] \in {"ABSENT", "DISABLED"}
  BY <1>1, <1>2 DEF MergePrincipalsAudited, MergedMemberships
<1> QED BY <1>3, <1>4, <1>5
-----------------------------------------------------------------------------
(* The transactions *)

\* What a session holds in memory has the type of its operation.
LEMMA SessionShape ==
  ASSUME TxTypeOK, NEW s \in Sessions
  PROVE  /\ sessions[s].op = "looked" => sessions[s] \in LookedUp
         /\ sessions[s].op = "inserted" => sessions[s] \in Inserted
         /\ sessions[s].op = "counted" => sessions[s] \in Counted
         /\ sessions[s].op = "merge" => sessions[s] \in Merge
BY DEF TxTypeOK, NoTx, LookedUp, Inserted, Counted, Merge

\* An unlink that passed its count still may unlink when it commits.
LEMMA CountStands ==
  ASSUME TxInv, NEW s \in Sessions, sessions[s].op = "counted"
  PROVE  UnlinkAllowed(sessions[s].principal, FALSE)
BY DEF TxInv, CountedInv, UnlinkAllowed

\* Every transaction that changes the store commits one whole operation of it.
LEMMA CommitsAreOperations ==
  ASSUME TxInv, [TxNext]_txVars
  PROVE  [IdentityNext]_identityVars
<1>1. CASE UNCHANGED Store
  BY <1>1 DEF Store, identityVars
<1>2. ASSUME NEW s \in Sessions, CreateLinkedIdentityCommits(s) PROVE IdentityNext
  <2>1. sessions[s].principal \in PrincipalIds /\ sessions[s].key \in IssuerKeys
    BY <1>2, SessionShape DEF CreateLinkedIdentityCommits, TxInv, Inserted
  <2> QED BY <1>2, <2>1 DEF CreateLinkedIdentityCommits, IdentityNext
<1>3. ASSUME NEW s \in Sessions, UnlinkCommits(s) PROVE IdentityNext \/ UNCHANGED Store
  <2> DEFINE k == sessions[s].key
             p == sessions[s].principal
  <2>1. k \in IssuerKeys /\ p \in PrincipalIds
    BY <1>3, SessionShape DEF UnlinkCommits, TxInv, Counted
  <2>2. CASE UNCHANGED Store
    BY <2>2
  <2>3. CASE ~UNCHANGED Store
    <3>1. UnlinkAllowed(p, FALSE)
      BY Zenon, <1>3, CountStands DEF UnlinkCommits
    <3>2. UnlinkExternalIdentityAudited(p, k, FALSE)
      BY Zenon, <1>3, <2>3, <3>1 DEF UnlinkCommits, UnlinkExternalIdentityAudited
    <3> QED BY Zenon, <2>1, <3>2 DEF IdentityNext
  <2> QED BY <2>2, <2>3
<1>4. ASSUME NEW s \in Sessions, MergeCommits(s) PROVE IdentityNext
  <2> DEFINE source == sessions[s].source
             target == sessions[s].target
  <2>1. source \in PrincipalIds /\ target \in PrincipalIds
    BY <1>4, SessionShape DEF MergeCommits, TxInv, Merge
  <2>2. MergeEligible(source, target) /\ sessions[s].moved = KeysOf(source)
    BY <1>4 DEF MergeCommits, TxInv, MovedInv
  <2>3. externals' = TransferredExternals(source, target)
    BY <1>4, <2>2 DEF MergeCommits, TransferredExternals, KeysOf
  <2>4. MergePrincipalsAudited(source, target)
    BY <1>4, <2>2, <2>3 DEF MergeCommits, MergePrincipalsAudited
  <2> QED BY <2>1, <2>4 DEF IdentityNext
<1>5. ASSUME NEW s \in Sessions, NEW p \in PrincipalIds,
             \/ \E k \in IssuerKeys : UnlinkAdministratively(s, p, k) \/ LinkCommits(s, p, k)
             \/ \E t \in MemberTenants : MembershipCommits(s, p, t)
             \/ \E r \in ReferenceKeys : ReferenceCommits(s, p, r)
      PROVE  IdentityNext
  BY Zenon, <1>5 DEF UnlinkAdministratively, LinkCommits, MembershipCommits, ReferenceCommits, IdentityNext
<1>6. ASSUME NEW p \in PrincipalIds,
             \/ CreateIdentityCommits(p)
             \/ \E t \in MemberTenants, status \in SetStatuses : StatusCommits(p, t, status)
      PROVE  IdentityNext
  BY <1>6, SetStatusesAssumption DEF CreateIdentityCommits, StatusCommits, IdentityNext
<1> QED BY Zenon, <1>1, <1>2, <1>3, <1>4, <1>5, <1>6
    DEF TxNext, txVars, Store, Register, Resolve, Looked, CreateLinkedIdentityInserts, UnlinkCounts,
        MergeBegins, MergeLocks, MergeMovesExternals, RollsBack
-----------------------------------------------------------------------------
(* What a commit leaves of the other transactions *)

\* A commit ends transactions, and starts none.
Quiet == \A o \in Sessions : sessions'[o] = sessions[o] \/ sessions'[o] = NoTx

\* It leaves the rows that are counted ...
RowsStay ==
  \A o \in Sessions : sessions[o].op = "counted" /\ sessions'[o] = sessions[o] =>
    \A k \in sessions[o].rows : externals'[k] = externals[k]

\* ... and what a merge found.
MergesStay ==
  \A o \in Sessions : sessions[o].op = "merge" /\ sessions[o].wrote /\ sessions'[o] = sessions[o] =>
    LET x == sessions[o]
    IN /\ principals'[x.source] = principals[x.source]
       /\ principals'[x.target] = principals[x.target]
       /\ \A k \in IssuerKeys : OfPrincipal(k, x.source)' <=> OfPrincipal(k, x.source)

OtherInvs == CountedInv /\ HeldInv /\ MovedInv /\ LocksApart

\* A commit that leaves the rows other sessions counted, or merge, keeps what they rely on.
LEMMA QuietCommit ==
  ASSUME TxInv, Quiet, RowsStay, MergesStay
  PROVE  OtherInvs'
<1>1. CountedInv'
  <2> SUFFICES ASSUME NEW s \in Sessions, sessions'[s].op = "counted"
               PROVE  /\ sessions'[s].rows \subseteq (ActiveKeys(sessions[s].principal))'
                      /\ \E j, k \in sessions'[s].rows : j # k
    BY DEF CountedInv
  <2>1. sessions'[s] = sessions[s]
    BY DEF Quiet, NoTx
  <2>2. /\ sessions[s].rows \subseteq ActiveKeys(sessions[s].principal)
        /\ \E j, k \in sessions[s].rows : j # k
    BY <2>1 DEF TxInv, CountedInv
  <2>3. \A k \in sessions[s].rows : externals'[k] = externals[k]
    BY <2>1 DEF RowsStay
  <2> QED BY <2>1, <2>2, <2>3 DEF ActiveKeys, ActiveFor, OfPrincipal
<1>2. HeldInv'
  <2> SUFFICES ASSUME NEW s \in Sessions, sessions'[s].op = "merge"
               PROVE  sessions'[s] = sessions[s]
    BY DEF HeldInv, TxInv, FirstLock, LockOrder
  <2> QED BY DEF Quiet, NoTx
<1>3. MovedInv'
  <2> SUFFICES ASSUME NEW s \in Sessions, sessions'[s].op = "merge", sessions'[s].wrote
               PROVE  /\ MergeEligible(sessions[s].source, sessions[s].target)'
                      /\ sessions'[s].moved = (KeysOf(sessions[s].source))'
    BY DEF MovedInv
  <2>1. sessions'[s] = sessions[s]
    BY DEF Quiet, NoTx
  <2>2. /\ MergeEligible(sessions[s].source, sessions[s].target)
        /\ sessions[s].moved = KeysOf(sessions[s].source)
    BY <2>1 DEF TxInv, MovedInv
  <2>3. MergeEligible(sessions[s].source, sessions[s].target)'
    BY <2>1, <2>2 DEF MergesStay, MergeEligible
  <2>4. (KeysOf(sessions[s].source))' = KeysOf(sessions[s].source)
    <3>1. \A k \in IssuerKeys : OfPrincipal(k, sessions[s].source)' <=> OfPrincipal(k, sessions[s].source)
      BY <2>1 DEF MergesStay
    <3> QED BY <3>1 DEF KeysOf
  <2> QED BY <2>1, <2>2, <2>3, <2>4
<1>4. LocksApart'
  <2>1. \A s \in Sessions : /\ RowsLocked(s)' = RowsLocked(s) \/ RowsLocked(s)' = {}
                            /\ PrincipalsLocked(s)' = PrincipalsLocked(s) \/ PrincipalsLocked(s)' = {}
    BY DEF Quiet, NoTx, RowsLocked, PrincipalsLocked
  <2> QED BY <2>1 DEF TxInv, LocksApart
<1> QED BY <1>1, <1>2, <1>3, <1>4 DEF OtherInvs

\* A transaction that ends, or has no locks yet, disturbs no other.
LEMMA SessionLetsGo ==
  ASSUME TxInv, UNCHANGED Store, NEW s \in Sessions,
         \A o \in Sessions \ {s} : sessions'[o] = sessions[o],
         sessions'[s].op \notin {"counted", "merge"}
  PROVE  OtherInvs'
<1>1. CountedInv'
  BY DEF TxInv, CountedInv, Store, ActiveKeys, ActiveFor, OfPrincipal
<1>2. HeldInv'
  BY DEF HeldInv, TxInv, FirstLock, LockOrder
<1>3. MovedInv'
  BY DEF TxInv, MovedInv, Store, KeysOf, OfPrincipal, MergeEligible
<1>4. LocksApart'
  <2>1. /\ \A o \in Sessions \ {s} : RowsLocked(o)' = RowsLocked(o) /\ PrincipalsLocked(o)' = PrincipalsLocked(o)
        /\ RowsLocked(s)' = {} /\ PrincipalsLocked(s)' = {}
    BY DEF RowsLocked, PrincipalsLocked
  <2> QED BY <2>1 DEF TxInv, LocksApart
<1> QED BY <1>1, <1>2, <1>3, <1>4 DEF OtherInvs

\* The rows counted are the principal's, locked by nobody else, and two.
LEMMA CountKeeps ==
  ASSUME TxInv, NEW s \in Sessions, NEW p \in PrincipalIds, NEW k \in IssuerKeys, UnlinkCounts(s, p, k)
  PROVE  OtherInvs'
<1> DEFINE x == [op |-> "counted", key |-> k, principal |-> p, rows |-> ActiveKeys(p)]
<1>1. /\ sessions'[s] = x
      /\ \A o \in Sessions \ {s} : sessions'[o] = sessions[o]
      /\ UNCHANGED <<principals, externals>>
  BY DEF UnlinkCounts, CountLocks, TxInv, TxTypeOK, Store
<1>2. CountedInv'
  <2>1. \E i, j \in ActiveKeys(p) : i # j
    BY DEF UnlinkCounts, UnlinkAllowed
  <2>2. \A q : (ActiveKeys(q))' = ActiveKeys(q)
    BY <1>1 DEF ActiveKeys, ActiveFor, OfPrincipal
  <2> QED BY <1>1, <2>1, <2>2 DEF TxInv, CountedInv
<1>3. HeldInv'
  BY <1>1 DEF HeldInv, TxInv, FirstLock, LockOrder
<1>4. MovedInv'
  BY <1>1 DEF TxInv, MovedInv, KeysOf, OfPrincipal, MergeEligible
<1>5. LocksApart'
  <2>1. /\ \A o \in Sessions \ {s} : RowsLocked(o)' = RowsLocked(o) /\ PrincipalsLocked(o)' = PrincipalsLocked(o)
        /\ RowsLocked(s)' = ActiveKeys(p) /\ PrincipalsLocked(s)' = {}
    BY <1>1 DEF RowsLocked, PrincipalsLocked
  <2>2. \A o \in Sessions \ {s} : RowsLocked(o) \cap ActiveKeys(p) = {}
    BY DEF UnlinkCounts, RowsFree
  <2> QED BY <2>1, <2>2 DEF TxInv, LocksApart
<1> QED BY <1>2, <1>3, <1>4, <1>5 DEF OtherInvs
\* Two locks taken in order are both principals of the merge.
LEMMA LocksInOrder ==
  ASSUME TxInv, NEW s \in Sessions, sessions[s].op = "merge"
  PROVE  LET x == sessions[s]
         IN /\ ~BothLocked(x) =>
                 /\ ~x.wrote
                 /\ \/ x.held = {} /\ NextLock(x) = FirstLock(x)
                    \/ x.held = {FirstLock(x)} /\ {FirstLock(x), NextLock(x)} = {x.source, x.target}
            /\ x.held # {} /\ ~BothLocked(x) => x.held = {FirstLock(x)}
<1> DEFINE x == sessions[s]
<1>1. /\ x.held \in {{}, {FirstLock(x)}, {x.source, x.target}}
      /\ x.wrote => x.held = {x.source, x.target}
  BY DEF TxInv, HeldInv
<1>2. x.held = {} => NextLock(x) = FirstLock(x)
  BY DEF NextLock, FirstLock
<1>3. {FirstLock(x), LockOrder(x)[2]} = {x.source, x.target}
  BY DEF FirstLock, LockOrder
<1>4. x.held = {FirstLock(x)} => NextLock(x) = LockOrder(x)[2]
  BY DEF NextLock, FirstLock
<1> HIDE DEF x
<1>5. /\ x.held # {} /\ ~BothLocked(x) => x.held = {FirstLock(x)}
      /\ ~BothLocked(x) => ~x.wrote
  BY <1>1 DEF BothLocked
<1> QED BY <1>2, <1>3, <1>4, <1>5 DEF x

\* A merge that locks a principal nobody else holds still has its locks in
\* order, and has written nothing.
LEMMA MergeLocksKeeps ==
  ASSUME TxInv, NEW s \in Sessions, MergeLocks(s)
  PROVE  OtherInvs'
<1> DEFINE x == sessions[s]
           p == NextLock(x)
<1>1. \A o \in Sessions \ {s} : sessions'[o] = sessions[o]
  BY DEF MergeLocks, TxInv, TxTypeOK
<1>2. CASE ~Exists(p)
  <2>1. sessions'[s] = NoTx
    BY <1>2 DEF MergeLocks, TxInv, TxTypeOK
  <2>2. sessions'[s].op \notin {"counted", "merge"} /\ UNCHANGED Store
    BY <2>1 DEF NoTx, MergeLocks
  <2> QED BY <1>1, <2>2, SessionLetsGo
<1>3. CASE Exists(p)
  <2>1. x \in Merge /\ x.op = "merge"
    BY SessionShape DEF MergeLocks, TxInv
  <2>2. sessions'[s] = [x EXCEPT !.held = @ \union {p}]
    BY <1>3 DEF MergeLocks, TxInv, TxTypeOK
  <2>3. /\ sessions'[s].op = "merge" /\ sessions'[s].source = x.source /\ sessions'[s].target = x.target
        /\ sessions'[s].moved = x.moved /\ sessions'[s].wrote = x.wrote
        /\ sessions'[s].held = x.held \union {p}
    BY <2>1, <2>2 DEF Merge
  <2>4. ~x.wrote /\ (x.held \union {p} = {FirstLock(x)} \/ x.held \union {p} = {x.source, x.target})
    BY <2>1, LocksInOrder DEF MergeLocks
  <2>5. x.source # x.target /\ x.moved = {}
    BY <2>1, <2>4 DEF TxInv, HeldInv
  <2>6. FirstLock(sessions[s])' = FirstLock(x)
    BY <2>3 DEF FirstLock, LockOrder
  <2>7. CountedInv'
    BY <1>1, <2>3 DEF MergeLocks, Store, TxInv, CountedInv, ActiveKeys, ActiveFor, OfPrincipal
  <2>8. HeldInv'
    <3> SUFFICES ASSUME NEW o \in Sessions \ {s}
                 PROVE  FirstLock(sessions[o])' = FirstLock(sessions[o])
      BY <1>1, <2>3, <2>4, <2>5, <2>6 DEF TxInv, HeldInv
    <3> QED BY <1>1 DEF FirstLock, LockOrder
  <2>9. MovedInv'
    BY <1>1, <2>3, <2>4 DEF MergeLocks, Store, TxInv, MovedInv, KeysOf, OfPrincipal, MergeEligible
  <2>10. LocksApart'
    <3>1. /\ \A o \in Sessions \ {s} : RowsLocked(o)' = RowsLocked(o) /\ PrincipalsLocked(o)' = PrincipalsLocked(o)
          /\ RowsLocked(s)' = {} /\ PrincipalsLocked(s)' = PrincipalsLocked(s) \union {p}
      BY <1>1, <2>1, <2>3, <2>5 DEF RowsLocked, PrincipalsLocked
    <3>2. \A o \in Sessions \ {s} : p \notin PrincipalsLocked(o)
      BY DEF MergeLocks, PrincipalFree
    <3> QED BY <3>1, <3>2 DEF TxInv, LocksApart
  <2> QED BY <2>7, <2>8, <2>9, <2>10 DEF OtherInvs
<1> QED BY <1>2, <1>3

\* A merge that writes has both locks, two ACTIVE principals, and all rows of
\* its source.
LEMMA MergeMovesKeeps ==
  ASSUME TxInv, NEW s \in Sessions, MergeMovesExternals(s)
  PROVE  OtherInvs'
<1> DEFINE x == sessions[s]
<1>1. (\A o \in Sessions \ {s} : sessions'[o] = sessions[o]) /\ UNCHANGED Store
  BY DEF MergeMovesExternals, TxInv, TxTypeOK
<1>2. CASE ~StillEligible(x)
  <2>1. sessions'[s] = NoTx
    BY <1>2 DEF MergeMovesExternals, TxInv, TxTypeOK
  <2>2. sessions'[s].op \notin {"counted", "merge"}
    BY <2>1 DEF NoTx
  <2> QED BY <1>1, <2>2, SessionLetsGo
<1>3. CASE StillEligible(x)
  <2>1. x \in Merge /\ x.op = "merge"
    BY SessionShape DEF MergeMovesExternals, TxInv
  <2>2. sessions'[s] = [x EXCEPT !.moved = KeysOf(x.source), !.wrote = TRUE]
        /\ RowsFree(s, KeysOf(x.source))
    BY Zenon, <1>3 DEF MergeMovesExternals, TxInv, TxTypeOK, KeysOf
  <2>3. /\ sessions'[s].op = "merge" /\ sessions'[s].source = x.source /\ sessions'[s].target = x.target
        /\ sessions'[s].moved = KeysOf(x.source) /\ sessions'[s].wrote = TRUE
        /\ sessions'[s].held = x.held
    BY <2>1, <2>2 DEF Merge
  <2>4. x.held = {x.source, x.target} /\ x.source # x.target
    BY <2>1, LocksInOrder DEF BothLocked, MergeMovesExternals, TxInv, HeldInv
  <2>5. CountedInv'
    BY <1>1, <2>3 DEF Store, TxInv, CountedInv, ActiveKeys, ActiveFor, OfPrincipal
  <2>6. HeldInv'
    <3> SUFFICES ASSUME NEW o \in Sessions \ {s}
                 PROVE  FirstLock(sessions[o])' = FirstLock(sessions[o])
      BY <1>1, <2>3, <2>4 DEF TxInv, HeldInv
    <3> QED BY <1>1 DEF FirstLock, LockOrder
  <2>7. MovedInv'
    <3>1. \A q : (KeysOf(q))' = KeysOf(q)
      BY <1>1 DEF Store, KeysOf, OfPrincipal
    <3>2. \A q, r : MergeEligible(q, r)' <=> MergeEligible(q, r)
      BY <1>1 DEF Store, MergeEligible
    <3>3. MergeEligible(x.source, x.target)
      BY <1>3 DEF StillEligible
    <3> QED BY <1>1, <2>3, <3>1, <3>2, <3>3 DEF TxInv, MovedInv
  <2>8. LocksApart'
    <3>1. /\ \A o \in Sessions \ {s} : RowsLocked(o)' = RowsLocked(o) /\ PrincipalsLocked(o)' = PrincipalsLocked(o)
          /\ RowsLocked(s)' = KeysOf(x.source) /\ PrincipalsLocked(s)' = PrincipalsLocked(s)
      BY <1>1, <2>1, <2>3 DEF RowsLocked, PrincipalsLocked
    <3> QED BY <2>2, <3>1 DEF TxInv, LocksApart, RowsFree
  <2> QED BY <2>5, <2>6, <2>7, <2>8 DEF OtherInvs
<1> QED BY <1>2, <1>3
\* A merge begins with no lock.
LEMMA MergeBeginsKeeps ==
  ASSUME TxInv, NEW s \in Sessions, NEW p \in PrincipalIds, NEW q \in PrincipalIds, MergeBegins(s, p, q)
  PROVE  OtherInvs'
<1>1. /\ sessions'[s] = [op |-> "merge", source |-> p, target |-> q, held |-> {}, moved |-> {}, wrote |-> FALSE]
      /\ p # q
      /\ (\A o \in Sessions \ {s} : sessions'[o] = sessions[o]) /\ UNCHANGED Store
  BY DEF MergeBegins, TxInv, TxTypeOK
<1>2. CountedInv'
  BY <1>1 DEF Store, TxInv, CountedInv, ActiveKeys, ActiveFor, OfPrincipal
<1>3. HeldInv'
  <2> SUFFICES ASSUME NEW o \in Sessions \ {s}
               PROVE  FirstLock(sessions[o])' = FirstLock(sessions[o])
    BY <1>1 DEF TxInv, HeldInv
  <2> QED BY <1>1 DEF FirstLock, LockOrder
<1>4. MovedInv'
  BY <1>1 DEF Store, TxInv, MovedInv, KeysOf, OfPrincipal, MergeEligible
<1>5. LocksApart'
  <2>1. /\ \A o \in Sessions \ {s} : RowsLocked(o)' = RowsLocked(o) /\ PrincipalsLocked(o)' = PrincipalsLocked(o)
        /\ RowsLocked(s)' = {} /\ PrincipalsLocked(s)' = {}
    BY <1>1 DEF RowsLocked, PrincipalsLocked
  <2> QED BY <2>1 DEF TxInv, LocksApart
<1> QED BY <1>2, <1>3, <1>4, <1>5 DEF OtherInvs

\* The locks and rows of a session, by what it does.
LEMMA LocksOf ==
  ASSUME TxInv, NEW o \in Sessions
  PROVE  /\ sessions[o].op = "counted" =>
              /\ RowsLocked(o) = sessions[o].rows
              /\ sessions[o].rows \subseteq IssuerKeys
              /\ \A k \in sessions[o].rows : ActiveFor(k, sessions[o].principal)
         /\ sessions[o].op = "merge" /\ sessions[o].wrote =>
              /\ RowsLocked(o) = KeysOf(sessions[o].source)
              /\ PrincipalsLocked(o) = {sessions[o].source, sessions[o].target}
              /\ sessions[o].source \in PrincipalIds /\ sessions[o].target \in PrincipalIds
              /\ principals[sessions[o].source] = "ACTIVE" /\ principals[sessions[o].target] = "ACTIVE"
BY SessionShape DEF TxInv, CountedInv, HeldInv, MovedInv, MergeEligible, RowsLocked, PrincipalsLocked,
   ActiveKeys, Merge, Counted

\* Linking a new key, for a principal no merge holds, or for a new one.
LEMMA LinkKeeps ==
  ASSUME TxInv, Quiet, NEW p \in PrincipalIds, NEW k \in IssuerKeys,
         \/ LinkExternalIdentity(p, k) /\ (\A o \in Sessions : sessions'[o] = sessions[o] =>
                                              p \notin PrincipalsLocked(o))
         \/ CreateLinkedIdentity(p, k)
  PROVE  OtherInvs'
<1>1. /\ ~externals[k].linked
      /\ externals' = [externals EXCEPT ![k] = [linked |-> TRUE, principal |-> p, status |-> "ACTIVE"]]
      /\ \A q \in PrincipalIds : principals[q] = "ACTIVE" => principals'[q] = principals[q]
  BY DEF LinkExternalIdentity, CreateLinkedIdentity, TxInv, TxTypeOK, Exists
<1>2. \A i \in IssuerKeys : i # k => externals'[i] = externals[i]
  BY <1>1 DEF TxInv, TxTypeOK
<1>3. RowsStay
  BY <1>1, <1>2, LocksOf DEF RowsStay, ActiveFor, OfPrincipal
<1>4. MergesStay
  <2> SUFFICES ASSUME NEW o \in Sessions, sessions[o].op = "merge", sessions[o].wrote, sessions'[o] = sessions[o]
               PROVE  /\ principals'[sessions[o].source] = principals[sessions[o].source]
                      /\ principals'[sessions[o].target] = principals[sessions[o].target]
                      /\ \A i \in IssuerKeys :
                           OfPrincipal(i, sessions[o].source)' <=> OfPrincipal(i, sessions[o].source)
    BY DEF MergesStay
  <2>1. p # sessions[o].source
    BY LocksOf DEF CreateLinkedIdentity, Exists
  <2>2. externals'[k] = [linked |-> TRUE, principal |-> p, status |-> "ACTIVE"]
    BY <1>1 DEF TxInv, TxTypeOK
  <2>3. \A i \in IssuerKeys : OfPrincipal(i, sessions[o].source)' <=> OfPrincipal(i, sessions[o].source)
    BY <1>1, <1>2, <2>1, <2>2 DEF OfPrincipal
  <2> QED BY <1>1, <2>3, LocksOf
<1> QED BY <1>3, <1>4, QuietCommit

\* Unlinking a row that no other transaction locks.
LEMMA UnlinkKeeps ==
  ASSUME TxInv, Quiet, NEW k \in IssuerKeys, externals[k].linked,
         externals' = [externals EXCEPT ![k].status = "UNLINKED"], principals' = principals,
         \A o \in Sessions : sessions'[o] = sessions[o] => k \notin RowsLocked(o)
  PROVE  OtherInvs'
<1>1. \A i \in IssuerKeys : i # k => externals'[i] = externals[i]
  BY DEF TxInv, TxTypeOK
<1>2. RowsStay
  BY <1>1, LocksOf DEF RowsStay
<1>3. externals[k] \in ExternalIdentity
  BY DEF TxInv, TxTypeOK, Unlinked
<1>4. externals'[k].linked = externals[k].linked /\ externals'[k].principal = externals[k].principal
  BY Zenon, <1>3 DEF TxInv, TxTypeOK, ExternalIdentity
<1>5. MergesStay
  BY <1>1, <1>4 DEF MergesStay, OfPrincipal
<1> QED BY <1>2, <1>5, QuietCommit

\* A merge commits on rows and principals no other transaction locks.
LEMMA MergeCommitKeeps ==
  ASSUME TxInv, NEW s \in Sessions, MergeCommits(s)
  PROVE  OtherInvs'
<1> DEFINE source == sessions[s].source
           target == sessions[s].target
<1>1. Quiet /\ sessions'[s] = NoTx /\ sessions[s] # NoTx
  BY DEF Quiet, MergeCommits, TxInv, TxTypeOK, NoTx
<1>2. /\ RowsLocked(s) = KeysOf(source) /\ PrincipalsLocked(s) = {source, target}
      /\ source \in PrincipalIds /\ target \in PrincipalIds
      /\ sessions[s].moved = KeysOf(source)
  BY LocksOf DEF MergeCommits, TxInv, MovedInv
<1>3. \A k \in IssuerKeys : k \notin KeysOf(source) => externals'[k] = externals[k]
  BY <1>2 DEF MergeCommits
<1>4. \A k \in KeysOf(source) : externals'[k] = [externals[k] EXCEPT !.principal = target]
  BY <1>2 DEF MergeCommits, KeysOf
<1>5. \A k \in KeysOf(source) : OfPrincipal(k, source) /\ externals'[k].principal = target
  <2> SUFFICES ASSUME NEW k \in KeysOf(source)
               PROVE  OfPrincipal(k, source) /\ externals'[k].principal = target
    OBVIOUS
  <2>1. OfPrincipal(k, source) /\ externals[k] \in ExternalIdentity
    BY DEF KeysOf, OfPrincipal, TxInv, TxTypeOK, Unlinked
  <2> QED BY Zenon, <1>4, <2>1 DEF OfPrincipal, ExternalIdentity
<1>6. RowsStay
  BY <1>1, <1>2, <1>3, LocksOf DEF RowsStay, TxInv, LocksApart
<1>7. MergesStay
  <2> SUFFICES ASSUME NEW o \in Sessions, sessions[o].op = "merge", sessions[o].wrote, sessions'[o] = sessions[o]
               PROVE  /\ principals'[sessions[o].source] = principals[sessions[o].source]
                      /\ principals'[sessions[o].target] = principals[sessions[o].target]
                      /\ \A i \in IssuerKeys :
                           OfPrincipal(i, sessions[o].source)' <=> OfPrincipal(i, sessions[o].source)
    BY DEF MergesStay
  <2>1. o # s /\ PrincipalsLocked(o) = {sessions[o].source, sessions[o].target}
        /\ sessions[o].source \in PrincipalIds /\ sessions[o].target \in PrincipalIds
    BY <1>1, LocksOf
  <2>2. sessions[o].source \notin {source, target} /\ sessions[o].target \notin {source, target}
    BY <1>2, <2>1 DEF TxInv, LocksApart
  <2>3. \A q \in PrincipalIds : q # source => principals'[q] = principals[q]
    BY <1>2 DEF MergeCommits, TxInv, TxTypeOK
  <2>4. \A i \in IssuerKeys : OfPrincipal(i, sessions[o].source)' <=> OfPrincipal(i, sessions[o].source)
    <3> SUFFICES ASSUME NEW i \in IssuerKeys
                 PROVE  OfPrincipal(i, sessions[o].source)' <=> OfPrincipal(i, sessions[o].source)
      OBVIOUS
    <3>1. CASE i \in KeysOf(source)
      BY <1>5, <2>1, <2>2, <3>1 DEF OfPrincipal
    <3>2. CASE i \notin KeysOf(source)
      BY <1>3, <3>2 DEF OfPrincipal
    <3> QED BY <3>1, <3>2
  <2> QED BY <2>1, <2>2, <2>3, <2>4
<1> QED BY <1>1, <1>6, <1>7, QuietCommit
-----------------------------------------------------------------------------
(* The implementation *)

\* Every step keeps what a session holds of its type.
LEMMA SessionsTyped ==
  ASSUME TxInv, [TxNext]_txVars
  PROVE  sessions' \in [Sessions -> {NoTx} \union LookedUp \union Inserted \union Counted \union Merge]
<1> DEFINE Typed == sessions' \in [Sessions -> {NoTx} \union LookedUp \union Inserted \union Counted \union Merge]
<1> SUFFICES Typed
  OBVIOUS
<1>1. CASE sessions' = sessions
  BY <1>1 DEF TxInv, TxTypeOK
<1>2. ASSUME NEW s \in Sessions, sessions' = [sessions EXCEPT ![s] = NoTx] PROVE Typed
  BY <1>2 DEF TxInv, TxTypeOK
<1>3. ASSUME NEW s \in Sessions, NEW k \in IssuerKeys, Looked(s, k) PROVE Typed
  BY <1>3 DEF Looked, TxInv, TxTypeOK, LookedUp
<1>4. ASSUME NEW s \in Sessions, NEW p \in PrincipalIds, CreateLinkedIdentityInserts(s, p) PROVE Typed
  <2>1. sessions[s].key \in IssuerKeys
    BY <1>4, SessionShape DEF TxInv, CreateLinkedIdentityInserts, LookedUp
  <2>2. [op |-> "inserted", key |-> sessions[s].key, principal |-> p] \in Inserted
    BY <2>1 DEF Inserted
  <2> QED BY <1>4, <2>2 DEF CreateLinkedIdentityInserts, TxInv, TxTypeOK
<1>5. ASSUME NEW s \in Sessions, NEW p \in PrincipalIds, NEW k \in IssuerKeys, UnlinkCounts(s, p, k)
      PROVE  Typed
  <2>1. [op |-> "counted", key |-> k, principal |-> p, rows |-> CountLocks(p)] \in Counted
    BY DEF Counted, CountLocks, ActiveKeys
  <2> QED BY <1>5, <2>1 DEF UnlinkCounts, TxInv, TxTypeOK
<1>6. ASSUME NEW s \in Sessions, NEW p \in PrincipalIds, NEW q \in PrincipalIds, MergeBegins(s, p, q)
      PROVE  Typed
  <2>1. [op |-> "merge", source |-> p, target |-> q, held |-> {}, moved |-> {}, wrote |-> FALSE] \in Merge
    BY DEF Merge
  <2> QED BY <1>6, <2>1 DEF MergeBegins, TxInv, TxTypeOK
<1>7. ASSUME NEW s \in Sessions, MergeLocks(s) PROVE Typed
  <2>1. sessions[s] \in Merge
    BY <1>7, SessionShape DEF TxInv, MergeLocks
  <2>2. CASE ~Exists(NextLock(sessions[s]))
    BY Zenon, <1>2, <1>7, <2>2 DEF MergeLocks
  <2>3. CASE Exists(NextLock(sessions[s]))
    <3> DEFINE x == [sessions[s] EXCEPT !.held = sessions[s].held \union {NextLock(sessions[s])}]
    <3>1. NextLock(sessions[s]) \in PrincipalIds
      <4>1. NextLock(sessions[s]) \in {sessions[s].source, sessions[s].target}
        BY <1>7, LocksInOrder DEF MergeLocks, FirstLock, LockOrder
      <4> QED BY <2>1, <4>1 DEF Merge
    <3>2. x \in Merge
      BY <2>1, <3>1 DEF Merge
    <3>3. sessions' = [sessions EXCEPT ![s] = x]
      BY <1>7, <2>3 DEF MergeLocks
    <3> QED BY <3>2, <3>3 DEF TxInv, TxTypeOK
  <2> QED BY <2>2, <2>3
<1>8. ASSUME NEW s \in Sessions, MergeMovesExternals(s) PROVE Typed
  <2>1. sessions[s] \in Merge
    BY <1>8, SessionShape DEF TxInv, MergeMovesExternals
  <2>2. CASE ~StillEligible(sessions[s])
    BY <1>2, <1>8, <2>2 DEF MergeMovesExternals
  <2>3. CASE StillEligible(sessions[s])
    <3> DEFINE x == [sessions[s] EXCEPT !.moved = KeysOf(sessions[s].source), !.wrote = TRUE]
    <3>1. x \in Merge
      BY Zenon, <2>1 DEF Merge, KeysOf
    <3>2. sessions' = [sessions EXCEPT ![s] = x]
      BY Zenon, <1>8, <2>3 DEF MergeMovesExternals, KeysOf, TxInv, TxTypeOK
    <3> QED BY <3>1, <3>2 DEF TxInv, TxTypeOK
  <2> QED BY <2>2, <2>3
<1> QED BY Zenon, <1>1, <1>2, <1>3, <1>4, <1>5, <1>6, <1>7, <1>8
    DEF TxNext, txVars, Register, Resolve, CreateLinkedIdentityCommits, UnlinkAdministratively,
        LinkCommits, UnlinkCommits, MergeCommits, RollsBack, MembershipCommits, ReferenceCommits,
        CreateIdentityCommits, StatusCommits
\* Every statement of every transaction keeps the invariant.
LEMMA StepKeepsTxInv ==
  ASSUME TxInv, [TxNext]_txVars
  PROVE  TxInv'
<1>1. TxTypeOK'
  <2>1. StoreTyped'
    BY CommitsAreOperations, OperationsTyped DEF TxInv, TxTypeOK, StoreTyped
  <2> QED BY <2>1, SessionsTyped DEF StoreTyped, TxTypeOK
<1>2. OtherInvs'
  <2>1. CASE UNCHANGED txVars
    <3>1. Quiet /\ RowsStay /\ MergesStay
      BY <2>1 DEF txVars, Quiet, RowsStay, MergesStay, OfPrincipal
    <3> QED BY <3>1, QuietCommit
  <2>2. ASSUME NEW s \in Sessions, UNCHANGED Store,
               \/ \E k \in IssuerKeys : sessions' = [sessions EXCEPT ![s] = [op |-> "looked", key |-> k]]
               \/ \E k \in IssuerKeys, p \in PrincipalIds :
                    sessions' = [sessions EXCEPT ![s] = [op |-> "inserted", key |-> k, principal |-> p]]
               \/ sessions' = [sessions EXCEPT ![s] = NoTx]
        PROVE  OtherInvs'
    <3>1. /\ \A o \in Sessions \ {s} : sessions'[o] = sessions[o]
          /\ sessions'[s].op \notin {"counted", "merge"}
      BY <2>2 DEF TxInv, TxTypeOK, NoTx
    <3> QED BY <2>2, <3>1, SessionLetsGo
  <2>3. ASSUME NEW s \in Sessions, NEW k \in IssuerKeys, Register(s, k) \/ Resolve(s, k) PROVE OtherInvs'
    BY <2>2, <2>3 DEF Register, Resolve, Looked
  <2>4. ASSUME NEW s \in Sessions, NEW p \in PrincipalIds, CreateLinkedIdentityInserts(s, p) PROVE OtherInvs'
    <3>1. sessions[s].key \in IssuerKeys
      BY <2>4, SessionShape DEF CreateLinkedIdentityInserts, TxInv, LookedUp
    <3> QED BY Zenon, <2>2, <2>4, <3>1 DEF CreateLinkedIdentityInserts
  <2>5. ASSUME NEW s \in Sessions, CreateLinkedIdentityCommits(s) PROVE OtherInvs'
    <3>1. sessions[s].principal \in PrincipalIds /\ sessions[s].key \in IssuerKeys
      BY <2>5, SessionShape DEF CreateLinkedIdentityCommits, TxInv, Inserted
    <3>2. Quiet
      BY <2>5 DEF CreateLinkedIdentityCommits, Quiet, TxInv, TxTypeOK
    <3> QED BY <2>5, <3>1, <3>2, LinkKeeps DEF CreateLinkedIdentityCommits
  <2>6. ASSUME NEW s \in Sessions, NEW p \in PrincipalIds, NEW k \in IssuerKeys, LinkCommits(s, p, k)
        PROVE  OtherInvs'
    <3>1. Quiet
      BY <2>6 DEF LinkCommits, Quiet
    <3>2. \A o \in Sessions : p \notin PrincipalsLocked(o)
      BY <2>6 DEF LinkCommits, PrincipalFree, PrincipalsLocked, NoTx
    <3> QED BY <2>6, <3>1, <3>2, LinkKeeps DEF LinkCommits
  <2>7. ASSUME NEW s \in Sessions, NEW p \in PrincipalIds, NEW k \in IssuerKeys, UnlinkAdministratively(s, p, k)
        PROVE  OtherInvs'
    <3>1. Quiet
      BY <2>7 DEF UnlinkAdministratively, Quiet
    <3>2. \A o \in Sessions : k \notin RowsLocked(o)
      BY <2>7 DEF UnlinkAdministratively, RowsFree, RowsLocked, NoTx
    <3> QED BY Zenon, <2>7, <3>1, <3>2, UnlinkKeeps
        DEF UnlinkAdministratively, UnlinkExternalIdentityAudited, ActiveFor, OfPrincipal
  <2>8. ASSUME NEW s \in Sessions, UnlinkCommits(s) PROVE OtherInvs'
    <3>1. CASE UNCHANGED Store
      BY Zenon, <2>2, <2>8, <3>1 DEF UnlinkCommits
    <3>2. CASE ~UNCHANGED Store
      <4>1. sessions[s].key \in IssuerKeys
        BY <2>8, SessionShape DEF UnlinkCommits, TxInv, Counted
      <4>2. Quiet /\ sessions'[s] # sessions[s]
        BY <2>8 DEF UnlinkCommits, Quiet, TxInv, TxTypeOK, NoTx
      <4>3. \A o \in Sessions : sessions'[o] = sessions[o] => sessions[s].key \notin RowsLocked(o)
        BY <2>8, <4>2 DEF UnlinkCommits, RowsFree
      <4>4. /\ externals[sessions[s].key].linked /\ principals' = principals
            /\ externals' = [externals EXCEPT ![sessions[s].key].status = "UNLINKED"]
        BY <2>8, <3>2 DEF UnlinkCommits, ActiveFor, OfPrincipal
      <4> QED BY Zenon, <4>1, <4>2, <4>3, <4>4, UnlinkKeeps
    <3> QED BY <3>1, <3>2
  <2>9. ASSUME UNCHANGED <<externals, sessions>>,
               \A p \in PrincipalIds : principals[p] = "ACTIVE" => principals'[p] = "ACTIVE"
        PROVE  OtherInvs'
    <3>1. Quiet /\ RowsStay
      BY <2>9 DEF Quiet, RowsStay
    <3>2. MergesStay
      BY <2>9, LocksOf DEF MergesStay, OfPrincipal
    <3> QED BY <3>1, <3>2, QuietCommit
  <2>10. ASSUME NEW p \in PrincipalIds,
                \/ CreateIdentityCommits(p)
                \/ \E t \in MemberTenants, status \in SetStatuses : StatusCommits(p, t, status)
                \/ \E s \in Sessions, t \in MemberTenants : MembershipCommits(s, p, t)
                \/ \E s \in Sessions, r \in ReferenceKeys : ReferenceCommits(s, p, r)
         PROVE  OtherInvs'
    BY Zenon, <2>9, <2>10 DEF CreateIdentityCommits, CreateIdentity, Exists, StatusCommits,
       SetWorkforceMembershipStatus, MembershipCommits, CreateWorkforceMembership, ReferenceCommits,
       CreateIdentityReference, TxInv, TxTypeOK
  <2>11. ASSUME NEW s \in Sessions, RollsBack(s) PROVE OtherInvs'
    BY Zenon, <2>2, <2>11 DEF RollsBack
  <2> QED BY <2>1, <2>3, <2>4, <2>5, <2>6, <2>7, <2>8, <2>10, <2>11, CountKeeps, MergeBeginsKeeps,
             MergeLocksKeeps, MergeMovesKeeps, MergeCommitKeeps DEF TxNext
<1> QED BY <1>1, <1>2 DEF OtherInvs, TxInv

\* The inductive invariant of the identity transactions holds in every state.
THEOREM TxInvariant == TxSpec => []TxInv
<1>1. TxInit => TxInv
  BY DEF TxInit, IdentityInit, TxInv, TxTypeOK, CountedInv, HeldInv, MovedInv, LocksApart, RowsLocked,
     PrincipalsLocked, NoTx
<1>2. TxInv /\ [TxNext]_txVars => TxInv'
  BY StepKeepsTxInv
<1> QED BY <1>1, <1>2, PTL DEF TxSpec

\* Every value has its type, whatever the interleaving of transactions.
THEOREM IdentitiesTyped == TxSpec => []TxTypeOK
BY TxInvariant, PTL DEF TxInv

\* No circle of merges: two merges of one pair lock the same principal first.
THEOREM NoMergeDeadlock == TxSpec => []MergesNeverDeadlock
<1>1. TxInv => MergesNeverDeadlock
  <2> SUFFICES ASSUME TxInv, NEW s \in Sessions, NEW o \in Sessions,
                      sessions[s].op = "merge", sessions[o].op = "merge",
                      sessions[s].held # {}, ~BothLocked(sessions[s]),
                      sessions[o].held # {}, ~BothLocked(sessions[o]),
                      {sessions[s].source, sessions[s].target} = {sessions[o].source, sessions[o].target}
               PROVE  sessions[s].held = sessions[o].held
    BY DEF MergesNeverDeadlock
  <2>1. sessions[s].held = {FirstLock(sessions[s])} /\ sessions[o].held = {FirstLock(sessions[o])}
    BY LocksInOrder
  <2>2. /\ sessions[s].source \in Nat /\ sessions[s].target \in Nat
        /\ sessions[o].source \in Nat /\ sessions[o].target \in Nat
    BY Zenon, SessionShape, PrincipalIdsAssumption DEF TxInv, Merge
  <2>3. FirstLock(sessions[s]) = FirstLock(sessions[o])
    BY <2>2 DEF FirstLock, LockOrder
  <2> QED BY <2>1, <2>3
<1> QED BY <1>1, TxInvariant, PTL

\* A principal loses its last usable credential only to an administrator or
\* to its own merge, however unlinks interleave.
THEOREM LastCredentialAlwaysKept == TxSpec => LastCredentialKept
<1> DEFINE Kept == \A p \in PrincipalIds :
             (ActiveKeys(p) # {} /\ (ActiveKeys(p))' = {}) =>
               \/ principals'[p] = "ARCHIVED" /\ principals[p] = "ACTIVE"
               \/ p \in stripped'
<1>1. TxInv /\ [TxNext]_txVars => Kept
  BY CommitsAreOperations, OperationsKeepLastCredential DEF TxInv, TxTypeOK, StoreTyped
<1> HIDE DEF Kept
<1>2. TxInv /\ [TxNext]_txVars => [Kept]_txVars
  BY <1>1
<1>3. TxSpec => [][Kept]_txVars
  BY <1>2, TxInvariant, PTL DEF TxSpec
<1> QED BY <1>3 DEF LastCredentialKept, Kept

\* A registration leaves no principal without an external identity.
THEOREM NobodyOrphaned == TxSpec => []NoOrphanPrincipal
<1>1. TxInit => NoOrphanPrincipal
  BY Zenon DEF TxInit, IdentityInit, NoOrphanPrincipal
<1>2. TxInv /\ NoOrphanPrincipal /\ [TxNext]_txVars => NoOrphanPrincipal'
  BY CommitsAreOperations, OperationsOrphanNobody DEF TxInv, TxTypeOK, StoreTyped
<1> QED BY <1>1, <1>2, TxInvariant, PTL DEF TxSpec

\* A merge leaves nothing usable with the principal it archives.
THEOREM MergesStrandNothing == TxSpec => MergeStrandsNothing
<1> DEFINE Clean == \A p \in PrincipalIds :
             (principals[p] = "ACTIVE" /\ principals'[p] = "ARCHIVED") =>
               /\ \A k \in IssuerKeys : ~(externals'[k].linked /\ externals'[k].principal = p)
               /\ \A r \in ReferenceKeys : ~(references'[r].mapped /\ references'[r].principal = p)
               /\ \A t \in MemberTenants : memberships'[<<p, t>>] \in {"ABSENT", "DISABLED"}
<1>1. TxInv /\ [TxNext]_txVars => Clean
  BY CommitsAreOperations, OperationsStrandNothing DEF TxInv, TxTypeOK, StoreTyped
<1> HIDE DEF Clean
<1>2. TxInv /\ [TxNext]_txVars => [Clean]_txVars
  BY <1>1
<1>3. TxSpec => [][Clean]_txVars
  BY <1>2, TxInvariant, PTL DEF TxSpec
<1> QED BY Zenon, <1>3 DEF MergeStrandsNothing, Clean

\* The refinement: PostgreSQL's transactions, interleaved statement by
\* statement, take only steps of the in-memory store.
THEOREM TransactionsImplementStore == TxSpec => ImplementsIdentityStore
<1>1. TxInit => Abstract!IdentityInit
  BY DEF TxInit, IdentityInit, Abstract!IdentityInit, Unlinked, Abstract!Unlinked, Unmapped, Abstract!Unmapped
<1>2. TxInv /\ [TxNext]_txVars => [Abstract!IdentityNext]_(Abstract!identityVars)
  <2> SUFFICES ASSUME [IdentityNext]_identityVars PROVE [Abstract!IdentityNext]_(Abstract!identityVars)
    BY CommitsAreOperations
  <2>1. CASE UNCHANGED identityVars
    BY <2>1 DEF identityVars, Abstract!identityVars
  <2>2. ASSUME NEW p \in PrincipalIds, CreateIdentity(p) PROVE Abstract!CreateIdentity(p)
    BY <2>2 DEF CreateIdentity, Abstract!CreateIdentity, Exists, Abstract!Exists
  <2>3. ASSUME NEW p \in PrincipalIds, NEW k \in IssuerKeys, LinkExternalIdentity(p, k)
        PROVE  Abstract!LinkExternalIdentity(p, k)
    BY <2>3 DEF LinkExternalIdentity, Abstract!LinkExternalIdentity, Exists, Abstract!Exists
  <2>4. ASSUME NEW p \in PrincipalIds, NEW k \in IssuerKeys, CreateLinkedIdentity(p, k)
        PROVE  Abstract!CreateLinkedIdentity(p, k)
    BY <2>4 DEF CreateLinkedIdentity, Abstract!CreateLinkedIdentity, Exists, Abstract!Exists
  <2>5. ASSUME NEW p \in PrincipalIds, NEW k \in IssuerKeys, NEW a \in BOOLEAN,
               UnlinkExternalIdentityAudited(p, k, a)
        PROVE  Abstract!UnlinkExternalIdentityAudited(p, k, a)
    <3>1. ActiveFor(k, p) <=> Abstract!ActiveFor(k, p)
      BY DEF ActiveFor, Abstract!ActiveFor, OfPrincipal, Abstract!OfPrincipal
    <3>2. ActiveKeys(p) = Abstract!ActiveKeys(p)
      BY DEF ActiveKeys, Abstract!ActiveKeys, ActiveFor, Abstract!ActiveFor, OfPrincipal, Abstract!OfPrincipal
    <3>3. UnlinkAllowed(p, a) => Abstract!UnlinkAllowed(p, a)
      BY <3>2 DEF UnlinkAllowed, Abstract!UnlinkAllowed
    <3> QED BY <2>5, <3>1, <3>3 DEF UnlinkExternalIdentityAudited, Abstract!UnlinkExternalIdentityAudited
  <2>6. ASSUME NEW p \in PrincipalIds, NEW target \in PrincipalIds, MergePrincipalsAudited(p, target)
        PROVE  Abstract!MergePrincipalsAudited(p, target)
    <3>1. MergeEligible(p, target) <=> Abstract!MergeEligible(p, target)
      BY DEF MergeEligible, Abstract!MergeEligible
    <3>2. TransferredExternals(p, target) = Abstract!TransferredExternals(p, target)
      BY DEF TransferredExternals, Abstract!TransferredExternals, OfPrincipal, Abstract!OfPrincipal
    <3>3. TransferredReferences(p, target) = Abstract!TransferredReferences(p, target)
      BY DEF TransferredReferences, Abstract!TransferredReferences
    <3>4. MergedMemberships(p, target) = Abstract!MergedMemberships(p, target)
      BY DEF MergedMemberships, Abstract!MergedMemberships
    <3> QED BY <2>6, <3>1, <3>2, <3>3, <3>4 DEF MergePrincipalsAudited, Abstract!MergePrincipalsAudited
  <2>7. ASSUME NEW p \in PrincipalIds, NEW t \in MemberTenants, CreateWorkforceMembership(p, t)
        PROVE  Abstract!CreateWorkforceMembership(p, t)
    BY <2>7 DEF CreateWorkforceMembership, Abstract!CreateWorkforceMembership, Exists, Abstract!Exists
  <2>8. ASSUME NEW p \in PrincipalIds, NEW t \in MemberTenants, NEW s \in MembershipStatuses,
               SetWorkforceMembershipStatus(p, t, s)
        PROVE  s \in Abstract!MembershipStatuses /\ Abstract!SetWorkforceMembershipStatus(p, t, s)
    BY <2>8 DEF SetWorkforceMembershipStatus, Abstract!SetWorkforceMembershipStatus,
       MembershipStatuses, Abstract!MembershipStatuses
  <2>9. ASSUME NEW p \in PrincipalIds, NEW r \in ReferenceKeys, CreateIdentityReference(p, r)
        PROVE  Abstract!CreateIdentityReference(p, r)
    BY <2>9 DEF CreateIdentityReference, Abstract!CreateIdentityReference, Exists, Abstract!Exists
  <2>10. CASE IdentityNext
    BY <2>2, <2>3, <2>4, <2>5, <2>6, <2>7, <2>8, <2>9, <2>10 DEF IdentityNext, Abstract!IdentityNext
  <2> QED BY <2>1, <2>10
<1> QED BY <1>1, <1>2, TxInvariant, PTL DEF TxSpec, ImplementsIdentityStore, Abstract!IdentitySpec

\* All that the identity transactions promise.
THEOREM IdentitiesKeepPromises == TxSpec => IdentityPromises
BY IdentitiesTyped, NobodyOrphaned, NoMergeDeadlock, LastCredentialAlwaysKept, MergesStrandNothing,
   TransactionsImplementStore, PTL DEF IdentityPromises
=============================================================================
