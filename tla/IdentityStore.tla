---------------------------- MODULE IdentityStore ----------------------------
(***************************************************************************)
(* What the identity repository promises: every operation takes effect at  *)
(* once, on four tables.  It is the in-memory implementation               *)
(* (internal/repository/repository.go), which services and handlers are    *)
(* tested against; the PostgreSQL implementation, whose operations are     *)
(* transactions of several statements, is IdentityTransactions, and is     *)
(* shown to implement this one.                                            *)
(***************************************************************************)
EXTENDS Naturals

CONSTANTS
  PrincipalIds,  \* principal identifiers, ordered as the database orders them
  IssuerKeys,    \* (issuer, subject) pairs
  ReferenceKeys, \* (engine, external type, external id) triples
  MemberTenants  \* tenants a principal may be a member of

ASSUME PrincipalIdsAssumption == PrincipalIds \subseteq Nat

VARIABLES
  principals,  \* principal id -> ABSENT, ACTIVE or ARCHIVED
  externals,   \* issuer key   -> the external identity row, if linked
  references,  \* reference key -> the principal it is mapped to, if mapped
  memberships, \* <<principal, tenant>> -> ABSENT or the membership's status
  registered,  \* principals CreateLinkedIdentity made
  stripped     \* principals an administrative unlink took a credential from

identityVars == <<principals, externals, references, memberships, registered, stripped>>

Unlinked == [linked |-> FALSE]
ExternalIdentity == [linked : {TRUE}, principal : PrincipalIds, status : {"ACTIVE", "UNLINKED"}]
Unmapped == [mapped |-> FALSE]
IdentityReference == [mapped : {TRUE}, principal : PrincipalIds]
MembershipStatuses == {"ACTIVE", "SUSPENDED", "DISABLED"}

IdentityInit ==
  /\ principals = [p \in PrincipalIds |-> "ABSENT"]
  /\ externals = [k \in IssuerKeys |-> Unlinked]
  /\ references = [r \in ReferenceKeys |-> Unmapped]
  /\ memberships = [m \in PrincipalIds \X MemberTenants |-> "ABSENT"]
  /\ registered = {}
  /\ stripped = {}

Exists(p) == principals[p] # "ABSENT"

OfPrincipal(k, p) == externals[k].linked /\ externals[k].principal = p
ActiveFor(k, p) == OfPrincipal(k, p) /\ externals[k].status = "ACTIVE"
ActiveKeys(p) == {k \in IssuerKeys : ActiveFor(k, p)}

\* ResolveIdentity: only an ACTIVE external identity resolves
Resolves(k, p) == ActiveFor(k, p)

CreateIdentity(p) ==
  /\ ~Exists(p)
  /\ principals' = [principals EXCEPT ![p] = "ACTIVE"]
  /\ UNCHANGED <<externals, references, memberships, registered, stripped>>

LinkExternalIdentity(p, k) ==
  /\ Exists(p)
  /\ ~externals[k].linked
  /\ externals' = [externals EXCEPT ![k] = [linked |-> TRUE, principal |-> p, status |-> "ACTIVE"]]
  /\ UNCHANGED <<principals, references, memberships, registered, stripped>>

\* an existing external identity is returned as it is: nothing changes
CreateLinkedIdentity(p, k) ==
  /\ ~externals[k].linked
  /\ ~Exists(p)
  /\ principals' = [principals EXCEPT ![p] = "ACTIVE"]
  /\ externals' = [externals EXCEPT ![k] = [linked |-> TRUE, principal |-> p, status |-> "ACTIVE"]]
  /\ registered' = registered \union {p}
  /\ UNCHANGED <<references, memberships, stripped>>

\* the last ACTIVE credential is only taken administratively
UnlinkAllowed(p, administrative) == administrative \/ \E j, k \in ActiveKeys(p) : j # k

UnlinkExternalIdentityAudited(p, k, administrative) ==
  /\ ActiveFor(k, p)
  /\ UnlinkAllowed(p, administrative)
  /\ externals' = [externals EXCEPT ![k].status = "UNLINKED"]
  /\ stripped' = IF administrative THEN stripped \union {p} ELSE stripped
  /\ UNCHANGED <<principals, references, memberships, registered>>

MergeEligible(source, target) ==
  /\ source # target
  /\ principals[source] = "ACTIVE"
  /\ principals[target] = "ACTIVE"

TransferredExternals(source, target) ==
  [k \in IssuerKeys |->
     IF OfPrincipal(k, source) THEN [externals[k] EXCEPT !.principal = target] ELSE externals[k]]

TransferredReferences(source, target) ==
  [r \in ReferenceKeys |->
     IF references[r].mapped /\ references[r].principal = source
     THEN [references[r] EXCEPT !.principal = target] ELSE references[r]]

\* a membership of the source moves unless the target has one of its own for
\* that tenant; then it is disabled where it is
MergedMemberships(source, target) ==
  [m \in PrincipalIds \X MemberTenants |->
     LET own == memberships[<<target, m[2]>>] # "ABSENT" IN
     CASE m[1] = source /\ memberships[m] # "ABSENT" -> IF own THEN "DISABLED" ELSE "ABSENT"
       [] m[1] = target /\ ~own -> memberships[<<source, m[2]>>]
       [] OTHER -> memberships[m]]

MergePrincipalsAudited(source, target) ==
  /\ MergeEligible(source, target)
  /\ externals' = TransferredExternals(source, target)
  /\ references' = TransferredReferences(source, target)
  /\ memberships' = MergedMemberships(source, target)
  /\ principals' = [principals EXCEPT ![source] = "ARCHIVED"]
  /\ UNCHANGED <<registered, stripped>>

CreateWorkforceMembership(p, t) ==
  /\ Exists(p)
  /\ memberships[<<p, t>>] = "ABSENT"
  /\ memberships' = [memberships EXCEPT ![<<p, t>>] = "ACTIVE"]
  /\ UNCHANGED <<principals, externals, references, registered, stripped>>

SetWorkforceMembershipStatus(p, t, status) ==
  /\ memberships[<<p, t>>] # "ABSENT"
  /\ memberships' = [memberships EXCEPT ![<<p, t>>] = status]
  /\ UNCHANGED <<principals, externals, references, registered, stripped>>

CreateIdentityReference(p, r) ==
  /\ Exists(p)
  /\ ~references[r].mapped
  /\ references' = [references EXCEPT ![r] = [mapped |-> TRUE, principal |-> p]]
  /\ UNCHANGED <<principals, externals, memberships, registered, stripped>>

IdentityNext ==
  \E p \in PrincipalIds :
    \/ CreateIdentity(p)
    \/ \E k \in IssuerKeys : LinkExternalIdentity(p, k) \/ CreateLinkedIdentity(p, k)
    \/ \E k \in IssuerKeys, a \in BOOLEAN : UnlinkExternalIdentityAudited(p, k, a)
    \/ \E target \in PrincipalIds : MergePrincipalsAudited(p, target)
    \/ \E t \in MemberTenants : CreateWorkforceMembership(p, t)
    \/ \E t \in MemberTenants, s \in MembershipStatuses : SetWorkforceMembershipStatus(p, t, s)
    \/ \E r \in ReferenceKeys : CreateIdentityReference(p, r)

IdentitySpec == IdentityInit /\ [][IdentityNext]_identityVars
==============================================================================
