--------------------------- MODULE AdministrativeGrants ---------------------------
(***************************************************************************)
(* Administrative grants of one permission, as free as the code lets a     *)
(* registered one be: delegable, grantable at every level, and of the      *)
(* ADMINISTRATION domain, so critical at the platform. Bootstrap, issue,   *)
(* delegation, suspension, revocation with its cascade, replacement and    *)
(* the lifecycle sweep. Grants are numbered as they are created. The       *)
(* person commands lock the row they name. A delegation reads the chain    *)
(* above its source, and a revocation reads the delegations below its      *)
(* grant, without locking what they read, so each is two steps: the reads  *)
(* under the lock, and the commit. Commands carry the version they read,   *)
(* so one that acts acts on the current row; replays change nothing.       *)
(***************************************************************************)
EXTENDS Naturals, FiniteSets, Sequences, TLAPS

CONSTANTS People,
          Asked,        \* the [scope, hops, start, until] a request may ask for
          Mappings,     \* the tenant-organisation mappings that may be in effect
          Probes,       \* resources
          MaxGrants,    \* bound: grants ever created
          MaxIssued,    \* bound: grants issued, neither delegated nor replacing another
          MaxBootstrap, \* bound: grants bootstrapped
          LastTick      \* bound: the clock; LastTick + 1 is a valid_until after it, or none

---------------------------------------------------------------------------
(* What an administrative scope reaches. A scope names one level and the   *)
(* anchor of that level; a corporate group also has a mode and, for static *)
(* membership, its organisations; a market may be narrowed to an           *)
(* organisation or a tenant. A resource names what it belongs to. The one  *)
(* relation that crosses levels is the effective tenant-organisation       *)
(* mapping, the set rel of <<tenant, organisation>> pairs. "" is an absent *)
(* identifier, and an absent environment is every environment.             *)

SingleAnchor == {"PLATFORM_ACCOUNT", "ORGANISATION", "TENANT", "LEGAL_ENTITY", "DIGITAL_ESTATE", "RESOURCE"}
ScopeLevels == SingleAnchor \cup {"PLATFORM", "CORPORATE_GROUP", "MARKET"}
GroupModes == {"EXACT", "STATIC_MEMBERSHIP", "DYNAMIC_GROUP_DESCENDANTS"}

(* A scope: level, anchor, environment; mode and orgs of a group; org and  *)
(* tenant of a market. A resource: env and what it names at each level.    *)
ScopeAt(level, anchor) ==
  [level |-> level, anchor |-> anchor, env |-> "", mode |-> "EXACT", orgs |-> {}, org |-> "", tenant |-> ""]
ResourceAt(level, anchor) ==
  [env |-> "", at |-> [l \in ScopeLevels |-> IF l = level THEN anchor ELSE ""], groups |-> {}, mapped |-> {}]

ScopeValid(s) ==
  /\ s.level \in ScopeLevels
  /\ (s.anchor = "") <=> (s.level = "PLATFORM")
  /\ s.mode # "EXACT" => s.level = "CORPORATE_GROUP"
  /\ (s.orgs # {}) <=> (s.mode = "STATIC_MEMBERSHIP")
  /\ "" \notin s.orgs
  /\ (s.org # "" \/ s.tenant # "") => s.level = "MARKET"

Maps(rel, tenant, org) == <<tenant, org>> \in rel

(* A resource that names a tenant carries the tenant's effective           *)
(* organisations.                                                          *)
ResolveResource(rel, r) == [r EXCEPT !.mapped = {o \in {p[2] : p \in rel} : Maps(rel, r.at["TENANT"], o)}]

coversGroup(s, r) ==
  \/ s.mode = "EXACT" /\ r.at["CORPORATE_GROUP"] = s.anchor
  \/ s.mode = "STATIC_MEMBERSHIP" /\ r.at["ORGANISATION"] \in s.orgs
  \/ s.mode = "DYNAMIC_GROUP_DESCENDANTS" /\ s.anchor \in {r.at["CORPORATE_GROUP"]} \cup r.groups

Covers(s, r) ==
  /\ s.env # "" => s.env = r.env
  /\ \/ s.level = "PLATFORM"
     \/ s.level = "CORPORATE_GROUP" /\ coversGroup(s, r)
     \/ /\ s.level = "MARKET" /\ r.at["MARKET"] = s.anchor
        /\ s.org # "" => r.at["ORGANISATION"] = s.org
        /\ s.tenant # "" => r.at["TENANT"] = s.tenant
     \/ s.level = "ORGANISATION" /\ r.at["TENANT"] # "" /\ s.anchor \in r.mapped
     \/ s.level \in SingleAnchor /\ r.at[s.level] = s.anchor

containsGroup(outer, inner) ==
  \/ outer.mode = "STATIC_MEMBERSHIP" /\ inner.level = "ORGANISATION" /\ inner.anchor \in outer.orgs
  \/ /\ inner.level = "CORPORATE_GROUP" /\ inner.anchor = outer.anchor
     /\ \/ outer.mode = "EXACT" /\ inner.mode = "EXACT"
        \/ outer.mode = "STATIC_MEMBERSHIP" /\ inner.mode = "STATIC_MEMBERSHIP" /\ inner.orgs \subseteq outer.orgs
        \/ outer.mode = "DYNAMIC_GROUP_DESCENDANTS" /\ inner.mode # "STATIC_MEMBERSHIP"

Contains(outer, inner, rel) ==
  /\ outer.env # "" => outer.env = inner.env
  /\ \/ outer.level = "PLATFORM"
     \/ outer.level = "CORPORATE_GROUP" /\ containsGroup(outer, inner)
     \/ outer.level = "ORGANISATION" /\ inner.level = "TENANT" /\ Maps(rel, inner.anchor, outer.anchor)
     \/ /\ outer.level = "MARKET" /\ inner.level = "MARKET" /\ inner.anchor = outer.anchor
        /\ outer.org # "" => inner.org = outer.org
        /\ outer.tenant # "" => inner.tenant = outer.tenant
     \/ outer.level \in SingleAnchor /\ inner.level = outer.level /\ inner.anchor = outer.anchor

Scopes ==
  [level : ScopeLevels, anchor : STRING, env : STRING, mode : GroupModes, orgs : SUBSET STRING,
   org : STRING, tenant : STRING]
Resources == [env : STRING, at : [ScopeLevels -> STRING], groups : SUBSET STRING, mapped : SUBSET STRING]

(* What a contained scope reaches its container reaches, for all scopes,   *)
(* mappings and resources, but for a tenant reached through an             *)
(* organisation a static group lists (contain.go Contains, evaluate.go     *)
(* Covers).                                                                *)
THEOREM ContainedReachesNoFurther ==
  ASSUME NEW outer \in Scopes, NEW inner \in Scopes, NEW rel \in SUBSET (STRING \X STRING), NEW r \in Resources,
         ScopeValid(outer), ScopeValid(inner),
         Contains(outer, inner, rel), Covers(inner, ResolveResource(rel, r))
  PROVE  \/ Covers(outer, ResolveResource(rel, r))
         \/ outer.mode = "STATIC_MEMBERSHIP" /\ ResolveResource(rel, r).mapped \cap outer.orgs # {}
<1> DEFINE res == ResolveResource(rel, r)
<1>1. \A t, o : <<t, o>> \in rel /\ res.at["TENANT"] = t => o \in res.mapped
  <2>1. res.at = r.at /\ res.mapped = {o \in {p[2] : p \in rel} : Maps(rel, r.at["TENANT"], o)}
    BY DEF ResolveResource, Resources
  <2> QED BY <2>1 DEF Maps
<1> HIDE DEF res
<1>2. Covers(inner, res)
  BY DEF res
<1>3. outer.env # "" => outer.env = res.env
  BY <1>2 DEF Contains, Covers
<1>4. CASE outer.level = "PLATFORM"
  BY <1>3, <1>4 DEF Covers, res
<1>5. CASE outer.level = "CORPORATE_GROUP"
  <2>1. containsGroup(outer, inner)
    BY <1>5 DEF Contains, SingleAnchor
  <2>2. CASE inner.level = "ORGANISATION"
    BY <1>2, <1>3, <1>5, <2>1, <2>2 DEF containsGroup, Covers, coversGroup, SingleAnchor, res
  <2>3. CASE inner.level = "CORPORATE_GROUP"
    <3>1. coversGroup(inner, res)
      BY <1>2, <2>3 DEF Covers, SingleAnchor
    <3>2. coversGroup(outer, res)
      BY <2>1, <2>3, <3>1 DEF coversGroup, containsGroup, Scopes, GroupModes
    <3> QED BY <1>3, <1>5, <3>2 DEF Covers, res
  <2> QED BY <2>1, <2>2, <2>3 DEF containsGroup
<1>6. CASE outer.level = "ORGANISATION" /\ inner.level = "TENANT"
  <2>1. <<inner.anchor, outer.anchor>> \in rel
    BY <1>6 DEF Contains, SingleAnchor, Maps
  <2>2. res.at["TENANT"] = inner.anchor /\ inner.anchor # ""
    BY <1>2, <1>6 DEF Covers, SingleAnchor, ScopeValid
  <2> QED BY <1>1, <1>3, <1>6, <2>1, <2>2 DEF Covers, res
<1>7. CASE outer.level = "MARKET"
  BY <1>2, <1>3, <1>7 DEF Contains, Covers, SingleAnchor, res
<1>8. CASE outer.level \in SingleAnchor /\ ~(outer.level = "ORGANISATION" /\ inner.level = "TENANT")
  BY <1>2, <1>3, <1>8 DEF Contains, Covers, SingleAnchor, res
<1> QED BY <1>4, <1>5, <1>6, <1>7, <1>8 DEF Scopes, ScopeLevels

---------------------------------------------------------------------------
ASSUME GrantsAssumption ==
  /\ MaxGrants \in Nat /\ MaxIssued \in Nat /\ MaxBootstrap \in Nat /\ LastTick \in Nat
  /\ \A q \in Asked : ScopeValid(q.scope) /\ q.hops \in 0..2

VARIABLES grants,      \* administrative_grant rows in order of creation
          delegating,  \* the open delegation: the row it will insert, its source locked
          ending,      \* the open revocation or replacement: root locked, reach read
          mappings,    \* effective tenant_organisation_mapping rows
          tick         \* the time

grantVars == <<grants, delegating, ending, mappings, tick>>

NoTransaction == [open |-> FALSE]
NoGrant == 0
LiveStatuses == {"PENDING", "ACTIVE", "SUSPENDED"}
Depth(i) == grants[i].depth

Live(g, now) == g.status \in LiveStatuses /\ now < g.until
Locked(i) ==
  \/ delegating.open /\ delegating.row.source = i
  \/ ending.open /\ ending.root = i
Pending == (IF delegating.open THEN 1 ELSE 0) + (IF ending.open THEN Len(ending.next) ELSE 0)
Room == Len(grants) + Pending < MaxGrants

-----------------------------------------------------------------------------
(* What a grant is worth now: its own status and window, and, for a        *)
(* delegation, the chain it rests on, at most three hops up.               *)

EffectiveRisk(scope) == IF scope.level = "PLATFORM" THEN "CRITICAL" ELSE "MODERATE"
NeedsApproval(scope) == EffectiveRisk(scope) = "CRITICAL"

InForce(g, now) == g.status = "ACTIVE" /\ g.start <= now /\ now < g.until

RestsOn(g, source, rel) ==
  /\ g.by = source.holder
  /\ Contains(source.scope, g.scope, rel)
  /\ g.depth = source.depth + 1 /\ source.hops >= 1 /\ g.hops <= source.hops - 1
  /\ g.until <= source.until

Chain(i) ==
  LET up[k \in 0..3] ==
        IF k = 0 THEN {i} ELSE {grants[j].source : j \in up[k - 1] \ {NoGrant}} \ {NoGrant}
  IN UNION {up[k] : k \in 0..3}
Usable(i, rel, now) ==
  \A j \in Chain(i) :
    /\ InForce(grants[j], now)
    /\ grants[j].source # NoGrant => RestsOn(grants[j], grants[grants[j].source], rel)

(* Evaluate: some usable grant the person holds covers the resource.       *)
Evaluate(person, r) ==
  \E i \in DOMAIN grants : grants[i].holder = person /\ Usable(i, mappings, tick)
                           /\ Covers(grants[i].scope, ResolveResource(mappings, r))

-----------------------------------------------------------------------------
(* Bootstrap: an operator at the command line gives a person platform      *)
(* authority that ends, approved by nobody and not to be delegated. It is  *)
(* refused while the person has such authority that has not ended.         *)

bootstrapGrantor == "bootstrap"
Created(origin) == {i \in DOMAIN grants : grants[i].origin = origin /\ grants[i].supersedes = NoGrant}

BootstrapAdministrativeGrant(person, until) ==
  /\ Room
  /\ Cardinality(Created("BOOTSTRAP")) < MaxBootstrap
  /\ tick < until
  /\ ~\E i \in Created("BOOTSTRAP") : grants[i].holder = person /\ Live(grants[i], tick)
  /\ grants' = Append(grants,
       [holder |-> person, by |-> bootstrapGrantor, origin |-> "BOOTSTRAP", scope |-> ScopeAt("PLATFORM", ""),
        hops |-> 0, depth |-> 0, source |-> NoGrant, start |-> tick, until |-> until, approved |-> FALSE,
        supersedes |-> NoGrant, supersededBy |-> NoGrant, status |-> "ACTIVE"])
  /\ UNCHANGED <<delegating, ending, mappings, tick>>

bootstrap == \E person \in People, until \in 1..LastTick : BootstrapAdministrativeGrant(person, until)

-----------------------------------------------------------------------------
(* Issue. POST /v1/admin/grants refuses what needs approval. The apply of  *)
(* an approved issuance changeset is the other way in: a start that passed *)
(* since begins now, the person does not hold the authority already, and   *)
(* the row must name its approval, which it does where the scope needs one.*)

buildIssue(caller, person, q, start, approved, old) ==
  [holder |-> person, by |-> caller, origin |-> "DIRECT", scope |-> q.scope, hops |-> q.hops, depth |-> 0,
   source |-> NoGrant, start |-> start, until |-> q.until, approved |-> approved, supersedes |-> old,
   supersededBy |-> NoGrant, status |-> IF start > tick THEN "PENDING" ELSE "ACTIVE"]

PlanIssue(caller, person, q) == person # caller /\ q.start >= tick /\ q.start < q.until

StartOf(q) == IF q.start < tick THEN tick ELSE q.start
NotAlreadyHeld(person, q, old) ==
  ~\E i \in DOMAIN grants \ {old} :
      grants[i].holder = person /\ Live(grants[i], tick) /\ grants[i].scope = q.scope
PlanApprovedIssue(caller, person, q, old) ==
  /\ NeedsApproval(q.scope)
  /\ person # caller /\ StartOf(q) < q.until
  /\ NotAlreadyHeld(person, q, old)

IssueAdministrativeGrant(row) ==
  /\ Room
  /\ Cardinality(Created("DIRECT")) < MaxIssued
  /\ grants' = Append(grants, row)
  /\ UNCHANGED <<delegating, ending, mappings, tick>>

issue(caller) ==
  \E person \in People, q \in Asked :
    /\ PlanIssue(caller, person, q) /\ ~NeedsApproval(q.scope)
    /\ IssueAdministrativeGrant(buildIssue(caller, person, q, q.start, FALSE, NoGrant))
issueApproved(caller) ==
  \E person \in People, q \in Asked :
    /\ PlanApprovedIssue(caller, person, q, NoGrant)
    /\ IssueAdministrativeGrant(buildIssue(caller, person, q, StartOf(q), TRUE, NoGrant))

-----------------------------------------------------------------------------
(* Delegation: under the source's lock, judged by the chain and the        *)
(* mappings read now; the row appears at the commit.                       *)

DelegationAllowed(caller, i, person, q) ==
  /\ grants[i].holder = caller /\ person # caller
  /\ Usable(i, mappings, tick)
  /\ Contains(grants[i].scope, q.scope, mappings)
  /\ grants[i].hops >= 1 /\ Depth(i) + 1 <= 3
  /\ q.hops <= grants[i].hops - 1
  /\ tick < q.until /\ q.until <= grants[i].until

planDelegation(caller, i, person, q) ==
  [holder |-> person, by |-> caller, origin |-> "DELEGATION", scope |-> q.scope, hops |-> q.hops,
   depth |-> Depth(i) + 1, source |-> i, start |-> tick, until |-> q.until, approved |-> NeedsApproval(q.scope),
   supersedes |-> NoGrant, supersededBy |-> NoGrant, status |-> "ACTIVE"]

DelegateAdministrativeGrant(caller, i, person, q) ==
  /\ Room
  /\ ~delegating.open /\ ~Locked(i)
  /\ DelegationAllowed(caller, i, person, q)
  /\ delegating' = [open |-> TRUE, row |-> planDelegation(caller, i, person, q)]
  /\ UNCHANGED <<grants, ending, mappings, tick>>

delegate(caller) ==
  \E i \in DOMAIN grants, person \in People, q \in Asked : DelegateAdministrativeGrant(caller, i, person, q)

CommitDelegation ==
  /\ delegating.open
  /\ grants' = Append(grants, delegating.row)
  /\ delegating' = NoTransaction
  /\ UNCHANGED <<ending, mappings, tick>>

-----------------------------------------------------------------------------
(* Transitions. Revoking and withdrawing also revoke what was delegated    *)
(* from the grant, found by one query; a row another transaction holds is  *)
(* waited for and its status read again.                                   *)

transitionTable == [
  withdraw |-> [from |-> {"PENDING"}, to |-> "REVOKED"],
  suspend |-> [from |-> {"ACTIVE"}, to |-> "SUSPENDED"],
  resume |-> [from |-> {"SUSPENDED"}, to |-> "ACTIVE"],
  revoke |-> [from |-> {"ACTIVE", "SUSPENDED"}, to |-> "REVOKED"]]
TransitionAllowed(i, command) ==
  /\ grants[i].status \in transitionTable[command].from
  /\ command = "resume" => tick < grants[i].until

Below(i) ==
  LET down[k \in 0..3] == IF k = 0 THEN {i} ELSE {j \in DOMAIN grants : grants[j].source \in down[k - 1]}
  IN UNION {down[k] : k \in 1..3}

TransitionAdministrativeGrant(i, command) ==
  /\ ~Locked(i)
  /\ TransitionAllowed(i, command)
  /\ \/ /\ transitionTable[command].to = "REVOKED"
        /\ ~ending.open
        /\ ending' = [open |-> TRUE, root |-> i, reach |-> Below(i), next |-> <<>>]
        /\ UNCHANGED grants
     \/ /\ transitionTable[command].to # "REVOKED"
        /\ grants' = [grants EXCEPT ![i].status = transitionTable[command].to]
        /\ UNCHANGED ending
  /\ UNCHANGED <<delegating, mappings, tick>>

transition(command) == \E i \in DOMAIN grants : TransitionAdministrativeGrant(i, command)

\* Mutant: a grant that has already ended is revoked as well.
revokedAnyStatus(i) == {ending.root} \cup ending.reach

revokeDelegations(i) == {ending.root} \cup {j \in ending.reach : grants[j].status \in LiveStatuses}

CommitEnding ==
  /\ ending.open
  /\ \A j \in ending.reach : ~(delegating.open /\ delegating.row.source = j)
  /\ grants' = [i \in DOMAIN grants |->
                  IF i \notin revokeDelegations(i) THEN grants[i]
                  ELSE [grants[i] EXCEPT !.status = "REVOKED",
                          !.supersededBy = IF i = ending.root /\ ending.next # <<>> THEN Len(grants) + 1 ELSE @]]
               \o ending.next
  /\ ending' = NoTransaction
  /\ UNCHANGED <<delegating, mappings, tick>>

-----------------------------------------------------------------------------
(* Replacement: a live DIRECT grant gives way to another for the same      *)
(* person. Made directly it starts at once and adds no HIGH or CRITICAL    *)
(* authority. Made by an approved issuance changeset it may start later,   *)
(* and is judged as an approved issue is, whatever it adds.                *)

Replaceable(i) == grants[i].origin = "DIRECT" /\ Live(grants[i], tick)

AddsAuthority(i, q) ==
  \/ ~Contains(grants[i].scope, q.scope, mappings)
  \/ q.hops > grants[i].hops
  \/ q.until > grants[i].until

PlanReplacement(caller, i, q) ==
  /\ PlanIssue(caller, grants[i].holder, q) /\ q.start <= tick
  /\ ~(NeedsApproval(q.scope) /\ AddsAuthority(i, q))

supersedeInTx(i, row) ==
  /\ Room
  /\ ~ending.open /\ ~Locked(i)
  /\ Replaceable(i)
  /\ ending' = [open |-> TRUE, root |-> i, reach |-> Below(i), next |-> <<row>>]
  /\ UNCHANGED <<grants, delegating, mappings, tick>>

ReplaceAdministrativeGrant(caller) ==
  \E i \in DOMAIN grants, q \in Asked :
    /\ PlanReplacement(caller, i, q)
    /\ supersedeInTx(i, buildIssue(caller, grants[i].holder, q, q.start, FALSE, i))
applyGrantChange(caller) ==
  \E i \in DOMAIN grants, q \in Asked :
    /\ PlanApprovedIssue(caller, grants[i].holder, q, i)
    /\ supersedeInTx(i, buildIssue(caller, grants[i].holder, q, StartOf(q), TRUE, i))

-----------------------------------------------------------------------------
(* The sweep, each minute: what has ended expires, then what has begun     *)
(* becomes active. It waits for a locked row.                              *)

WindowEnded(i) == grants[i].status \in LiveStatuses /\ grants[i].until <= tick
WindowBegun(i) == grants[i].status = "PENDING" /\ grants[i].start <= tick /\ grants[i].until > tick
SweepDue(i) == WindowEnded(i) \/ WindowBegun(i)

SweepAdministrativeGrants ==
  /\ \E i \in DOMAIN grants : SweepDue(i)
  /\ \A i \in DOMAIN grants : SweepDue(i) => ~Locked(i)
  /\ grants' = [i \in DOMAIN grants |->
                  IF WindowEnded(i) THEN [grants[i] EXCEPT !.status = "EXPIRED"]
                  ELSE IF WindowBegun(i) THEN [grants[i] EXCEPT !.status = "ACTIVE"] ELSE grants[i]]
  /\ UNCHANGED <<delegating, ending, mappings, tick>>

MappingsChange ==
  /\ mappings' \in Mappings \ {mappings}
  /\ UNCHANGED <<grants, delegating, ending, tick>>

GrantTick ==
  /\ tick < LastTick
  /\ tick' = tick + 1
  /\ UNCHANGED <<grants, delegating, ending, mappings>>

GrantsInit ==
  /\ grants = <<>>
  /\ delegating = NoTransaction /\ ending = NoTransaction
  /\ mappings \in Mappings
  /\ tick = 0

GrantsNext ==
  \/ \E caller \in People :
       \/ issue(caller) \/ issueApproved(caller) \/ delegate(caller)
       \/ ReplaceAdministrativeGrant(caller) \/ applyGrantChange(caller)
  \/ bootstrap
  \/ \E command \in DOMAIN transitionTable : transition(command)
  \/ CommitDelegation \/ CommitEnding
  \/ SweepAdministrativeGrants
  \/ MappingsChange \/ GrantTick

GrantsSpec == GrantsInit /\ [][GrantsNext]_grantVars

(* An open transaction ends, and the sweep's ticker runs each minute.      *)
GrantsFairness ==
  WF_grantVars(CommitDelegation) /\ WF_grantVars(CommitEnding) /\ WF_grantVars(SweepAdministrativeGrants)

-----------------------------------------------------------------------------
(* Properties.                                                             *)

GrantRows ==
  [holder : People, by : People \cup {bootstrapGrantor}, origin : {"DIRECT", "DELEGATION", "BOOTSTRAP"},
   scope : {q.scope : q \in Asked} \cup {ScopeAt("PLATFORM", "")}, hops : 0..2, depth : 0..3,
   source : 0..MaxGrants, start : 0..LastTick, until : 0..LastTick + 1, approved : BOOLEAN,
   supersedes : 0..MaxGrants, supersededBy : 0..MaxGrants, status : LiveStatuses \cup {"EXPIRED", "REVOKED"}]

(* Rows have their types, a grant is never held by the person who granted  *)
(* it, and what a row refers to was created before it.                     *)
GrantTypeOK ==
  /\ grants \in Seq(GrantRows) /\ Len(grants) <= MaxGrants
  /\ \A i \in DOMAIN grants :
       grants[i].holder # grants[i].by /\ grants[i].source < i /\ grants[i].supersedes < i
  /\ mappings \in Mappings /\ tick \in 0..LastTick

(* Whatever is suspended, revoked or left by a cascade that did not see    *)
(* it, and whatever mappings come and go: where a delegation lets its      *)
(* holder act, everyone above it in the chain can act there now (evaluate. *)
(* go ineligibility and Covers, contain.go Contains). One case is          *)
(* excepted: a static group grant is delegated at an organisation it       *)
(* lists (containsGroup), and the organisation reaches the tenants mapped  *)
(* to it, which the group does not (Covers).                               *)
ThroughListedOrganisation(j, r) ==
  /\ grants[j].scope.mode = "STATIC_MEMBERSHIP"
  /\ ResolveResource(mappings, r).mapped \cap grants[j].scope.orgs # {}
DelegateNeverOutreaches ==
  \A i \in DOMAIN grants : grants[i].source # NoGrant /\ Usable(i, mappings, tick) =>
    \A r \in Probes : Covers(grants[i].scope, ResolveResource(mappings, r)) =>
      \A j \in Chain(i) : Evaluate(grants[j].holder, r) \/ ThroughListedOrganisation(j, r)

(* "The exact converse of how Evaluate decides coverage" (contain.go): the *)
(* same without the exception.                                             *)
ContainsIsTheConverse ==
  \A i \in DOMAIN grants : Usable(i, mappings, tick) =>
    \A r \in Probes : Covers(grants[i].scope, ResolveResource(mappings, r)) =>
      \A j \in Chain(i) : Evaluate(grants[j].holder, r)

(* Critical authority was approved by a second person, or is bootstrap     *)
(* authority: a DIRECT or DELEGATION grant of it that carries no approval  *)
(* replaced, without adding to it, one that does, and nothing rests on or  *)
(* succeeds a bootstrap grant, so what nobody approved ends with the       *)
(* bootstrap's own term (administer.go PlanReplacement and Replaceable,    *)
(* admin-bootstrap plan).                                                  *)
CriticalAuthorityApproved ==
  \A i \in DOMAIN grants :
    IF grants[i].origin = "BOOTSTRAP"
    THEN \A j \in DOMAIN grants : i \notin {grants[j].source, grants[j].supersedes}
    ELSE NeedsApproval(grants[i].scope) =>
           \E j \in 1..i : /\ grants[j].approved /\ grants[j].holder = grants[i].holder
                           /\ grants[i].until <= grants[j].until /\ grants[i].hops <= grants[j].hops

(* A grant has at most one successor, the two name each other, and only a  *)
(* revoked grant has one (supersedeInTx).                                  *)
OneSuccessor ==
  \A i \in DOMAIN grants :
    /\ grants[i].supersedes # NoGrant => grants[grants[i].supersedes].supersededBy = i
    /\ grants[i].supersededBy # NoGrant => grants[i].status = "REVOKED"

(* Expiry and revocation are final: no transition, cascade or sweep moves  *)
(* a grant out of EXPIRED or REVOKED.                                      *)
EndingIsFinal ==
  [][\A i \in DOMAIN grants : grants[i].status \notin LiveStatuses => grants'[i].status = grants[i].status]_grantVars

(* A pending grant whose start has come becomes active or ends, and a      *)
(* grant whose window has closed is recorded so: time and again no grant's *)
(* status is behind the clock (SweepAdministrativeGrants).                 *)
BehindTheClock(i) ==
  \/ grants[i].status = "PENDING" /\ grants[i].start <= tick
  \/ grants[i].status \in LiveStatuses /\ grants[i].until <= tick
GrantsFollowTheClock == []<>(\A i \in DOMAIN grants : ~BehindTheClock(i))

(* "Revoking also revokes every grant delegated from it, directly or       *)
(* further down" (AdministrativeGrantAdministrator): below a revoked grant *)
(* nothing is live.                                                        *)
RevocationReachesDelegations ==
  \A i \in DOMAIN grants : grants[i].status \in LiveStatuses =>
    \A j \in Chain(i) : grants[j].status # "REVOKED"

\* Administrative grants: a delegate outreaches its source only into the
\* tenants of an organisation a group lists, critical authority is approved or
\* bootstrapped, a grant has one successor, an ended grant stays
\* ended, and statuses follow the clock.
GrantPromises ==
  /\ [](GrantTypeOK /\ DelegateNeverOutreaches /\ CriticalAuthorityApproved /\
       OneSuccessor)
  /\ EndingIsFinal
  /\ GrantsFollowTheClock
=============================================================================
