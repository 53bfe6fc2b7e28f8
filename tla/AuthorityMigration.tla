---------------------------- MODULE AuthorityMigration ----------------------------
(***************************************************************************)
(* Moving administrative routes from realm roles to grants. Each guarded   *)
(* request is judged by both; the enforcement policy says which one        *)
(* decides, and the comparison is counted in memory and written to the     *)
(* store in batches. The flush of the ticker and the flush of a readiness  *)
(* request run beside each other: taking the batch and writing it are two  *)
(* steps. What the grants say of a request (Evaluate) is an input here.    *)
(***************************************************************************)
EXTENDS Naturals, FiniteSets, FiniteSetsExt

CONSTANTS Judged,        \* requests: [permission, legacy, grants, comparable, known, tenant]
          Enforced,      \* permissions the policy lists with an approver and evidence
          EnforcedFor,   \* the tenants an entry is limited to, {} for all
          RolledBack,    \* permissions returned to roles by the emergency list
          Criteria,      \* [approved, days, decisions, narrower, unevaluated, unresolved]
          LastDay,       \* bound: the days that pass
          MaxJudged,     \* bound: requests judged
          MaxKeys,       \* bound of the code: comparisons kept in memory
          MaxFailures    \* bound: writes that fail

ASSUME MigrationAssumption ==
  /\ LastDay \in Nat /\ MaxJudged \in Nat /\ MaxKeys \in Nat \ {0} /\ MaxFailures \in Nat
  /\ RolledBack \subseteq Enforced

VARIABLES observing,   \* the recorder's pending counts by key
          batches,     \* the batch each flush holds
          evidence,    \* administrative_shadow_daily
          judged,      \* every comparison made, by key
          unacked,     \* counts committed by a write that then reported an error
          dropped,     \* comparisons not kept because MaxKeys are pending
          verdict,     \* the last request and its decision
          failures, day

migrationVars == <<observing, batches, evidence, judged, unacked, dropped, verdict, failures, day>>

Flushes == {"ticker", "readiness"}
NoCounts == [k \in {} |-> 0]
NoBatch == [held |-> FALSE, counts |-> NoCounts]
CountOf(f, k) == IF k \in DOMAIN f THEN f[k] ELSE 0
Plus(f, g) == [k \in DOMAIN f \cup DOMAIN g |-> CountOf(f, k) + CountOf(g, k)]
One(k) == [x \in {k} |-> 1]
Total(f) == MapThenSumSet(LAMBDA k : f[k], DOMAIN f)

-----------------------------------------------------------------------------
(* The decision.                                                           *)

entry(p) == p \in Enforced \ RolledBack
GrantsEnforced(q) == entry(q.permission) /\ (EnforcedFor # {} => q.tenant \in EnforcedFor)
Decided(q) == q.grants \notin {"unresolved", "error"}

decideAdministrative(q) ==
  IF ~entry(q.permission) \/ (q.known /\ ~GrantsEnforced(q))
    THEN [enforced |-> FALSE, answer |-> q.legacy]
    ELSE [enforced |-> TRUE,
          answer |-> IF q.grants = "error" THEN "unavailable" ELSE IF q.grants = "allow" THEN "allow" ELSE "deny"]

Agreement(q) ==
  IF ~q.comparable \/ q.grants = "error" THEN "not_evaluated"
  ELSE IF (q.grants = "allow") = (q.legacy = "allow") THEN "agree"
  ELSE IF q.grants = "allow" THEN "grants_broader" ELSE "grants_narrower"

recordShadow(q) ==
  [day |-> day, permission |-> q.permission, legacy |-> q.legacy, grants |-> q.grants, agreement |-> Agreement(q)]

(* A request is judged once; its comparison joins the pending count of its *)
(* key, or is dropped when there is no room for another key.               *)
Judge(q) ==
  /\ Total(judged) < MaxJudged
  /\ verdict' = [made |-> TRUE, request |-> q, decision |-> decideAdministrative(q)]
  /\ judged' = Plus(judged, One(recordShadow(q)))
  /\ IF recordShadow(q) \in DOMAIN observing \/ Cardinality(DOMAIN observing) < MaxKeys
       THEN observing' = Plus(observing, One(recordShadow(q))) /\ UNCHANGED dropped
       ELSE dropped' = dropped + 1 /\ UNCHANGED observing
  /\ UNCHANGED <<batches, evidence, unacked, failures, day>>

-----------------------------------------------------------------------------
(* Flush: take what is pending, write it, and put it back if that fails.   *)
(* Counts whose key finds no room on the way back are gone.  A commit that *)
(* was applied and whose answer was lost is an error like the others: the  *)
(* batch is in the store and is put back as well.                          *)

\* Mutant: a flush leaves in memory what it takes.
TakenKept == observing

Taken == NoCounts
Take(f) ==
  /\ ~batches[f].held
  /\ DOMAIN observing # {}
  /\ batches' = [batches EXCEPT ![f] = [held |-> TRUE, counts |-> observing]]
  /\ observing' = Taken
  /\ UNCHANGED <<evidence, judged, unacked, dropped, verdict, failures, day>>

RecordShadowObservations(f) ==
  /\ batches[f].held
  /\ evidence' = Plus(evidence, batches[f].counts)
  /\ batches' = [batches EXCEPT ![f] = NoBatch]
  /\ UNCHANGED <<observing, judged, unacked, dropped, verdict, failures, day>>

PutBackNew(f) == {k \in DOMAIN batches[f].counts : k \notin DOMAIN observing}
PutBack(f) ==
  {k \in DOMAIN batches[f].counts : k \in DOMAIN observing}
FlushFails(f, applied) ==
  /\ batches[f].held
  /\ failures < MaxFailures
  /\ failures' = failures + 1
  /\ evidence' = IF applied THEN Plus(evidence, batches[f].counts) ELSE evidence
  /\ unacked' = IF applied THEN Plus(unacked, batches[f].counts) ELSE unacked
  /\ \E new \in SUBSET PutBackNew(f) :
       /\ Cardinality(new) = Min({Cardinality(PutBackNew(f)), MaxKeys - Cardinality(DOMAIN observing)})
       /\ observing' = Plus(observing, [k \in PutBack(f) \cup new |-> batches[f].counts[k]])
  /\ batches' = [batches EXCEPT ![f] = NoBatch]
  /\ UNCHANGED <<judged, dropped, verdict, day>>

run == Take("ticker")
get == Take("readiness")

NextDay ==
  /\ day < LastDay
  /\ day' = day + 1
  /\ UNCHANGED <<observing, batches, evidence, judged, unacked, dropped, verdict, failures>>

-----------------------------------------------------------------------------
(* Readiness of a permission, from counts by key.                          *)

Sum(counts, p, P(_)) == MapThenSumSet(LAMBDA k : counts[k], {k \in DOMAIN counts : k.permission = p /\ P(k)})
ShadowEvidence(counts, p) ==
  [decisions |-> Sum(counts, p, LAMBDA k : TRUE),
   broader |-> Sum(counts, p, LAMBDA k : k.agreement = "grants_broader"),
   narrower |-> Sum(counts, p, LAMBDA k : k.agreement = "grants_narrower"),
   unevaluated |-> Sum(counts, p, LAMBDA k : k.agreement = "not_evaluated"),
   unresolved |-> Sum(counts, p, LAMBDA k : k.grants \in {"unresolved", "error"}),
   days |-> Cardinality({k.day : k \in {x \in DOMAIN counts : x.permission = p}})]

Readiness(counts, p) ==
  LET ev == ShadowEvidence(counts, p) IN
  /\ Criteria.approved
  /\ ev.decisions > 0 /\ ev.decisions >= Criteria.decisions /\ ev.days >= Criteria.days
  /\ ev.broader = 0
  /\ ev.narrower <= Criteria.narrower
  /\ ev.unevaluated <= Criteria.unevaluated
  /\ ev.unresolved <= Criteria.unresolved

AuthorityInit ==
  /\ observing = NoCounts /\ evidence = NoCounts /\ judged = NoCounts /\ unacked = NoCounts
  /\ batches = [f \in Flushes |-> NoBatch]
  /\ dropped = 0 /\ failures = 0 /\ day = 0
  /\ verdict = [made |-> FALSE]

AuthorityNext ==
  \/ \E q \in Judged : Judge(q)
  \/ run \/ get
  \/ \E f \in Flushes : RecordShadowObservations(f) \/ \E applied \in BOOLEAN : FlushFails(f, applied)
  \/ NextDay

AuthoritySpec == AuthorityInit /\ [][AuthorityNext]_migrationVars

(* The ticker flushes until the process ends, and a write ends.            *)
AuthorityFairness ==
  WF_migrationVars(run) /\ \A f \in Flushes : WF_migrationVars(RecordShadowObservations(f))

-----------------------------------------------------------------------------
(* Properties.                                                             *)

InMemory == Plus(observing, Plus(batches["ticker"].counts, batches["readiness"].counts))
Known == Plus(evidence, InMemory)

(* The store may count a comparison twice, and only in one way: its batch  *)
(* was committed, the answer was lost, and Flush put the batch back.       *)
(* Otherwise concurrent flushes and put-backs invent nothing, and no day,  *)
(* permission or outcome is ever reported that was not met                 *)
(* (shadow_evidence.go add, Flush; RecordShadowObservations' Commit).      *)
CountedTwiceOnlyUnacknowledged ==
  /\ \A k \in DOMAIN Known : Known[k] <= CountOf(judged, k) + CountOf(unacked, k)
  /\ DOMAIN Known \subseteq DOMAIN judged

(* When grants decide, roles never do: a refusal, an unavailable store or  *)
(* an unresolved caller is not turned into a role's allow, also where the  *)
(* resource is unknown (admin_shadow.go decideAdministrative).             *)
GrantsDecideAlone ==
  verdict.made =>
    LET q == verdict.request IN
    /\ (q.permission \in Enforced \ RolledBack /\ (EnforcedFor = {} \/ ~q.known \/ q.tenant \in EnforcedFor))
         => (verdict.decision.answer = "allow" => q.grants = "allow")
    /\ q.permission \in RolledBack => verdict.decision.answer = q.legacy

(* A permission is reported ready only when requests were judged on as     *)
(* many days as the criteria ask for, and as many requests, each counted   *)
(* once more for every write of it that was applied without an answer,     *)
(* however often batches failed and were put back (readiness.go).          *)
ReadyRestsOnRequests ==
  \A p \in {q.permission : q \in Judged} : Readiness(evidence, p) =>
    /\ Sum(judged, p, LAMBDA k : k.agreement # "grants_broader")
         + Sum(unacked, p, LAMBDA k : TRUE) >= Criteria.decisions
    /\ Cardinality({k.day : k \in {x \in DOMAIN judged : x.permission = p}}) >= Criteria.days

(* Once requests stop, what is in memory reaches the store: the ticker     *)
(* flushes and a failed batch is put back (shadow_evidence.go run, Flush). *)
EvidenceReachesStore == <>[](Total(InMemory) = 0)

(* "This instance's unflushed comparisons count too" (get): what readiness *)
(* reads after its own flush leaves nothing of this instance out.          *)
ReadinessCountsUnflushed ==
  [][(batches["readiness"].held /\ ~batches'["readiness"].held /\ evidence' # evidence)
       => Total(batches'["ticker"].counts) = 0]_migrationVars

\* The move of administrative authority from roles to grants: evidence is
\* counted twice only where an answer was lost, grants decide alone once they
\* decide, readiness rests on requests that were made, and evidence reaches
\* the store in the end.
AuthorityPromises ==
  /\ [](CountedTwiceOnlyUnacknowledged /\ GrantsDecideAlone /\ ReadyRestsOnRequests)
  /\ EvidenceReachesStore
=============================================================================
