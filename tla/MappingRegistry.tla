-------------------------- MODULE MappingRegistry --------------------------
(***************************************************************************)
(* The registry of canonical mappings (internal/repository/                *)
(* postgres_mapping_admin.go, api/mapping_admin_handler.go): a tenant's    *)
(* canonical entities are tied to objects of external systems by mappings  *)
(* that are proposed, validated, approved by somebody else and retired,    *)
(* and are resolved in both directions, now or at an earlier instant.      *)
(*                                                                         *)
(* A proposal is two transactions of its own: it looks its idempotency key *)
(* up and then inserts, so two calls with one key interleave.  Every other *)
(* command locks the row and compares the revision the caller read, so it  *)
(* acts on the row as read and is one step.                                *)
(***************************************************************************)
EXTENDS Naturals, FiniteSets

CONSTANTS
    Calls,          \* calls of createMapping; each mints the id of the mapping it may insert
    CallKey,        \* [Calls -> keys]: the Idempotency-Key of each call
    CallOffers,     \* [Calls -> sets of proposals]
    Proposer,       \* [Calls -> people]
    Approvers,      \* people who may validate, activate and retire
    ExtRefs,        \* native objects an external reference can record
    TenantEntities, \* the canonical entities that belong to the tenant
    CtxMarkets,     \* the markets a context may name; "" is none
    LastMapDay      \* bound on the clock

VARIABLES
    extRefs,   \* mapping.external_reference
    mapRows,   \* mapping.mapping, by the id of the call that inserted it
    calls,     \* how far each createMapping call is, and what it answered
    mapDay     \* the clock

mapVars == <<extRefs, mapRows, calls, mapDay>>

MapDays == 1 .. LastMapDay
NoRef == "no mapping"
NoRow == [status |-> "NONE"]

ASSUME MappingAssumption ==
    /\ Calls \cap {NoRef, "refused", "key reused"} = {}
    /\ NoRef \notin Approvers \cup {Proposer[c] : c \in Calls}

ASSUME MapClockAssumption == LastMapDay \in Nat \ {0}

\* What a proposal states: the two ends, the scope ("" or a market), the
\* period (to = 0 is open), the rank and the mapping it supersedes.
RelationOf(m) == <<m.entity, m.ref, m.scope>>

CoversDay(m, at) == m.from <= at /\ (m.to = 0 \/ at < m.to)

PeriodsMeet(m, n) == (n.to = 0 \/ m.from < n.to) /\ (m.to = 0 \/ n.from < m.to)

ValidPeriod(m) == m.to = 0 \/ m.to > m.from

MappingRow(o, who) ==
    [offer |-> o, status |-> "DRAFT", creator |-> who, approver |-> NoRef,
     approvedAt |-> 0, retiredAt |-> 0]

RecordedCalls == {c \in Calls : mapRows[c] /= NoRow}

MapInit ==
    /\ extRefs = {}
    /\ mapRows = [c \in Calls |-> NoRow]
    /\ calls = [c \in Calls |-> [at |-> "new", offer |-> NoRow, answer |-> NoRef]]
    /\ mapDay = 1

-----------------------------------------------------------------------------
(* External references                                                     *)

\* A native identity is recorded once; a second call is told it exists.
CreateExternalReference(x) ==
    /\ x \notin extRefs
    /\ extRefs' = extRefs \cup {x}
    /\ UNCHANGED <<mapRows, calls, mapDay>>

createExternalReference == \E x \in ExtRefs : CreateExternalReference(x)

-----------------------------------------------------------------------------
(* Proposals                                                               *)

EntityInTenant(e) == e \in TenantEntities

checkMappingInTenant(c) == c \in RecordedCalls

checkMappingSubjects(o) ==
    /\ EntityInTenant(o.entity)
    /\ o.ref \in extRefs
    /\ o.follows /= NoRef => checkMappingInTenant(o.follows)

\* The mapping the proposer created with a key, or none.
WithKey(c) == {d \in RecordedCalls : CallKey[d] = CallKey[c] /\ Proposer[d] = Proposer[c]}

\* What a call whose key was used is told: the mapping, or that the key was
\* used for another request.
mappingByIdempotencyKey(c, o) ==
    LET found == CHOOSE d \in WithKey(c) : TRUE
    IN  IF calls[found].offer = o THEN found ELSE "key reused"

Answered(c, o, with) == [calls EXCEPT ![c] = [at |-> "answered", offer |-> o, answer |-> with]]

\* The call reads the key before its transaction.
ProposeLooks(c, o) ==
    /\ calls[c].at = "new"
    /\ ValidPeriod(o)
    /\ IF WithKey(c) /= {}
       THEN calls' = Answered(c, o, mappingByIdempotencyKey(c, o))
       ELSE calls' = [calls EXCEPT ![c] = [at |-> "looked", offer |-> o, answer |-> NoRef]]
    /\ UNCHANGED <<extRefs, mapRows, mapDay>>

\* mapping_create_idempotency_uq.
KeyTaken(c) == WithKey(c) /= {}

\* The transaction: the subjects are checked, the row is inserted, and a
\* concurrent proposal with the same key makes the call answer with its row.
ProposeInserts(c) ==
    LET o == calls[c].offer IN
    /\ calls[c].at = "looked"
    /\ UNCHANGED <<extRefs, mapDay>>
    /\ IF ~checkMappingSubjects(o)
       THEN /\ calls' = Answered(c, o, "refused")
            /\ UNCHANGED mapRows
       ELSE IF KeyTaken(c)
       THEN /\ calls' = Answered(c, o, mappingByIdempotencyKey(c, o))
            /\ UNCHANGED mapRows
       ELSE /\ mapRows' = [mapRows EXCEPT ![c] = MappingRow(o, Proposer[c])]
            /\ calls' = Answered(c, o, c)

createMapping ==
    \E c \in Calls :
        \/ \E o \in CallOffers[c] : ProposeLooks(c, o)
        \/ ProposeInserts(c)

-----------------------------------------------------------------------------
(* The lifecycle                                                           *)

Changeable(m) == m.status = "DRAFT"

\* Scope, period and rank may change; the two ends and the predecessor never.
ChangeMapping(c, o) ==
    LET m == mapRows[c] IN
    /\ c \in RecordedCalls
    /\ Changeable(m)
    /\ o.entity = m.offer.entity /\ o.ref = m.offer.ref /\ o.follows = m.offer.follows
    /\ ValidPeriod(o)
    /\ mapRows' = [mapRows EXCEPT ![c].offer = o]
    /\ UNCHANGED <<extRefs, calls, mapDay>>

updateMapping == \E c \in Calls : \E o \in CallOffers[c] : ChangeMapping(c, o)

mappingTransitions ==
    [VALIDATED |-> {"DRAFT"},
     ACTIVE    |-> {"VALIDATED"},
     RETIRED   |-> {"ACTIVE", "DEPRECATED", "SUSPENDED"}]

FourEyes(m, who) == m.creator /= who

\* mapping_identical_active_excl: one relationship is never ACTIVE twice for
\* overlapping periods.
NoOverlap(c) ==
    \A d \in RecordedCalls \ {c} :
        ~ /\ mapRows[d].status = "ACTIVE"
          /\ RelationOf(mapRows[d].offer) = RelationOf(mapRows[c].offer)
          /\ PeriodsMeet(mapRows[d].offer, mapRows[c].offer)

SupersededBy(c, successor) ==
    successor /= NoRef => /\ checkMappingInTenant(successor)
                          /\ mapRows[successor].offer.follows = c

Stamped(m, to, who) ==
    CASE to = "VALIDATED" -> [m EXCEPT !.status = to]
      [] to = "ACTIVE"    -> [m EXCEPT !.status = to, !.approver = who, !.approvedAt = mapDay]
      [] to = "RETIRED"   -> [m EXCEPT !.status = to, !.retiredAt = mapDay]

transitionLockedMapping(c, to, who, successor) ==
    LET m == mapRows[c] IN
    /\ m.status \in mappingTransitions[to]
    /\ to = "ACTIVE" => FourEyes(m, who) /\ NoOverlap(c)
    /\ SupersededBy(c, successor)
    /\ mapRows' = [mapRows EXCEPT ![c] = Stamped(m, to, who)]

TransitionMapping(c, to, who, successor) ==
    /\ c \in RecordedCalls
    /\ transitionLockedMapping(c, to, who, successor)
    /\ UNCHANGED <<extRefs, calls, mapDay>>

transition ==
    \E c \in Calls, to \in DOMAIN mappingTransitions, who \in Approvers :
        \E successor \in IF to = "RETIRED" THEN Calls \cup {NoRef} ELSE {NoRef} :
            TransitionMapping(c, to, who, successor)

MapDayPasses ==
    /\ mapDay < LastMapDay
    /\ mapDay' = mapDay + 1
    /\ UNCHANGED <<extRefs, mapRows, calls>>

MapNext == createExternalReference \/ createMapping \/ updateMapping \/ transition \/ MapDayPasses

MapSpec == MapInit /\ [][MapNext]_mapVars

-----------------------------------------------------------------------------
(* Resolution                                                              *)

\* Mutant: a retired mapping answers for no instant, not even an earlier one.
inForceActive(m, at) == m.status = "ACTIVE"

\* ACTIVE, or retired after the instant asked about.
inForceAt(m, at) ==
    \/ m.status = "ACTIVE"
    \/ m.status = "RETIRED" /\ m.approvedAt /= 0 /\ m.retiredAt > at

\* CANDIDATE and REJECTED mappings never resolve.
Confident(m) == m.offer.confidence > 0

InEffect(at) ==
    {c \in RecordedCalls : /\ inForceAt(mapRows[c], at)
                           /\ CoversDay(mapRows[c].offer, at)
                           /\ Confident(mapRows[c])}

Outranks(m, n) ==
    \/ m.priority > n.priority
    \/ m.priority = n.priority /\ m.confidence > n.confidence

\* The best ranked answer of a set of candidates with its specificity: the
\* end they agree on, "ambiguous" when equals differ, NoRef when there is none.
Agreed(cands, end, specific) ==
    LET Beats(c, d) == \/ specific[c] > specific[d]
                       \/ specific[c] = specific[d] /\ Outranks(mapRows[c].offer, mapRows[d].offer)
        best == {c \in cands : \A d \in cands : ~Beats(d, c)}
        ends == {mapRows[c].offer[end] : c \in best}
    IN  IF cands = {} THEN NoRef
        ELSE IF Cardinality(ends) = 1 THEN CHOOSE e \in ends : TRUE
        ELSE "ambiguous"

\* From a native object to the canonical entity (scopes play no part).
ResolveExternalReference(x, at) ==
    Agreed({c \in InEffect(at) : mapRows[c].offer.ref = x}, "entity", [c \in Calls |-> 0])

\* DefaultScopeMatcher over the market dimension: a scope the context does
\* not speak to is inherited, one it contradicts refuses.
ScopeCompatible(scope, market) == scope = "" \/ market = "" \/ scope = market

ScopeSpecificity(scope, market) == IF scope /= "" /\ scope = market THEN 1 ELSE 0

MappingCandidates(e, at) == {c \in InEffect(at) : mapRows[c].offer.entity = e}

\* From a canonical entity to the native object, in a context.
ResolveMappingInContext(e, market, at) ==
    LET Applies == {c \in MappingCandidates(e, at) : ScopeCompatible(mapRows[c].offer.scope, market)}
    IN  Agreed(Applies, "ref", [c \in Applies |-> ScopeSpecificity(mapRows[c].offer.scope, market)])

-----------------------------------------------------------------------------
(* Properties                                                              *)

\* The type invariant of the registry: rows are inserted by a call that
\* answered with its own id, and carry the stamps of their status.
MapTypeOK ==
    /\ extRefs \subseteq ExtRefs
    /\ mapDay \in MapDays
    /\ \A c \in RecordedCalls :
        LET m == mapRows[c] IN
        /\ calls[c].answer = c
        /\ ValidPeriod(m.offer)
        /\ (m.approver = NoRef) = (m.status \in {"DRAFT", "VALIDATED"})
        /\ (m.retiredAt /= 0) = (m.status = "RETIRED")

\* However two calls with one idempotency key interleave between their lookup
\* and their insert, the calls that are answered with a mapping are answered
\* with the same one, and no second mapping was recorded for the key.
ReplaysConverge ==
    \A c, d \in Calls :
        /\ CallKey[c] = CallKey[d] /\ Proposer[c] = Proposer[d]
        /\ {calls[c].answer, calls[d].answer} \subseteq Calls
        => calls[c].answer = calls[d].answer

\* A step leaves what a native object, or an entity in a context, resolved to
\* at an instant before now as it was, unless it activates a mapping that
\* covers that instant.
PastStands ==
    \A at \in 1 .. mapDay - 1 :
        LET answers == [x \in ExtRefs |-> ResolveExternalReference(x, at)]
            inContext == [q \in TenantEntities \X CtxMarkets |-> ResolveMappingInContext(q[1], q[2], at)]
        IN  \/ answers' = answers /\ inContext' = inContext
            \/ \E c \in RecordedCalls : /\ mapRows[c].status = "VALIDATED"
                                        /\ mapRows'[c].status = "ACTIVE"
                                        /\ CoversDay(mapRows[c].offer, at)

\* Retiring a mapping, with or without a successor, proposing, changing and
\* the passing of time leave every earlier answer as it was.
PastAnswersStand == [][PastStands]_mapVars

\* What an approver puts in force is what was validated: from validation on
\* neither end, scope, period nor rank of a mapping changes, and the person
\* who proposed it is not the one who activated it.
ReviewedContentStands ==
    [][\A c \in RecordedCalls :
        mapRows[c].status /= "DRAFT" =>
            /\ mapRows'[c].offer = mapRows[c].offer
            /\ mapRows'[c].creator /= mapRows'[c].approver]_mapVars

\* The mapping registry: replays converge, answers about the past stand, and
\* reviewed content stands.
MappingPromises ==
  /\ [](MapTypeOK /\ ReplaysConverge)
  /\ PastAnswersStand
  /\ ReviewedContentStands
=============================================================================
