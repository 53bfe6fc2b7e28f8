------------------------- MODULE OperatingAuthority -------------------------
(***************************************************************************)
(* Who may act as the seller, and for how long that answer stands.         *)
(*                                                                         *)
(* A seller operating binding ties an organisation, its legal entity and a *)
(* Trade configuration that Trade itself attested.  Its versions are       *)
(* proposed, approved and activated by three people, and a version in      *)
(* force gives way to its successor.  The Trade, Payments and ERP engines  *)
(* ask for a decision before each operation: the handler fixes its clock,  *)
(* then reads the context, the tenant, the engine's binding, the seller    *)
(* binding (Trade only) and the legal actor's mandate one after the other, *)
(* while all of these may change under it.                                 *)
(*                                                                         *)
(* One binding of one tenant.  What the decisions rest on and other        *)
(* components keep (tenant, engine, mandates, the organisation's standing) *)
(* is the set of Facts, each of which may cease once.                      *)
(***************************************************************************)
EXTENDS Naturals, FiniteSets, Sequences

CONSTANTS
  SobOffers,      \* [version -> what makers propose]: records [config, entity,
                  \* from, to]
  SobHolders,     \* [permission -> the people who hold it directly]
  Configs,        \* digests of the native configurations Trade may attest
  MandateOrder,   \* entities in the order their mandates succeed each other
  CtxExpires,     \* when the workload's context lapses
  OpLease,        \* longest life of a decision, 30 s in the code
  MaxCeased,      \* bound on the facts that cease in one behaviour
  MaxVersions, LastOpDay

ASSUME OperatingAssumption ==
  /\ OpLease \in Nat \ {0} /\ MaxVersions \in Nat \ {0} /\ LastOpDay \in Nat /\ CtxExpires \in Nat
  /\ \A v \in 1..MaxVersions : \A o \in SobOffers[v] : {o.from, o.to} \subseteq Nat /\ o.to > o.from
  /\ "none" \notin SobHolders["ACTIVATE"]  \* an operator is a person

VARIABLES
  attestedConfigs,  \* digests an attestation is on record for
  sob,              \* versions of the binding, oldest first; left is the
                    \* instant the version was last ACTIVE
  ceasedAt,         \* [Facts -> the instant it ceased, or Never]
  enquiry,          \* the request being served, or NoEnquiry
  granted,          \* the last AUTHORIZED decision, or NoGrant
  discovered,       \* the last discovery answer
  opDay

opVars == <<attestedConfigs, sob, ceasedAt, enquiry, granted, discovered, opDay>>

Never == LastOpDay + 1
MandateEntities == {MandateOrder[i] : i \in 1..Len(MandateOrder)}
Facts == {"tenant", "engine", "standing"} \cup MandateEntities
Stands(f) == ceasedAt[f] = Never
NoEnquiry == [pep |-> "none", step |-> "none", at |-> 0, version |-> 0, config |-> "none"]
NoGrant == [pep |-> "none", at |-> 0, version |-> 0, entity |-> "none", expires |-> 0]
NoDiscovery == [outcome |-> "NONE", version |-> 0, at |-> 0]
SobLive == {"ACTIVE", "SUSPENDED"}
Earlier(a, b) == IF a < b THEN a ELSE b

OperatingInit ==
  /\ attestedConfigs = {}
  /\ sob = <<>>
  /\ ceasedAt = [f \in Facts |-> Never]
  /\ enquiry = NoEnquiry
  /\ granted = NoGrant
  /\ discovered = NoDiscovery
  /\ opDay = 1

-----------------------------------------------------------------------------
(* The binding's versions.                                                 *)

\* Trade attests its configuration under a current context of its own
RecordTradeNativeConfigurationAttestation(c) ==
  /\ attestedConfigs' = attestedConfigs \cup {c}
  /\ UNCHANGED <<sob, ceasedAt, enquiry, granted, discovered, opDay>>

attest ==
  \E c \in Configs \ attestedConfigs :
    opDay < CtxExpires /\ RecordTradeNativeConfigurationAttestation(c)

\* the people who hold the permission on this organisation by a direct grant
exactOrganisationGrant(permission) == SobHolders[permission]

\* the first version, or the successor of a version in force that has none yet
Proposable(offer) ==
  \/ sob = <<>>
  \/ /\ sob # <<>>
     /\ sob[Len(sob)].status \in SobLive
     /\ sob[Len(sob)].entity = offer.entity

ProposeOperatingBinding(offer, maker) ==
  /\ offer.config \in attestedConfigs
  /\ Proposable(offer)
  /\ sob' = Append(sob,
       [status |-> "PENDING_APPROVAL", config |-> offer.config, entity |-> offer.entity,
        from |-> offer.from, to |-> offer.to, maker |-> maker, checker |-> "none",
        operator |-> "none", left |-> 0])
  /\ UNCHANGED <<attestedConfigs, ceasedAt, enquiry, granted, discovered, opDay>>

propose ==
  /\ Len(sob) < MaxVersions
  /\ \E offer \in SobOffers[Len(sob) + 1], p \in exactOrganisationGrant("propose") : ProposeOperatingBinding(offer, p)

bindingTargetStatus ==
  [APPROVE |-> "APPROVED", REJECT |-> "REJECTED", ACTIVATE |-> "ACTIVE",
   SUSPEND |-> "SUSPENDED", REVOKE |-> "REVOKED"]

Governed ==
  [APPROVE |-> {"PENDING_APPROVAL"}, REJECT |-> {"PENDING_APPROVAL"},
   ACTIVATE |-> {"APPROVED", "SUSPENDED"}, SUSPEND |-> {"ACTIVE"},
   REVOKE |-> {"APPROVED", "ACTIVE", "SUSPENDED"}]

\* Mutant: the checker may activate.
HandsOfMaker(row, move, p) == move \in {"APPROVE", "REJECT", "ACTIVATE"} => p # row.maker

\* the checker is not the maker, the operator neither of the two
DistinctHands(row, move, p) ==
  /\ move \in {"APPROVE", "REJECT"} => p # row.maker
  /\ move = "ACTIVATE" => p \notin {row.maker, row.checker}

\* what the store reads again before a version comes into force
Revalidated(row) ==
  /\ row.from <= opDay /\ opDay < row.to
  /\ Stands("standing") /\ Stands("engine")

\* activating a successor ends the version it succeeds, if that is in force
Supersedes(v, move) == move = "ACTIVATE" /\ v > 1 /\ sob[v - 1].status \in SobLive

\* unique indexes: one version in force, one approved
RoomFor(v, move) ==
  LET others == (1..Len(sob)) \ (IF Supersedes(v, move) THEN {v - 1, v} ELSE {v})
  IN  /\ move = "ACTIVATE" => \A w \in others : sob[w].status \notin SobLive
      /\ move = "APPROVE" => \A w \in others : sob[w].status # "APPROVED"

TransitionOperatingBinding(v, move, p) ==
  LET row == sob[v]
      moved == [row EXCEPT !.status = bindingTargetStatus[move],
                           !.checker = IF move = "APPROVE" THEN p ELSE @,
                           !.operator = IF move = "ACTIVATE" THEN p ELSE @,
                           !.left = IF row.status = "ACTIVE" THEN opDay ELSE @]
  IN  /\ row.status \in Governed[move]
      /\ DistinctHands(row, move, p)
      /\ move = "ACTIVATE" => Revalidated(row)
      /\ RoomFor(v, move)
      /\ sob' = [w \in 1..Len(sob) |->
                   CASE w = v -> moved
                     [] w = v - 1 /\ Supersedes(v, move) ->
                          [sob[w] EXCEPT !.status = "SUPERSEDED",
                                         !.left = IF sob[w].status = "ACTIVE" THEN opDay ELSE @]
                     [] OTHER -> sob[w]]
      /\ UNCHANGED <<attestedConfigs, ceasedAt, enquiry, granted, discovered, opDay>>

transition ==
  \E v \in 1..Len(sob), move \in DOMAIN bindingTargetStatus :
    \E p \in exactOrganisationGrant(move) : TransitionOperatingBinding(v, move, p)

-----------------------------------------------------------------------------
(* What other components end, and time.                                    *)

Ceases ==
  \E f \in Facts :
    /\ Stands(f)
    /\ Cardinality({g \in Facts : ~Stands(g)}) < MaxCeased
    /\ ceasedAt' = [ceasedAt EXCEPT ![f] = opDay]
    /\ UNCHANGED <<attestedConfigs, sob, enquiry, granted, discovered, opDay>>

\* a decision past its expiry can no longer be used
OpTick ==
  /\ opDay < LastOpDay
  /\ opDay' = opDay + 1
  /\ granted' = IF opDay' < granted.expires THEN granted ELSE NoGrant
  /\ UNCHANGED <<attestedConfigs, sob, ceasedAt, enquiry, discovered>>

-----------------------------------------------------------------------------
(* A request.  A refusal at any step is answered and leaves nothing behind *)
(* that later steps read, so it ends the request.                          *)

Steps == [trade |-> <<"tenant", "engine", "binding", "actor">>,
          discovery |-> <<"tenant", "engine", "candidates">>,
          payments |-> <<"tenant", "engine", "actor">>,
          erp |-> <<"tenant", "engine", "actor">>]

AfterStep(q) ==
  LET i == CHOOSE i \in 1..Len(Steps[q.pep]) : Steps[q.pep][i] = q.step
  IN  [q EXCEPT !.step = Steps[q.pep][i + 1]]

\* the clock is fixed, then the context is redeemed and must still be usable;
\* an operation class the catalogue reserves is refused before any read
redeem(pep, activatable, v, c) ==
  /\ enquiry = NoEnquiry
  /\ activatable
  /\ opDay < CtxExpires
  /\ enquiry' = [pep |-> pep, step |-> Steps[pep][1], at |-> opDay, version |-> v, config |-> c]
  /\ granted' = NoGrant /\ discovered' = NoDiscovery
  /\ UNCHANGED <<attestedConfigs, sob, ceasedAt, opDay>>

\* [pep -> whether its catalogue holds reserved classes besides the others]
tradeOrderCatalogue == {TRUE, FALSE}
paymentsMoneyMovementCatalogue == {TRUE, FALSE}
erpPostingCatalogue == {TRUE}

Goes(ok) ==
  /\ enquiry' = IF ok THEN AfterStep(enquiry) ELSE NoEnquiry
  /\ UNCHANGED <<attestedConfigs, sob, ceasedAt, granted, discovered, opDay>>

ReadTenant == enquiry.step = "tenant" /\ Goes(Stands("tenant"))

TradeEngineInstanceBound ==
  enquiry.pep \in {"trade", "discovery"} /\ enquiry.step = "engine" /\ Goes(Stands("engine"))
PaymentsEngineInstanceBound ==
  enquiry.pep = "payments" /\ enquiry.step = "engine" /\ Goes(Stands("engine"))
ErpEngineInstanceBound ==
  enquiry.pep = "erp" /\ enquiry.step = "engine" /\ Goes(Stands("engine"))

InEffect(row, at) == row.status = "ACTIVE" /\ row.from <= at /\ at < row.to

\* the version the caller names, as the control plane holds it
GetSellerOperatingBinding ==
  /\ enquiry.step = "binding"
  /\ Goes(/\ enquiry.version \in 1..Len(sob)
          /\ InEffect(sob[enquiry.version], enquiry.at)
          /\ sob[enquiry.version].config = enquiry.config)

\* ResolveOperatingLegalActor: the entity of the one mandate in force.  The
\* mandates of the organisation succeed one another, so that two of them are
\* never in force together.
ResponsibleNow == {e \in MandateEntities : Stands(e) /\
  \A i \in 1..Len(MandateOrder) : Stands(MandateOrder[i]) =>
    \E j \in 1..i : MandateOrder[j] = e}

\* never longer than the lease, the context or the binding
Until(q, limit) == Earlier(q.at + OpLease, Earlier(CtxExpires, limit))

\* Trade's mandate must be the binding's own legal entity's
ActorMatches(q, e) == q.pep = "trade" => e = sob[q.version].entity

\* the decision is recorded before it is disclosed; one that cannot be
\* recorded is not given, which ends the request as a refusal does
decideOn(q, e, limit) ==
  /\ granted' = IF ActorMatches(q, e) /\ Until(q, limit) > q.at
                THEN [pep |-> q.pep, at |-> q.at, version |-> q.version, entity |-> e,
                      expires |-> Until(q, limit)]
                ELSE NoGrant
  /\ enquiry' = NoEnquiry
  /\ UNCHANGED <<attestedConfigs, sob, ceasedAt, discovered, opDay>>

RecordTradeOrderAuthorityDecision ==
  /\ enquiry.pep = "trade" /\ enquiry.step = "actor"
  /\ \E e \in ResponsibleNow : decideOn(enquiry, e, sob[enquiry.version].to)

RecordPaymentsMoneyMovementDecision ==
  /\ enquiry.pep = "payments" /\ enquiry.step = "actor"
  /\ \E e \in ResponsibleNow : decideOn(enquiry, e, CtxExpires)

RecordErpPostingAuthorityDecision ==
  /\ enquiry.pep = "erp" /\ enquiry.step = "actor"
  /\ \E e \in ResponsibleNow : decideOn(enquiry, e, CtxExpires)

\* a read or a record that fails, and a legal actor that is not found
Refused ==
  /\ enquiry # NoEnquiry
  /\ enquiry' = NoEnquiry
  /\ UNCHANGED <<attestedConfigs, sob, ceasedAt, granted, discovered, opDay>>

SellerBindingCandidates == 1..Len(sob)

resolveSellerBinding(candidates, digest, at) ==
  LET live == {v \in candidates : InEffect(sob[v], at)}
      exact == {v \in live : sob[v].config = digest}
      Answer(outcome, v) == [outcome |-> outcome, version |-> v, at |-> at]
  IN  CASE candidates = {} -> Answer("NO_APPLICABLE_BINDING", 0)
        [] candidates # {} /\ live = {} -> Answer("BINDING_NOT_ACTIVE", 0)
        [] live # {} /\ exact = {} -> Answer("NATIVE_CONFIGURATION_MISMATCH", 0)
        [] Cardinality(exact) > 1 -> Answer("AMBIGUOUS_BINDING", 0)
        [] Cardinality(exact) = 1 -> Answer("RESOLVED", CHOOSE v \in exact : TRUE)

RecordSellerBindingResolution ==
  /\ enquiry.pep = "discovery" /\ enquiry.step = "candidates"
  /\ discovered' = resolveSellerBinding(SellerBindingCandidates, enquiry.config, enquiry.at)
  /\ enquiry' = NoEnquiry
  /\ UNCHANGED <<attestedConfigs, sob, ceasedAt, granted, opDay>>

\* Trade asks about a version it was told of, with the digest it now runs
tradeOrderAuthority ==
  \E a \in tradeOrderCatalogue, v \in 1..Len(sob), c \in Configs : redeem("trade", a, v, c)
paymentsAuthority == \E a \in paymentsMoneyMovementCatalogue : redeem("payments", a, 0, "none")
erpPostingAuthority == \E a \in erpPostingCatalogue : redeem("erp", a, 0, "none")
sellerBindingResolve == \E c \in Configs : redeem("discovery", TRUE, 0, c)

OperatingNext ==
  \/ attest \/ propose \/ transition
  \/ Ceases \/ OpTick
  \/ tradeOrderAuthority \/ paymentsAuthority \/ erpPostingAuthority \/ sellerBindingResolve
  \/ ReadTenant
  \/ TradeEngineInstanceBound \/ PaymentsEngineInstanceBound \/ ErpEngineInstanceBound
  \/ GetSellerOperatingBinding
  \/ RecordTradeOrderAuthorityDecision \/ RecordPaymentsMoneyMovementDecision
  \/ RecordErpPostingAuthorityDecision \/ RecordSellerBindingResolution
  \/ Refused

OperatingSpec == OperatingInit /\ [][OperatingNext]_opVars

-----------------------------------------------------------------------------
(* Properties                                                              *)

\* One version of a binding is in force at most, a successor waits at most
\* once, and whoever brought a version into force is neither the person who
\* proposed it nor the one who approved it
\* (TransitionOperatingBinding and the guard it runs under).
OneVersionInForce ==
  /\ \A v, w \in 1..Len(sob) : v # w =>
       /\ ~(sob[v].status \in SobLive /\ sob[w].status \in SobLive)
       /\ ~(sob[v].status = "APPROVED" /\ sob[w].status = "APPROVED")
  /\ \A v \in 1..Len(sob) : sob[v].operator # "none" =>
       Cardinality({sob[v].maker, sob[v].checker, sob[v].operator}) = 3

\* A version is superseded only by a successor that is in force from the same
\* step on: sellers never fall into a gap between two versions
\* (TransitionOperatingBinding).
SupersessionLeavesNoGap ==
  [][\A v \in 1..Len(sob) :
       sob'[v].status = "SUPERSEDED" /\ sob[v].status # "SUPERSEDED" =>
         v + 1 \in 1..Len(sob) /\ sob'[v + 1].status = "ACTIVE"]_opVars

\* Withdrawal reaches the engines within one lease: while a decision can
\* still be used, nothing it rests on (tenant, engine, mandate, and for Trade
\* the binding version) ended a lease or more ago, however the handler's
\* reads interleave with the changes (resolve of the three handlers).
WithdrawalBitesWithinLease ==
  granted # NoGrant /\ opDay < granted.expires =>
    /\ \A f \in {"tenant", "engine", granted.entity} :
         Stands(f) \/ opDay < ceasedAt[f] + OpLease
    /\ granted.pep = "trade" =>
         sob[granted.version].status = "ACTIVE" \/ opDay < sob[granted.version].left + OpLease

\* An order is authorised only for the legal entity of the binding it names,
\* and not past the end of that binding (tradeOrderAuthorityHandler.resolve).
OrdersBindTheirSeller ==
  granted.pep = "trade" =>
    /\ granted.entity = sob[granted.version].entity
    /\ granted.expires <= sob[granted.version].to
    /\ sob[granted.version].operator # "none"

\* Discovery is never ambiguous, and the version it names was in force when
\* it answered or left force since (resolveSellerBinding).
DiscoveryIsDefinite ==
  /\ discovered.outcome # "AMBIGUOUS_BINDING"
  /\ discovered.outcome = "RESOLVED" =>
       sob[discovered.version].status = "ACTIVE" \/ sob[discovered.version].left >= discovered.at

\* A successor comes into force only by superseding its predecessor in the
\* same step, as the guard of seller bindings says it does.
SuccessorSupersedesLive ==
  [][\A v \in 2..Len(sob) :
       sob[v].status = "APPROVED" /\ sob'[v].status = "ACTIVE" =>
         sob[v - 1].status \in SobLive]_opVars

\* Operating authority: one version of a seller binding in force, a
\* withdrawal bites within the lease, orders bind their seller, discovery is
\* definite, and a supersession leaves no gap.
OperatingPromises ==
  /\ [](OneVersionInForce /\ WithdrawalBitesWithinLease /\ OrdersBindTheirSeller /\
       DiscoveryIsDefinite)
  /\ SupersessionLeavesNoGap
=============================================================================
