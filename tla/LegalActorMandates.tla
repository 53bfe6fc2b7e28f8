------------------------- MODULE LegalActorMandates -------------------------
(***************************************************************************)
(* The mandates by which a legal entity answers for what an operating      *)
(* organisation does: proposed by one person, decided by a second,         *)
(* activated by a third, ended by suspension, revocation or expiry, and    *)
(* resolved by the workloads that need to know who is responsible.         *)
(*                                                                         *)
(* A scope is the set of cells (role, activity, market, capability) a      *)
(* mandate covers; a mandate without capabilities also covers the cell of  *)
(* a request that names none.  One tenant and its organisation are         *)
(* modelled: every rule below compares mandates of the same pair only.     *)
(***************************************************************************)
EXTENDS Naturals, FiniteSets

CONSTANTS
  Mandates,        \* identifiers the store may mint
  Cells,           \* what a request may ask about
  Offers,          \* [identifier -> what makers propose]: records [scope,
                   \* from, to, follows]; to = 0 is an open window
  Officers,        \* [route -> the people holding it]
  Evidence,        \* verification references of the legal entity's profile
  LastMandateDay,  \* bound on the clock
  MandateLease     \* how long a resolution stands, 30 s in the code

ASSUME MandateAssumption ==
  /\ LastMandateDay \in Nat /\ MandateLease \in Nat \ {0}
  /\ \A m \in Mandates : \A o \in Offers[m] :
       o.scope \subseteq Cells /\ {o.from, o.to} \subseteq Nat /\ (o.to = 0 \/ o.to > o.from)

VARIABLES
  mandates,    \* [identifier -> row]; a row that is absent has status "NONE"
  rulings,     \* [identifier -> decision row]
  activating,  \* open activation transactions: [mandate, by]
  mandateLog,  \* [identifier -> version of its last event]
  profile,     \* [primary, evidence]: the live mapping, the verified evidence
  mandateDay

mandateVars == <<mandates, rulings, activating, mandateLog, profile, mandateDay>>

NoMandate == "none"
NoEvidence == "unverified"
Absent == [status |-> "NONE", steps |-> 0, scope |-> {}, from |-> 0, to |-> 0,
           follows |-> NoMandate, maker |-> NoMandate, ref |-> NoEvidence,
           approver |-> NoMandate, activator |-> NoMandate]
NoRuling == [decision |-> "NONE", by |-> NoMandate, ref |-> NoEvidence]
Ended == {"SUSPENDED", "REVOKED", "EXPIRED"}

MandateInit ==
  /\ mandates = [m \in Mandates |-> Absent]
  /\ rulings = [m \in Mandates |-> NoRuling]
  /\ activating = {}
  /\ mandateLog = [m \in Mandates |-> 0]
  /\ profile = [primary |-> TRUE, evidence |-> NoEvidence]
  /\ mandateDay = 1

effectiveAt(row, at) == row.from <= at /\ (row.to = 0 \/ at < row.to)

WindowsMeet(a, b) ==
  /\ a.to = 0 \/ b.from < a.to
  /\ b.to = 0 \/ a.from < b.to

Meet(a, b) == a.scope \cap b.scope # {} /\ WindowsMeet(a, b)

\* Mutant: the pair's lock is not taken.
PairUnlocked == FALSE

\* The pair's advisory lock, taken by the row trigger of every transition.
PairLocked == activating # {}

RowLocked(m) == \E tx \in activating : tx.mandate = m

EventVersion(kind, steps) ==
  CASE kind = "PROPOSE" -> 1
    [] kind = "DECIDE" -> 2
    [] OTHER -> 2 + steps

(***************************************************************************)
(* Proposal and decision.  The row lock and the command ledger make each   *)
(* one step; a replayed key returns the stored receipt and changes nothing.*)
(***************************************************************************)
ProposeOperatingLegalActorMandate(m, offer, maker) ==
  /\ mandates[m].status = "NONE"
  /\ profile.primary
  /\ offer.follows # NoMandate => mandates[offer.follows].status # "NONE"
  /\ mandates' = [mandates EXCEPT ![m] =
       [Absent EXCEPT !.status = "PENDING", !.scope = offer.scope,
                      !.from = offer.from, !.to = offer.to,
                      !.follows = offer.follows, !.maker = maker]]
  /\ mandateLog' = [mandateLog EXCEPT ![m] = EventVersion("PROPOSE", 0)]
  /\ UNCHANGED <<rulings, activating, profile, mandateDay>>

DecideOperatingLegalActorMandate(m, decision, ref, checker) ==
  /\ mandates[m].status = "PENDING" /\ ~RowLocked(m)
  /\ mandates[m].maker # checker
  /\ rulings[m] = NoRuling
  /\ profile.primary
  /\ decision = "APPROVE" => ref = profile.evidence /\ ref # NoEvidence
  /\ rulings' = [rulings EXCEPT ![m] =
       [decision |-> decision, by |-> checker,
        ref |-> IF decision = "APPROVE" THEN ref ELSE NoEvidence]]
  /\ mandateLog' = [mandateLog EXCEPT ![m] = EventVersion("DECIDE", 0)]
  /\ UNCHANGED <<mandates, activating, profile, mandateDay>>

(***************************************************************************)
(* Activation: the transaction locks the row, the trigger takes the pair's *)
(* lock, re-reads what activation rests on and then commits.  The two      *)
(* steps let other transactions run between the check and the commit.      *)
(***************************************************************************)
Unambiguous(m) ==
  \A n \in Mandates \ {m} :
    mandates[n].status = "ACTIVE" => ~Meet(mandates[n], mandates[m])

DistinctOperator(m, actor) ==
  /\ rulings[m].decision = "APPROVE"
  /\ actor \notin {mandates[m].maker, rulings[m].by}

Activatable(row) == row.status = "PENDING"

PredecessorEnded(m) ==
  mandates[m].follows # NoMandate => mandates[mandates[m].follows].status \in Ended

BeginActivation(m, actor) ==
  /\ ~PairLocked /\ ~RowLocked(m)
  /\ Activatable(mandates[m])
  /\ effectiveAt(mandates[m], mandateDay)
  /\ DistinctOperator(m, actor)
  /\ profile.primary /\ profile.evidence = rulings[m].ref
  /\ PredecessorEnded(m)
  /\ Unambiguous(m)
  /\ activating' = activating \cup {[mandate |-> m, by |-> actor]}
  /\ UNCHANGED <<mandates, rulings, mandateLog, profile, mandateDay>>

\* The transition row is inserted before the event counts them (steps).
Transitioned(m, row) ==
  /\ mandates' = [mandates EXCEPT ![m] = [row EXCEPT !.steps = @ + 1]]
  /\ mandateLog' = [mandateLog EXCEPT ![m] =
       EventVersion("LIFECYCLE", mandates[m].steps + 1)]

CommitActivation ==
  \E tx \in activating : LET m == tx.mandate IN
  /\ Transitioned(m, [mandates[m] EXCEPT !.status = "ACTIVE",
                        !.approver = rulings[m].by, !.ref = rulings[m].ref,
                        !.activator = tx.by])
  /\ activating' = activating \ {tx}
  /\ UNCHANGED <<rulings, profile, mandateDay>>

\* A mandate that is over is never reopened: no action leads back to ACTIVE.
TerminalFrom(action, row) ==
  CASE action = "SUSPEND" -> row.status = "ACTIVE"
    [] action = "REVOKE" -> row.status \in {"PENDING", "ACTIVE", "SUSPENDED"}
    [] action = "EXPIRE" -> /\ row.to # 0 /\ row.to <= mandateDay
                            /\ row.status \in {"PENDING", "ACTIVE", "SUSPENDED"}

legalActorTarget(action) ==
  CASE action = "SUSPEND" -> "SUSPENDED"
    [] action = "REVOKE" -> "REVOKED"
    [] action = "EXPIRE" -> "EXPIRED"

TransitionOperatingLegalActorMandate(m, action) ==
  /\ ~PairLocked /\ ~RowLocked(m)
  /\ TerminalFrom(action, mandates[m])
  /\ Transitioned(m, [mandates[m] EXCEPT !.status = legalActorTarget(action)])
  /\ UNCHANGED <<rulings, activating, profile, mandateDay>>

(***************************************************************************)
(* Resolution: what the assessment route answers at this instant.          *)
(***************************************************************************)
\* The candidates' actor_verified column: the profile is verified and still
\* carries the reference the mandate was approved on.
ActorVerified(row) == row.ref # NoEvidence /\ row.ref = profile.evidence

Resolve(cell, at) ==
  LET known == {m \in Mandates : /\ profile.primary
                                 /\ mandates[m].status \in {"ACTIVE"} \cup Ended
                                 /\ cell \in mandates[m].scope}
      active == {m \in known : /\ mandates[m].status = "ACTIVE"
                               /\ mandates[m].from <= at}
      matching == {m \in active : effectiveAt(mandates[m], at)}
      over == (active \ matching) \cup
              {m \in known : mandates[m].status \in {"REVOKED", "EXPIRED"}}
      denied(outcome) == [outcome |-> outcome, mandate |-> NoMandate, until |-> 0]
  IN  CASE matching = {} /\ over # {} -> denied("REVOKED_OR_EXPIRED")
        [] matching = {} /\ over = {} -> denied("NO_APPLICABLE_MANDATE")
        [] Cardinality(matching) > 1 -> denied("AMBIGUOUS")
        [] OTHER ->
             LET m == CHOOSE n \in matching : TRUE
                 row == mandates[m]
             IN  IF row.approver \in {NoMandate, row.maker} \/ ~ActorVerified(row)
                 THEN denied("ACTOR_NOT_VERIFIED")
                 ELSE [outcome |-> "AUTHORIZED", mandate |-> m,
                       until |-> IF row.to # 0 /\ row.to < at + MandateLease
                                 THEN row.to ELSE at + MandateLease]

\* The route serves a live runtime context of an active tenant and never
\* promises longer than that context lives.
Assess(cell, contextEnds) ==
  LET found == Resolve(cell, mandateDay)
  IN  IF found.outcome # "AUTHORIZED" \/ contextEnds >= found.until THEN found
      ELSE [found EXCEPT !.until = contextEnds]

(***************************************************************************)
(* The routes, the registry's own changes and the clock.                   *)
(***************************************************************************)
ProposeRoute ==
  \E m \in Mandates, who \in Officers.propose : \E offer \in Offers[m] :
    ProposeOperatingLegalActorMandate(m, offer, who)

DecideRoute ==
  \E m \in Mandates, decision \in {"APPROVE", "REJECT"}, ref \in Evidence, who \in Officers.decide :
    DecideOperatingLegalActorMandate(m, decision, ref, who)

ActivateRoute == \E m \in Mandates, who \in Officers.activate : BeginActivation(m, who)

TerminateRoute ==
  \E m \in Mandates, action \in {"SUSPEND", "REVOKE", "EXPIRE"} :
    TransitionOperatingLegalActorMandate(m, action)

RegistryMoves ==
  /\ profile' \in [primary : BOOLEAN, evidence : Evidence \cup {NoEvidence}]
  /\ UNCHANGED <<mandates, rulings, activating, mandateLog, mandateDay>>

MandateTick ==
  /\ mandateDay < LastMandateDay
  /\ mandateDay' = mandateDay + 1
  /\ UNCHANGED <<mandates, rulings, activating, mandateLog, profile>>

MandateNext ==
  \/ ProposeRoute
  \/ DecideRoute
  \/ ActivateRoute
  \/ CommitActivation
  \/ TerminateRoute
  \/ RegistryMoves
  \/ MandateTick

MandateSpec == MandateInit /\ [][MandateNext]_mandateVars

(***************************************************************************)
(* Properties.                                                             *)
(***************************************************************************)

\* Three people stand behind every activated mandate, and the one who decided
\* approved it (operating_legal_actor_mandate_lifecycle_guard).
MandateThreeHands ==
  \A m \in Mandates :
    mandates[m].activator # NoMandate =>
      /\ rulings[m].decision = "APPROVE"
      /\ mandates[m].approver = rulings[m].by
      /\ Cardinality({mandates[m].maker, rulings[m].by, mandates[m].activator}) = 3

\* However activations interleave, no request is ever answered AMBIGUOUS:
\* two active mandates never cover the same cell at the same instant.
NeverAmbiguous ==
  \A cell \in Cells, at \in 1 .. LastMandateDay :
    Resolve(cell, at).outcome # "AMBIGUOUS"

\* An answer names an entity only on the very evidence its checker approved
\* on and that the profile still carries, and the promise ends before the
\* mandate or the caller's context does.
AnswersAreBacked ==
  \A cell \in Cells, ends \in mandateDay + 1 .. LastMandateDay + 1 :
    LET answer == Assess(cell, ends)
        row == mandates[answer.mandate]
    IN  answer.outcome = "AUTHORIZED" =>
          /\ rulings[answer.mandate].ref = profile.evidence
          /\ mandateDay < answer.until /\ answer.until <= ends
          /\ row.to # 0 => answer.until <= row.to

\* Every event of a mandate carries a version above the one before it, so a
\* consumer that keeps the highest never goes back.
VersionsGrow ==
  [][\A m \in Mandates :
       (mandates'[m] # mandates[m] \/ rulings'[m] # rulings[m])
         => mandateLog'[m] > mandateLog[m]]_mandateVars

\* A mandate that was suspended, revoked or expired, and one that was
\* rejected, never becomes active.
NeverResurrected ==
  [][\A m \in Mandates :
       mandates'[m].status = "ACTIVE" /\ mandates[m].status # "ACTIVE" =>
         mandates[m].status = "PENDING" /\ rulings[m].decision # "REJECT"]_mandateVars

\* Legal actor mandates: three hands, never two mandates for one cell on one
\* day, answers are backed, versions grow, and an ended mandate is never
\* resurrected.
MandatePromises ==
  /\ [](MandateThreeHands /\ NeverAmbiguous /\ AnswersAreBacked)
  /\ VersionsGrow
  /\ NeverResurrected
=============================================================================
