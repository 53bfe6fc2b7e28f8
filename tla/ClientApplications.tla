------------------------- MODULE ClientApplications -------------------------
(***************************************************************************)
(* Client applications: one application row, from the creation request     *)
(* that opens it to the admission decision or closure that ends it.        *)
(*                                                                         *)
(* Every command but two runs under the row lock of                        *)
(* UpdateClientApplication, and is one action here.  A creation looks its  *)
(* idempotency key up before it inserts, and Decide reads the application  *)
(* and evaluates internal eligibility before it takes the lock: both are   *)
(* two actions, and everything may happen in between.                      *)
(*                                                                         *)
(* A version is only ever compared with the row's current one, so a        *)
(* session keeps whether it read the current version, and every step that  *)
(* raises the version makes what was read before it old.                   *)
(***************************************************************************)
EXTENDS Naturals, FiniteSets

CONSTANTS
    Creates,         \* creation requests that carry the same idempotency key
    AppCountries,    \* countries an applicant may ask for
    EditSessions,    \* the applicant's open editing sessions
    Deciders         \* principals that may decide

ASSUME CreatesAssumption ==
    \A c \in Creates : c.applicant # c.opener /\ c.markets \subseteq AppCountries

VARIABLES
    app,        \* admission.client_application and its decision, or NoApp
    creating,   \* creation requests past their lookup
    seen,       \* whether each session's version is the row's, an older one or none
    deciding    \* what each decider's request read and evaluated

appVars == <<app, creating, seen, deciding>>

NoApp == [status |-> "NONE"]
NoOneYet == "nobody"

ASSUME DecidersAssumption == NoOneYet \notin Deciders

Undecided == [by |-> NoOneYet]

Terminal == {"APPROVED", "REJECTED", "WITHDRAWN", "CANCELLED"}
EditableByApplicant == {"DRAFT", "INFORMATION_REQUIRED"}
OpenStatuses == {"DRAFT", "SUBMITTED", "VALIDATING", "INFORMATION_REQUIRED", "UNDER_REVIEW"}
Withdrawable == OpenStatuses

\* Mutant: only the SUBMITTED status asks for a market.
checkApplicationSubmitted(a) == a.status = "SUBMITTED" => a.markets # {}

(* checkApplication: a submitted application names at least one market.    *)
checkApplication(a) == a.status \notin {"DRAFT", "WITHDRAWN"} => a.markets # {}

(* ApplicationTransitions: command, statuses it is taken from, status it   *)
(* leads to.                                                               *)
ApplicationTransitions ==
    [submit              |-> [from |-> {"DRAFT"}, to |-> "SUBMITTED"],
     begin_validation    |-> [from |-> {"SUBMITTED"}, to |-> "VALIDATING"],
     request_information |-> [from |-> {"VALIDATING", "UNDER_REVIEW"}, to |-> "INFORMATION_REQUIRED"],
     respond             |-> [from |-> {"INFORMATION_REQUIRED"}, to |-> "VALIDATING"],
     begin_review        |-> [from |-> {"VALIDATING"}, to |-> "UNDER_REVIEW"],
     approve             |-> [from |-> {"UNDER_REVIEW"}, to |-> "APPROVED"],
     reject              |-> [from |-> {"UNDER_REVIEW"}, to |-> "REJECTED"],
     withdraw            |-> [from |-> Withdrawable, to |-> "WITHDRAWN"],
     cancel              |-> [from |-> OpenStatuses \ {"DRAFT"}, to |-> "CANCELLED"]]

NextApplicationStatus(command, status) ==
    {t \in {ApplicationTransitions[command]} : status \in t.from}

-----------------------------------------------------------------------------
(* Creation.                                                               *)

NewApplication(c) ==
    [status |-> "DRAFT", applicant |-> c.applicant, opener |-> c.opener, markets |-> c.markets,
     asked |-> FALSE, assigned |-> FALSE, decision |-> Undecided]

(* Create and CreateForStaff, up to the lookup: a request whose key is     *)
(* already used replays or conflicts and writes nothing, so only one that  *)
(* finds no row goes on.                                                   *)
LookupByIdempotencyKey(c) ==
    /\ app = NoApp
    /\ creating' = creating \cup {c}
    /\ UNCHANGED <<app, seen, deciding>>

InsertClientApplication(c) ==
    /\ c \in creating
    /\ creating' = creating \ {c}
    /\ app' = IF app = NoApp THEN NewApplication(c) ELSE app   \* 23505: converge on the winner
    /\ UNCHANGED <<seen, deciding>>

(* CreateForStaff also wants an active human applicant other than the      *)
(* operator (CreatesAssumption).                                           *)
CreateOwn == \E c \in Creates : c.opener = NoOneYet /\ LookupByIdempotencyKey(c)
CreateForStaff == \E c \in Creates : c.opener # NoOneYet /\ LookupByIdempotencyKey(c)
CreateClientApplication == \E c \in Creates : InsertClientApplication(c)

-----------------------------------------------------------------------------
(* Commands under the row lock.                                            *)

VersionRaised == seen' = [s \in EditSessions |-> IF seen[s] = "never" THEN "never" ELSE "older"]

(* Service.run: the command's transition, the edit and the next version.   *)
(* edited is the row after the edit.                                       *)
Run(command, edited) ==
    \E t \in NextApplicationStatus(command, app.status) :
        /\ app' = [edited EXCEPT !.status = t.to]
        /\ checkApplication(app')
        /\ VersionRaised
        /\ UNCHANGED <<creating, deciding>>

BasedOn(s) == app # NoApp /\ seen[s] = "current"

GetForApplicant(s) ==
    /\ app # NoApp
    /\ seen' = [seen EXCEPT ![s] = "current"]
    /\ UNCHANGED <<app, creating, deciding>>

Update(s, markets) ==
    /\ BasedOn(s)
    /\ app.status \in EditableByApplicant
    /\ app' = [app EXCEPT !.markets = markets]
    /\ checkApplication(app')
    /\ VersionRaised
    /\ UNCHANGED <<creating, deciding>>

Submit == app # NoApp /\ Run("submit", app)

AllAnswered(a) == [a EXCEPT !.asked = FALSE]

Respond(s) ==
    /\ BasedOn(s)
    /\ app.status = "INFORMATION_REQUIRED" /\ app.asked
    /\ Run("respond", AllAnswered(app))

Withdraw == app # NoApp /\ Run("withdraw", app)

Cancel == app # NoApp /\ Run("cancel", app)

BeginValidation == app # NoApp /\ Run("begin_validation", [app EXCEPT !.assigned = TRUE])

RequestInformation == app # NoApp /\ Run("request_information", [app EXCEPT !.asked = TRUE])

BeginReview == app # NoApp /\ Run("begin_review", [app EXCEPT !.assigned = TRUE])

-----------------------------------------------------------------------------
(* The decision.                                                           *)

SelfDecision(d) == d \in {app.applicant, app.opener}

Decisions == {"approve", "reject"}

(* Decide before the lock: the decider is not the applicant or the opener, *)
(* the scope lies in the markets as read.  Whether an INTERNAL decision    *)
(* finds its organisation eligible is part of whether the request gets     *)
(* this far.                                                               *)
DecideRead(d, outcome, scope) ==
    /\ app # NoApp /\ deciding[d] = Undecided
    /\ ~SelfDecision(d)
    /\ scope \subseteq app.markets
    /\ deciding' = [deciding EXCEPT ![d] = [by |-> d, outcome |-> outcome, scope |-> scope]]
    /\ UNCHANGED <<app, creating, seen>>

insertAdmissionDecision(a, r) == [a EXCEPT !.decision = r]

(* Decide under the lock: the status and the decider are checked again,    *)
(* nothing else is; insertAdmissionDecision joins the transaction.         *)
DecideRecord(d) ==
    LET r == deciding[d] IN
    /\ r # Undecided
    /\ deciding' = [deciding EXCEPT ![d] = Undecided]
    /\ IF app.status \in ApplicationTransitions[r.outcome].from /\ ~SelfDecision(d)
       THEN /\ app' = insertAdmissionDecision([app EXCEPT !.status = ApplicationTransitions[r.outcome].to], r)
            /\ VersionRaised
       ELSE UNCHANGED <<app, seen>>
    /\ UNCHANGED creating

-----------------------------------------------------------------------------
(* The routes.                                                             *)

createRoutes == CreateOwn \/ CreateForStaff

applicantCommand ==
    \/ Submit
    \/ Withdraw
    \/ \E s \in EditSessions :
        \/ GetForApplicant(s)
        \/ \E m \in SUBSET AppCountries : Update(s, m)
        \/ Respond(s)

staffCommand == BeginValidation \/ RequestInformation \/ BeginReview \/ Cancel

decide ==
    \E d \in Deciders :
        \/ \E o \in Decisions, m \in SUBSET AppCountries :
                (o = "approve") = (m # {}) /\ DecideRead(d, o, m)
        \/ DecideRecord(d)

ApplicationInit ==
    /\ app = NoApp
    /\ creating = {}
    /\ seen = [s \in EditSessions |-> "never"]
    /\ deciding = [d \in Deciders |-> Undecided]

ApplicationNext ==
    \/ createRoutes \/ CreateClientApplication
    \/ applicantCommand \/ staffCommand \/ decide

ApplicationSpec == ApplicationInit /\ [][ApplicationNext]_appVars

-----------------------------------------------------------------------------
(* Properties.                                                             *)

(* Type invariant: an application is absent or a row of the table, and its *)
(* decision is present exactly when its status says it was decided.        *)
ApplicationTypeOK ==
    /\ app # NoApp =>
        /\ app.status \in OpenStatuses \cup Terminal
        /\ app.markets \subseteq AppCountries
        /\ app.status \notin {"DRAFT", "WITHDRAWN"} => app.markets # {}
        /\ (app.decision # Undecided) = (app.status \in {"APPROVED", "REJECTED"})
        /\ app.status \notin {"DRAFT", "SUBMITTED", "WITHDRAWN", "CANCELLED"} => app.assigned
    /\ seen \in [EditSessions -> {"never", "older", "current"}]

(* An application reaches validation, review or a decision only with every *)
(* information request answered, and waits for the applicant only while    *)
(* one is open (Respond, RequestInformation).                              *)
QuestionsAnswered ==
    app # NoApp =>
        /\ app.status \in {"DRAFT", "SUBMITTED", "VALIDATING", "UNDER_REVIEW", "APPROVED", "REJECTED"} => ~app.asked
        /\ app.status = "INFORMATION_REQUIRED" => app.asked

(* The principal who decides neither applied nor opened the application    *)
(* for the applicant, whichever of the racing creations won (Decide).      *)
DecidedByAnother ==
    app # NoApp => app.decision.by \notin {app.applicant, app.opener} \/ app.decision = Undecided

(* An applicant's edit never overwrites a change its session had not read: *)
(* markets change only from the version the last reader of that version    *)
(* saw, so between two reads of one session nothing is lost (Update).      *)
EditsAreNotLost ==
    [][app # NoApp /\ app'.markets # app.markets =>
        /\ \E s \in EditSessions : seen[s] = "current"
        /\ \A s \in EditSessions : seen'[s] # "current"]_appVars

(* A closed application never changes again, and an application is never   *)
(* replaced by another creation with the same key (run, the transition     *)
(* table and the convergence of CreateClientApplication).                  *)
ClosedIsFinal ==
    [][/\ app # NoApp /\ app.status \in Terminal => app' = app
       /\ app # NoApp => app'.applicant = app.applicant /\ app'.opener = app.opener]_appVars

(* What ErrMarketScope says: the approved market scope lies within the     *)
(* markets the decided application asks for.  The code checks the markets  *)
(* it read before the lock.                                                *)
ApprovedWithinRequested ==
    app # NoApp /\ app.status = "APPROVED" => app.decision.scope \subseteq app.markets

\* Client applications: a question is answered before the review goes on,
\* the decision is another's, no edit is lost, and closed applications stay
\* closed.
ApplicationPromises ==
  /\ [](ApplicationTypeOK /\ QuestionsAnswered /\ DecidedByAnother)
  /\ EditsAreNotLost
  /\ ClosedIsFinal
=============================================================================
