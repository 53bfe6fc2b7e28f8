---------------------------- MODULE AssuranceProofs ----------------------------
(***************************************************************************)
(* The safety of ClientApplications, ProgressiveAdmission,                 *)
(* DocumentaryReviews and SubscriptionClassification, for any requests,    *)
(* sessions, people, organisations, requirements, commands and clocks.     *)
(*                                                                         *)
(* An application's promises are inductive once its row is typed.  That    *)
(* six people took part in a progressive admission is known only at its    *)
(* end: RolesInv keeps, stage by stage, who may not come back.  An         *)
(* approval of a release is verified in one step and recorded in another,  *)
(* and an answer on a classification is read in three: ReleasesInv and     *)
(* AskingInv say what stays true in between.                               *)
(***************************************************************************)
EXTENDS ClientApplications, ProgressiveAdmission, DocumentaryReviews, SubscriptionClassification, TLAPS

-----------------------------------------------------------------------------
(* Client applications: the inductive invariant *)

Parties == {c.applicant : c \in Creates} \cup {c.opener : c \in Creates}
DecisionRows == [by : Deciders, outcome : Decisions, scope : SUBSET AppCountries]
ApplicationRows ==
  [status : OpenStatuses \cup Terminal, applicant : Parties, opener : Parties,
   markets : SUBSET AppCountries, asked : BOOLEAN, assigned : BOOLEAN,
   decision : {Undecided} \cup DecisionRows]

ApplicationTyped ==
  /\ app \in {NoApp} \cup ApplicationRows
  /\ creating \subseteq Creates
  /\ seen \in [EditSessions -> {"never", "older", "current"}]
  /\ deciding \in [Deciders -> {Undecided} \cup DecisionRows]
  /\ \A d \in Deciders : deciding[d] # Undecided => deciding[d].by = d

\* What is true of a row whatever state the rest is in.
SoundRow(a) ==
  /\ a.status \notin {"DRAFT", "WITHDRAWN"} => a.markets # {}
  /\ (a.decision # Undecided) = (a.status \in {"APPROVED", "REJECTED"})
  /\ a.status \notin {"DRAFT", "SUBMITTED", "WITHDRAWN", "CANCELLED"} => a.assigned
  /\ a.status \in {"DRAFT", "SUBMITTED", "VALIDATING", "UNDER_REVIEW", "APPROVED", "REJECTED"} => ~a.asked
  /\ a.status = "INFORMATION_REQUIRED" => a.asked
  /\ a.decision # Undecided => a.decision.by \notin {a.applicant, a.opener}

ApplicationInv == ApplicationTyped /\ (app # NoApp => SoundRow(app))

\* What a step does to a row that is there: it stays itself, a closed row
\* stays as it is, and other markets come from a current session.
RowStep ==
  app # NoApp =>
    /\ app' # NoApp /\ app'.applicant = app.applicant /\ app'.opener = app.opener
    /\ app.status \in Terminal => app' = app
    /\ app'.markets # app.markets =>
         /\ \E s \in EditSessions : seen[s] = "current"
         /\ \A s \in EditSessions : seen'[s] # "current"

-----------------------------------------------------------------------------
(* Client applications: the steps *)

\* A row of the table is not the absent row.
LEMMA RowsAreThere == \A a \in ApplicationRows : a # NoApp /\ a.status # "NONE"
BY DEF ApplicationRows, NoApp, OpenStatuses, Terminal

\* VersionRaised leaves no session current.
LEMMA RaisedIsOld ==
  ASSUME VersionRaised
  PROVE  /\ seen' \in [EditSessions -> {"never", "older", "current"}]
         /\ \A s \in EditSessions : seen'[s] # "current"
BY DEF VersionRaised

\* Run takes the command's transition from the row it finds, and the row it
\* leaves is sound when the edit it is given only asks, answers or assigns.
LEMMA RunKeeps ==
  ASSUME ApplicationInv, app # NoApp, NEW cmd \in DOMAIN ApplicationTransitions \ Decisions,
         NEW asked \in BOOLEAN, NEW assigned \in BOOLEAN,
         Run(cmd, [app EXCEPT !.asked = asked, !.assigned = assigned]),
         cmd \in {"begin_validation", "begin_review"} => assigned,
         app.assigned => assigned,
         cmd = "request_information" => asked,
         cmd = "respond" => ~asked,
         cmd \notin {"request_information", "respond"} => asked = app.asked
  PROVE  ApplicationInv' /\ RowStep
<1> USE DEF ApplicationInv
<1>1. app \in ApplicationRows /\ SoundRow(app)
  BY DEF ApplicationTyped
<1>2. PICK t \in NextApplicationStatus(cmd, app.status) :
        app' = [[app EXCEPT !.asked = asked, !.assigned = assigned] EXCEPT !.status = t.to]
  BY Zenon DEF Run
<1>3. t = ApplicationTransitions[cmd] /\ app.status \in t.from
  BY <1>2 DEF NextApplicationStatus
<1>4. /\ t.to \in OpenStatuses \cup Terminal /\ app.status \notin Terminal
      /\ t.to \notin {"APPROVED", "REJECTED"}
  BY <1>3 DEF ApplicationTransitions, Decisions, OpenStatuses, Terminal, Withdrawable
<1>5. app' = [status |-> t.to, applicant |-> app.applicant, opener |-> app.opener,
              markets |-> app.markets, asked |-> asked, assigned |-> assigned,
              decision |-> app.decision]
  BY Zenon, <1>1, <1>2 DEF ApplicationRows
<1>6. app' \in ApplicationRows
  BY <1>1, <1>4, <1>5 DEF ApplicationRows
<1>7. SoundRow(app')
  <2>1. t.to \notin {"DRAFT", "WITHDRAWN"} => app.markets # {}
    BY Zenon, <1>5, <1>2 DEF Run, checkApplication
  <2>2. app.decision = Undecided
    BY <1>1, <1>4 DEF SoundRow, Terminal
  <2>3. t.to \notin {"DRAFT", "SUBMITTED", "WITHDRAWN", "CANCELLED"} => assigned
    BY <1>1, <1>3 DEF SoundRow, ApplicationTransitions, Decisions
  <2>4. /\ t.to \in {"DRAFT", "SUBMITTED", "VALIDATING", "UNDER_REVIEW"} => ~asked
        /\ t.to = "INFORMATION_REQUIRED" => asked
    BY <1>1, <1>3 DEF SoundRow, ApplicationTransitions, Decisions
  <2> QED BY <1>4, <1>5, <2>1, <2>2, <2>3, <2>4 DEF SoundRow
<1>8. ApplicationTyped'
  BY <1>6, RaisedIsOld DEF ApplicationTyped, Run
<1>9. RowStep
  BY <1>4, <1>5, <1>6, RowsAreThere DEF RowStep
<1> QED BY <1>7, <1>8, <1>9

\* Each command under the row lock is such a run.
LEMMA CommandsKeep ==
  ASSUME ApplicationInv,
         \/ Submit \/ Withdraw \/ Cancel \/ BeginValidation \/ RequestInformation \/ BeginReview
         \/ \E s \in EditSessions : Respond(s)
  PROVE  ApplicationInv' /\ RowStep
<1>1. app # NoApp
  BY DEF Submit, Withdraw, Cancel, BeginValidation, RequestInformation, BeginReview, Respond, BasedOn
<1>2. app \in ApplicationRows
  BY <1>1 DEF ApplicationInv, ApplicationTyped
<1>3. app.asked \in BOOLEAN /\ app.assigned \in BOOLEAN
  BY <1>2 DEF ApplicationRows
<1>4. /\ app = [app EXCEPT !.asked = app.asked, !.assigned = app.assigned]
      /\ [app EXCEPT !.assigned = TRUE] = [app EXCEPT !.asked = app.asked, !.assigned = TRUE]
      /\ [app EXCEPT !.asked = TRUE] = [app EXCEPT !.asked = TRUE, !.assigned = app.assigned]
      /\ [app EXCEPT !.asked = FALSE] = [app EXCEPT !.asked = FALSE, !.assigned = app.assigned]
  BY Zenon, <1>2 DEF ApplicationRows
<1>5. {"submit", "withdraw", "cancel", "begin_validation", "begin_review", "request_information", "respond"}
        \subseteq DOMAIN ApplicationTransitions \ Decisions
  BY DEF ApplicationTransitions, Decisions
<1>6. CASE Submit \/ Withdraw \/ Cancel
  <2>1. PICK cmd \in {"submit", "withdraw", "cancel"} :
          Run(cmd, [app EXCEPT !.asked = app.asked, !.assigned = app.assigned])
    BY <1>4, <1>6 DEF Submit, Withdraw, Cancel
  <2> QED BY Zenon, <1>1, <1>3, <1>5, <2>1, RunKeeps
<1>7. CASE BeginValidation \/ BeginReview
  <2>1. PICK cmd \in {"begin_validation", "begin_review"} :
          Run(cmd, [app EXCEPT !.asked = app.asked, !.assigned = TRUE])
    BY <1>4, <1>7 DEF BeginValidation, BeginReview
  <2> QED BY Zenon, <1>1, <1>3, <1>5, <2>1, RunKeeps
<1>8. CASE RequestInformation
  <2>1. Run("request_information", [app EXCEPT !.asked = TRUE, !.assigned = app.assigned])
    BY <1>4, <1>8 DEF RequestInformation
  <2> QED BY Zenon, <1>1, <1>3, <1>5, <2>1, RunKeeps
<1>9. CASE \E s \in EditSessions : Respond(s)
  <2>1. Run("respond", [app EXCEPT !.asked = FALSE, !.assigned = app.assigned])
    BY <1>4, <1>9 DEF Respond, AllAnswered
  <2> QED BY Zenon, <1>1, <1>3, <1>5, <2>1, RunKeeps
<1> QED BY <1>6, <1>7, <1>8, <1>9

\* An edit comes from a session that read the row's version.
LEMMA UpdateKeeps ==
  ASSUME ApplicationInv, NEW s \in EditSessions, NEW markets \in SUBSET AppCountries,
         Update(s, markets)
  PROVE  ApplicationInv' /\ RowStep
<1>1. app # NoApp /\ app \in ApplicationRows /\ SoundRow(app)
  BY DEF ApplicationInv, ApplicationTyped, Update, BasedOn
<1>2. app' = [status |-> app.status, applicant |-> app.applicant, opener |-> app.opener,
              markets |-> markets, asked |-> app.asked, assigned |-> app.assigned,
              decision |-> app.decision]
  BY <1>1 DEF Update, ApplicationRows
<1>3. app' \in ApplicationRows
  BY <1>1, <1>2 DEF ApplicationRows
<1>4. SoundRow(app')
  BY <1>1, <1>2 DEF SoundRow, Update, checkApplication
<1>5. ApplicationTyped'
  BY <1>3, RaisedIsOld DEF ApplicationInv, ApplicationTyped, Update
<1>6. RowStep
  <2>1. app.status \notin Terminal
    BY DEF Update, EditableByApplicant, Terminal
  <2>2. seen[s] = "current" /\ \A z \in EditSessions : seen'[z] # "current"
    BY RaisedIsOld DEF Update, BasedOn
  <2> QED BY <1>2, <1>3, <2>1, <2>2, RowsAreThere DEF RowStep
<1> QED BY <1>4, <1>5, <1>6 DEF ApplicationInv

\* A decision is recorded on the status and for the decider that hold under
\* the lock.
LEMMA DecideKeeps ==
  ASSUME ApplicationInv, NEW d \in Deciders, DecideRecord(d)
  PROVE  ApplicationInv' /\ RowStep
<1> DEFINE r == deciding[d]
<1>1. r \in DecisionRows /\ r.by = d /\ r # Undecided
  BY DEF ApplicationInv, ApplicationTyped, DecideRecord
<1>2. /\ deciding' \in [Deciders -> {Undecided} \cup DecisionRows]
      /\ \A e \in Deciders : deciding'[e] # Undecided => deciding'[e].by = e
  BY DEF ApplicationInv, ApplicationTyped, DecideRecord
<1>3. CASE UNCHANGED <<app, seen>>
  BY <1>2, <1>3 DEF ApplicationInv, ApplicationTyped, DecideRecord, RowStep
<1>4. CASE /\ app.status \in ApplicationTransitions[r.outcome].from /\ ~SelfDecision(d)
           /\ app' = insertAdmissionDecision([app EXCEPT !.status = ApplicationTransitions[r.outcome].to], r)
           /\ VersionRaised
  <2>1. r.outcome \in Decisions
    BY <1>1 DEF DecisionRows
  <2>2. app.status = "UNDER_REVIEW" /\ ApplicationTransitions[r.outcome].to \in {"APPROVED", "REJECTED"}
    BY <1>4, <2>1 DEF ApplicationTransitions, Decisions
  <2> DEFINE to == ApplicationTransitions[r.outcome].to
  <2> HIDE DEF r, to
  <2>3. app # NoApp
    BY <2>2 DEF NoApp
  <2>4. app \in ApplicationRows /\ SoundRow(app)
    BY <2>3 DEF ApplicationInv, ApplicationTyped
  <2>5. app' = [status |-> to, applicant |-> app.applicant, opener |-> app.opener,
                markets |-> app.markets, asked |-> app.asked, assigned |-> app.assigned,
                decision |-> r]
    BY Zenon, <1>4, <2>4 DEF insertAdmissionDecision, ApplicationRows, to
  <2>6. to \in {"APPROVED", "REJECTED"}
    BY <2>2 DEF to
  <2>7. app' \in ApplicationRows
    BY <1>1, <2>4, <2>5, <2>6 DEF ApplicationRows, Terminal
  <2>8. SoundRow(app')
    BY <1>1, <1>4, <2>2, <2>4, <2>5, <2>6 DEF SoundRow, SelfDecision
  <2>9. RowStep
    BY <2>2, <2>5, <2>7, RowsAreThere DEF RowStep, Terminal
  <2> QED BY <1>2, <1>4, <2>7, <2>8, <2>9, RaisedIsOld DEF ApplicationInv, ApplicationTyped, DecideRecord
<1> QED BY <1>3, <1>4 DEF DecideRecord

\* Every step keeps the invariant and treats the row as RowStep says.
LEMMA ApplicationStep ==
  ASSUME ApplicationInv, [ApplicationNext]_appVars
  PROVE  ApplicationInv' /\ RowStep
<1>1. ASSUME NEW c \in Creates, LookupByIdempotencyKey(c) PROVE ApplicationInv' /\ RowStep
  BY <1>1 DEF LookupByIdempotencyKey, ApplicationInv, ApplicationTyped, RowStep
<1>2. ASSUME NEW c \in Creates, InsertClientApplication(c) PROVE ApplicationInv' /\ RowStep
  <2>1. NewApplication(c) \in ApplicationRows /\ SoundRow(NewApplication(c))
    BY CreatesAssumption DEF NewApplication, ApplicationRows, SoundRow, Parties, OpenStatuses
  <2>2. app' = NewApplication(c) \/ (app' = app /\ app # NoApp)
    BY <1>2 DEF InsertClientApplication
  <2>3. app # NoApp => app' = app
    BY <1>2 DEF InsertClientApplication
  <2> QED BY <1>2, <2>1, <2>2, <2>3 DEF InsertClientApplication, ApplicationInv, ApplicationTyped, RowStep
<1>3. ASSUME NEW s \in EditSessions, GetForApplicant(s) PROVE ApplicationInv' /\ RowStep
  BY <1>3 DEF GetForApplicant, ApplicationInv, ApplicationTyped, RowStep
<1>4. ASSUME NEW d \in Deciders, NEW o \in Decisions, NEW m \in SUBSET AppCountries, DecideRead(d, o, m)
      PROVE  ApplicationInv' /\ RowStep
  <2>1. [by |-> d, outcome |-> o, scope |-> m] \in DecisionRows
    BY DEF DecisionRows
  <2> QED BY <1>4, <2>1 DEF DecideRead, ApplicationInv, ApplicationTyped, RowStep
<1>5. CASE UNCHANGED appVars
  BY <1>5 DEF appVars, ApplicationInv, ApplicationTyped, SoundRow, RowStep
<1> QED
  BY <1>1, <1>2, <1>3, <1>4, <1>5, CommandsKeep, UpdateKeeps, DecideKeeps
     DEF ApplicationNext, createRoutes, CreateOwn, CreateForStaff, CreateClientApplication,
         applicantCommand, staffCommand, decide

-----------------------------------------------------------------------------
(* Client applications: the theorems *)

\* Every state of an application is typed and its row sound: the inductive
\* invariant of creation, the commands under the lock and Decide.
THEOREM ApplicationInvariant == ApplicationSpec => []ApplicationInv
<1>1. ApplicationInit => ApplicationInv
  BY DEF ApplicationInit, ApplicationInv, ApplicationTyped
<1>2. ApplicationInv /\ [ApplicationNext]_appVars => ApplicationInv'
  BY ApplicationStep
<1> QED BY <1>1, <1>2, PTL DEF ApplicationSpec

\* An application goes through validation, review and decision with its
\* questions answered, and is decided by a principal who neither applied
\* nor opened it (Respond, RequestInformation, Decide).
THEOREM ApplicationsSound == ApplicationSpec => [](ApplicationTypeOK /\ QuestionsAnswered /\ DecidedByAnother)
<1>1. ApplicationInv => ApplicationTypeOK /\ QuestionsAnswered /\ DecidedByAnother
  <2> SUFFICES ASSUME ApplicationInv PROVE ApplicationTypeOK /\ QuestionsAnswered /\ DecidedByAnother
    OBVIOUS
  <2>1. app # NoApp => app \in ApplicationRows /\ SoundRow(app)
    BY DEF ApplicationInv, ApplicationTyped
  <2>2. app # NoApp => app.status \in OpenStatuses \cup Terminal /\ app.markets \subseteq AppCountries
    BY <2>1 DEF ApplicationRows
  <2> QED BY <2>1, <2>2 DEF SoundRow, ApplicationInv, ApplicationTyped, ApplicationTypeOK,
             QuestionsAnswered, DecidedByAnother
<1> QED BY <1>1, ApplicationInvariant, PTL

\* An applicant's edit never overwrites a change its session had not read
\* (Update and the version it names).
THEOREM NoEditIsLost == ApplicationSpec => EditsAreNotLost
<1>1. ApplicationInv /\ [ApplicationNext]_appVars =>
        [app # NoApp /\ app'.markets # app.markets =>
           /\ \E s \in EditSessions : seen[s] = "current"
           /\ \A s \in EditSessions : seen'[s] # "current"]_appVars
  BY ApplicationStep DEF RowStep
<1> QED BY <1>1, ApplicationInvariant, PTL DEF ApplicationSpec, EditsAreNotLost

\* A closed application never changes again, and no creation with its key
\* replaces it (run, CreateClientApplication).
THEOREM ClosedStaysClosed == ApplicationSpec => ClosedIsFinal
<1>1. ApplicationInv /\ [ApplicationNext]_appVars =>
        [/\ app # NoApp /\ app.status \in Terminal => app' = app
         /\ app # NoApp => app'.applicant = app.applicant /\ app'.opener = app.opener]_appVars
  BY ApplicationStep DEF RowStep
<1> QED BY <1>1, ApplicationInvariant, PTL DEF ApplicationSpec, ClosedIsFinal

\* Client applications keep everything the model checking asks of them.
THEOREM ApplicationsKeepPromises == ApplicationSpec => ApplicationPromises
BY ApplicationsSound, NoEditIsLost, ClosedStaysClosed, PTL DEF ApplicationPromises

-----------------------------------------------------------------------------
(* Progressive admission: the inductive invariant *)

DraftRows == [by : Roster.apply, status : {"DRAFT", "SUBMITTED"}, markets : SUBSET BridgeMarkets]
ReviewRows == [by : Roster.review, org : BridgeOrgs, internal : BOOLEAN, scope : SUBSET BridgeMarkets]
VerdictRows == [by : Roster.decide, approved : BOOLEAN]
RequestRows ==
  [by : Roster.request, status : {"REQUESTED", "AUTHORISED", "FULFILLED"},
   authoriser : Roster.authorise \cup {"none"}, registrar : Roster.register \cup {"none"}]

BridgeTyped ==
  /\ v2app \in {NoRow} \cup DraftRows
  /\ review \in {NoRow} \cup ReviewRows
  /\ verdict \in {NoRow} \cup VerdictRows
  /\ request \in {NoRow} \cup RequestRows
  /\ registering \subseteq Roster.register
  /\ belongs \in [BridgeOrgs -> {Unowned, "elsewhere"} \cup Roster.register]

\* Who took part in a stage took part in none before it; the stages follow
\* each other.
RolesInv ==
  /\ review # NoRow => /\ Submitted /\ review.by # v2app.by
                       /\ review.scope # {} /\ review.scope \subseteq v2app.markets
  /\ verdict # NoRow => review # NoRow /\ verdict.by \notin {v2app.by, review.by}
  /\ request # NoRow =>
       /\ verdict # NoRow /\ verdict.approved
       /\ request.by \notin {v2app.by, review.by, verdict.by}
       /\ request.status # "REQUESTED" => request.authoriser \notin Involved
       /\ request.status # "FULFILLED" => request.registrar = "none"
       /\ request.status = "FULFILLED" =>
            request.registrar \in Roster.register \ (Involved \cup {request.authoriser})

\* A registration that holds its locks was verified and still stands.
RegisteringInv ==
  \A who \in registering :
    /\ registering = {who}
    /\ request # NoRow /\ request.status = "AUTHORISED"
    /\ who \notin Involved \cup {request.authoriser}
    /\ belongs[review.org] = Unowned

BridgeInv == BridgeTyped /\ RolesInv /\ RegisteringInv

\* What a step does to the owner of an organisation that has one.
OwnersStand == \A o \in BridgeOrgs : belongs[o] # Unowned => belongs'[o] = belongs[o]

-----------------------------------------------------------------------------
(* Progressive admission: the steps *)

\* A row has somebody behind it.
LEMMA PartsAreThere ==
  /\ \A x \in DraftRows : x # NoRow
  /\ \A x \in ReviewRows : x # NoRow
  /\ \A x \in VerdictRows : x # NoRow
  /\ \A x \in RequestRows : x # NoRow
<1>1. "none" \notin Roster.apply \cup Roster.review \cup Roster.decide \cup Roster.request
  BY BridgeAssumption, RosterAssumption
<1> QED BY <1>1 DEF DraftRows, ReviewRows, VerdictRows, RequestRows, NoRow

\* The applicant's draft: nothing follows it before it is submitted.
LEMMA DraftSteps ==
  ASSUME BridgeInv, progressiveApplicationRoutes
  PROVE  BridgeInv' /\ OwnersStand
<1> USE DEF BridgeInv
<1>1. review = NoRow
  BY PartsAreThere DEF progressiveApplicationRoutes, CreateProgressiveApplication,
     ChangeProgressiveApplication, SubmitProgressiveApplication, Changeable, RolesInv, Submitted
<1>2. verdict = NoRow /\ request = NoRow /\ registering = {}
  BY <1>1 DEF RolesInv, RegisteringInv
<1>3. UNCHANGED <<review, verdict, request, registering, belongs>>
  BY DEF progressiveApplicationRoutes, CreateProgressiveApplication,
     ChangeProgressiveApplication, SubmitProgressiveApplication
<1>4. v2app' \in DraftRows
  <2>1. ASSUME NEW who \in Roster.apply, NEW m \in SUBSET BridgeMarkets, CreateProgressiveApplication(who, m)
        PROVE  v2app' \in DraftRows
    BY <2>1 DEF CreateProgressiveApplication, DraftRows
  <2>2. ASSUME Changeable PROVE v2app \in DraftRows
    BY <2>2 DEF Changeable, BridgeTyped
  <2>3. ASSUME NEW m \in SUBSET BridgeMarkets, ChangeProgressiveApplication(m)
        PROVE  v2app' \in DraftRows
    BY <2>2, <2>3 DEF ChangeProgressiveApplication, DraftRows
  <2>4. ASSUME SubmitProgressiveApplication
        PROVE  v2app' \in DraftRows
    BY <2>2, <2>4 DEF SubmitProgressiveApplication, DraftRows
  <2> QED BY <2>1, <2>3, <2>4 DEF progressiveApplicationRoutes
<1> QED BY <1>1, <1>2, <1>3, <1>4 DEF BridgeTyped, RolesInv, RegisteringInv, OwnersStand

\* Review, decision, request and authorisation each add one person.
LEMMA StageSteps ==
  ASSUME BridgeInv, progressiveBridgeRoutes
  PROVE  BridgeInv' /\ OwnersStand
<1> USE DEF BridgeInv
<1>1. ASSUME NEW who \in Roster.review, NEW o \in BridgeOrgs, NEW i \in BOOLEAN, NEW m \in SUBSET BridgeMarkets,
             ReviewProgressiveAdmission(who, o, i, m)
      PROVE  BridgeInv' /\ OwnersStand
  <2>1. review = NoRow /\ verdict = NoRow /\ request = NoRow /\ registering = {}
    BY <1>1 DEF ReviewProgressiveAdmission, RolesInv, RegisteringInv
  <2>2. review' \in ReviewRows /\ review'.by = who /\ review'.scope = m
    BY <1>1 DEF ReviewProgressiveAdmission, ReviewRows
  <2>3. UNCHANGED <<v2app, verdict, request, registering, belongs>>
    BY <1>1 DEF ReviewProgressiveAdmission
  <2>4. Submitted' /\ who # v2app.by /\ m # {} /\ m \subseteq v2app.markets
    BY <1>1 DEF ReviewProgressiveAdmission, bridgeMarketSubset, Submitted
  <2> QED BY <2>1, <2>2, <2>3, <2>4 DEF BridgeTyped, RolesInv, RegisteringInv, OwnersStand
<1>2. ASSUME NEW who \in Roster.decide, NEW a \in BOOLEAN, DecideProgressiveAdmission(who, a)
      PROVE  BridgeInv' /\ OwnersStand
  <2>1. verdict = NoRow /\ request = NoRow /\ registering = {} /\ review # NoRow
    BY <1>2 DEF DecideProgressiveAdmission, RolesInv, RegisteringInv
  <2>2. verdict' \in VerdictRows /\ verdict'.by = who
    BY <1>2 DEF DecideProgressiveAdmission, VerdictRows
  <2>3. UNCHANGED <<v2app, review, request, registering, belongs>> /\ who \notin {v2app.by, review.by}
    BY <1>2 DEF DecideProgressiveAdmission
  <2> QED BY <2>1, <2>2, <2>3 DEF BridgeTyped, RolesInv, RegisteringInv, OwnersStand, Submitted
<1>3. ASSUME NEW who \in Roster.request, RequestProgressiveOnboarding(who)
      PROVE  BridgeInv' /\ OwnersStand
  <2>1. request = NoRow /\ registering = {} /\ verdict # NoRow /\ verdict.approved
    BY <1>3 DEF RequestProgressiveOnboarding, Approved, RolesInv, RegisteringInv
  <2>2. /\ request' \in RequestRows
        /\ request'.by = who /\ request'.status = "REQUESTED" /\ request'.registrar = "none"
    BY <1>3 DEF RequestProgressiveOnboarding, RequestRows
  <2>3. UNCHANGED <<v2app, review, verdict, registering, belongs>> /\ who \notin {v2app.by, review.by, verdict.by}
    BY <1>3 DEF RequestProgressiveOnboarding
  <2> QED BY <2>1, <2>2, <2>3 DEF BridgeTyped, RolesInv, RegisteringInv, OwnersStand, Submitted
<1>4. ASSUME NEW who \in Roster.authorise, AuthoriseProgressiveOnboarding(who)
      PROVE  BridgeInv' /\ OwnersStand
  <2>1. request # NoRow /\ request.status = "REQUESTED" /\ who \notin Involved
    BY <1>4 DEF AuthoriseProgressiveOnboarding, MayAuthorise
  <2>2. request \in RequestRows /\ registering = {} /\ request.registrar = "none"
    BY <2>1 DEF BridgeTyped, RolesInv, RegisteringInv
  <2>3. /\ request' \in RequestRows /\ request'.by = request.by /\ request'.registrar = "none"
        /\ request'.status = "AUTHORISED" /\ request'.authoriser = who
    BY ZenonT(30), <1>4, <2>2 DEF AuthoriseProgressiveOnboarding, RequestRows
  <2>4. UNCHANGED <<v2app, review, verdict, registering, belongs>>
    BY <1>4 DEF AuthoriseProgressiveOnboarding
  <2>5. Involved' = Involved
    BY <2>3, <2>4 DEF Involved
  <2> QED BY <2>1, <2>2, <2>3, <2>4, <2>5 DEF BridgeTyped, RolesInv, RegisteringInv, OwnersStand, Submitted
<1> QED BY <1>1, <1>2, <1>3, <1>4 DEF progressiveBridgeRoutes

\* A registration verifies under its locks and writes what it verified.
LEMMA RegistrationSteps ==
  ASSUME BridgeInv, NEW who \in Roster.register,
         \/ verifyProgressiveRegistrationTx(who)
         \/ RegisterProgressiveTenantV2(who)
         \/ RegistrationFails(who)
  PROVE  BridgeInv' /\ OwnersStand
<1> USE DEF BridgeInv
<1>1. CASE verifyProgressiveRegistrationTx(who)
  <2>1. UNCHANGED <<v2app, review, verdict, request, belongs>> /\ registering' = {who}
    BY <1>1 DEF verifyProgressiveRegistrationTx
  <2>2. /\ request # NoRow /\ request.status = "AUTHORISED" /\ belongs[review.org] = Unowned
        /\ who \notin Involved \cup {request.authoriser}
    BY <1>1 DEF verifyProgressiveRegistrationTx, Authorised, UnownedStill
  <2>3. Involved' = Involved
    BY <2>1 DEF Involved
  <2> QED BY <2>1, <2>2, <2>3 DEF BridgeTyped, RolesInv, RegisteringInv, OwnersStand, Submitted
<1>2. CASE RegisterProgressiveTenantV2(who)
  <2>1. /\ request # NoRow /\ request.status = "AUTHORISED" /\ belongs[review.org] = Unowned
        /\ who \notin Involved \cup {request.authoriser}
    BY <1>2 DEF RegisterProgressiveTenantV2, RegisteringInv
  <2>2. request \in RequestRows /\ request.authoriser \notin Involved
    BY <2>1 DEF BridgeTyped, RolesInv
  <2>3. review \in ReviewRows /\ review.org \in BridgeOrgs
    BY <2>1 DEF BridgeTyped, RolesInv, ReviewRows
  <2>4. UNCHANGED <<v2app, review, verdict>> /\ registering' = {}
    BY <1>2 DEF RegisterProgressiveTenantV2
  <2>5. /\ request' \in RequestRows /\ request'.by = request.by /\ request'.registrar = who
        /\ request'.status = "FULFILLED" /\ request'.authoriser = request.authoriser
    BY Zenon, <1>2, <2>2 DEF RegisterProgressiveTenantV2, RequestRows
  <2>6. Involved' = Involved
    BY <2>4, <2>5 DEF Involved
  <2>7. belongs' \in [BridgeOrgs -> {Unowned, "elsewhere"} \cup Roster.register] /\ OwnersStand
    BY <1>2, <2>1, <2>3 DEF RegisterProgressiveTenantV2, BridgeTyped, OwnersStand
  <2> QED BY <2>1, <2>2, <2>4, <2>5, <2>6, <2>7 DEF BridgeTyped, RolesInv, RegisteringInv, Submitted
<1>3. CASE RegistrationFails(who)
  <2>1. UNCHANGED <<v2app, review, verdict, request, belongs>> /\ registering' = {}
    BY <1>3 DEF RegistrationFails
  <2>2. Involved' = Involved
    BY <2>1 DEF Involved
  <2> QED BY <2>1, <2>2 DEF BridgeTyped, RolesInv, RegisteringInv, OwnersStand, Submitted
<1> QED BY <1>1, <1>2, <1>3

\* Every step keeps the invariant, and every owner its organisation.
LEMMA BridgeStep ==
  ASSUME BridgeInv, [BridgeNext]_bridgeVars
  PROVE  BridgeInv' /\ OwnersStand
<1> USE DEF BridgeInv
<1>1. ASSUME NEW o \in BridgeOrgs, AttachedElsewhere(o) PROVE BridgeInv' /\ OwnersStand
  <2>1. UNCHANGED <<v2app, review, verdict, request, registering>> /\ belongs[o] = Unowned
    BY <1>1 DEF AttachedElsewhere, bridgeOrganisation
  <2>2. registering # {} => o # review.org
    BY <1>1 DEF AttachedElsewhere, Locked
  <2>3. Involved' = Involved
    BY <2>1 DEF Involved
  <2>4. /\ belongs' \in [BridgeOrgs -> {Unowned, "elsewhere"} \cup Roster.register] /\ OwnersStand
        /\ \A x \in BridgeOrgs : x # o => belongs'[x] = belongs[x]
    BY <1>1, <2>1 DEF AttachedElsewhere, BridgeTyped, OwnersStand
  <2>5. ASSUME registering # {} PROVE review.org \in BridgeOrgs
    BY <2>5 DEF RegisteringInv, RolesInv, BridgeTyped, ReviewRows
  <2> QED BY <2>1, <2>2, <2>3, <2>4, <2>5 DEF BridgeTyped, RolesInv, RegisteringInv, Submitted
<1>2. ASSUME UNCHANGED <<v2app, review, verdict, request, registering, belongs>> PROVE BridgeInv' /\ OwnersStand
  <2>1. Involved' = Involved
    BY <1>2 DEF Involved
  <2> QED BY <1>2, <2>1 DEF BridgeTyped, RolesInv, RegisteringInv, OwnersStand, Submitted
<1>3. ASSUME NEW o \in BridgeOrgs,
             ReplacePrimaryTenantOrganisation(o) \/ SponsorshipGranted(o) \/ SponsorshipEnded(o)
      PROVE  BridgeInv' /\ OwnersStand
  BY <1>2, <1>3 DEF ReplacePrimaryTenantOrganisation, SponsorshipGranted, SponsorshipEnded
<1>4. CASE UNCHANGED bridgeVars
  BY <1>2, <1>4 DEF bridgeVars
<1> QED BY <1>1, <1>3, <1>4, DraftSteps, StageSteps, RegistrationSteps DEF BridgeNext, registerProgressiveV2

\* Whose tenant an organisation may be while the request is not fulfilled, or
\* when it is not the one the request names.
NotTheTenants == {Unowned, "elsewhere"}

Fulfilled == request # NoRow /\ request.status = "FULFILLED"

\* The organisation named by a fulfilled request, and no other, is the tenant's.
TenantInv ==
  /\ ~Fulfilled => \A o \in BridgeOrgs : belongs[o] \in NotTheTenants
  /\ Fulfilled => /\ belongs[review.org] = request.registrar
                  /\ \A o \in BridgeOrgs : o # review.org => belongs[o] \in NotTheTenants

\* Every step keeps it.
LEMMA TenantStep ==
  ASSUME BridgeInv, TenantInv, [BridgeNext]_bridgeVars
  PROVE  TenantInv'
<1>1. {"none", "elsewhere"} \cap Roster.register = {}
  BY BridgeAssumption, RosterAssumption
<1>2. Fulfilled => review # NoRow /\ review \in ReviewRows /\ review.org \in BridgeOrgs
  BY DEF Fulfilled, BridgeInv, RolesInv, BridgeTyped, ReviewRows
<1>3. Fulfilled => request.registrar \in Roster.register
  BY DEF Fulfilled, BridgeInv, RolesInv
<1>4. ASSUME UNCHANGED belongs, Fulfilled' = Fulfilled,
             Fulfilled => UNCHANGED <<review, request>>
      PROVE  TenantInv'
  BY <1>4 DEF TenantInv
<1>5. ASSUME UNCHANGED <<belongs, review, request>> PROVE TenantInv'
  BY <1>5 DEF TenantInv, Fulfilled
<1>6. CASE progressiveApplicationRoutes
  BY <1>5, <1>6 DEF progressiveApplicationRoutes, CreateProgressiveApplication,
     ChangeProgressiveApplication, SubmitProgressiveApplication
<1>7. CASE progressiveBridgeRoutes
  <2>1. ASSUME NEW who \in Roster.review, NEW o \in BridgeOrgs, NEW i \in BOOLEAN, NEW m \in SUBSET BridgeMarkets,
               ReviewProgressiveAdmission(who, o, i, m)
        PROVE  TenantInv'
    <3>1. UNCHANGED <<belongs, request>> /\ ~Fulfilled
      BY <1>2, <2>1 DEF ReviewProgressiveAdmission
    <3> QED BY <1>4, <3>1 DEF Fulfilled
  <2>2. ASSUME NEW who \in Roster.decide, NEW a \in BOOLEAN, DecideProgressiveAdmission(who, a)
        PROVE  TenantInv'
    BY <1>5, <2>2 DEF DecideProgressiveAdmission
  <2>3. ASSUME NEW who \in Roster.request, RequestProgressiveOnboarding(who)
        PROVE  TenantInv'
    <3>1. request = NoRow /\ UNCHANGED belongs /\ request'.status = "REQUESTED"
      BY <2>3 DEF RequestProgressiveOnboarding
    <3> QED BY <1>4, <3>1 DEF Fulfilled
  <2>4. ASSUME NEW who \in Roster.authorise, AuthoriseProgressiveOnboarding(who)
        PROVE  TenantInv'
    <3>1. request \in RequestRows /\ request.status = "REQUESTED" /\ UNCHANGED belongs
      BY <2>4 DEF AuthoriseProgressiveOnboarding, BridgeInv, BridgeTyped
    <3>2. request'.status = "AUTHORISED"
      BY <2>4, <3>1 DEF AuthoriseProgressiveOnboarding, RequestRows
    <3> QED BY <1>4, <3>1, <3>2 DEF Fulfilled
  <2> QED BY <1>7, <2>1, <2>2, <2>3, <2>4 DEF progressiveBridgeRoutes
<1>8. ASSUME NEW who \in Roster.register, RegisterProgressiveTenantV2(who)
      PROVE  TenantInv'
  <2>1. request # NoRow /\ request.status = "AUTHORISED"
    BY <1>8 DEF RegisterProgressiveTenantV2, BridgeInv, RegisteringInv
  <2>2. request \in RequestRows /\ review \in ReviewRows /\ review.org \in BridgeOrgs
    BY <2>1 DEF BridgeInv, BridgeTyped, RolesInv, ReviewRows
  <2>3. /\ request' \in RequestRows /\ request'.status = "FULFILLED"
        /\ request'.registrar = who /\ UNCHANGED review
    BY Zenon, <1>8, <2>2 DEF RegisterProgressiveTenantV2, RequestRows
  <2>4. /\ belongs'[review.org] = who
        /\ \A o \in BridgeOrgs : o # review.org => belongs'[o] = belongs[o]
    BY <1>8, <2>2 DEF RegisterProgressiveTenantV2, BridgeInv, BridgeTyped
  <2>5. \A o \in BridgeOrgs : belongs[o] \in NotTheTenants
    BY <2>1 DEF TenantInv, Fulfilled
  <2>6. request' # NoRow
    BY <2>3, PartsAreThere
  <2> QED BY <2>3, <2>4, <2>5, <2>6 DEF TenantInv, Fulfilled
<1>9. ASSUME NEW who \in Roster.register, verifyProgressiveRegistrationTx(who) \/ RegistrationFails(who)
      PROVE  TenantInv'
  BY <1>5, <1>9 DEF verifyProgressiveRegistrationTx, RegistrationFails
<1>10. ASSUME NEW o \in BridgeOrgs, AttachedElsewhere(o) PROVE TenantInv'
  <2>1. UNCHANGED <<review, request>> /\ belongs[o] = Unowned
    BY <1>10 DEF AttachedElsewhere, bridgeOrganisation
  <2>2. /\ belongs'[o] = "elsewhere"
        /\ \A x \in BridgeOrgs : x # o => belongs'[x] = belongs[x]
    BY <1>10 DEF AttachedElsewhere, BridgeInv, BridgeTyped
  <2>3. Fulfilled => o # review.org
    BY <1>1, <1>3, <2>1 DEF TenantInv, Unowned
  <2> QED BY <1>2, <2>1, <2>2, <2>3 DEF TenantInv, Fulfilled, NotTheTenants
<1>11. ASSUME NEW o \in BridgeOrgs,
              ReplacePrimaryTenantOrganisation(o) \/ SponsorshipGranted(o) \/ SponsorshipEnded(o)
       PROVE  TenantInv'
  BY <1>5, <1>11 DEF ReplacePrimaryTenantOrganisation, SponsorshipGranted, SponsorshipEnded
<1>12. CASE UNCHANGED bridgeVars
  BY <1>5, <1>12 DEF bridgeVars
<1> QED BY <1>6, <1>7, <1>8, <1>9, <1>10, <1>11, <1>12 DEF BridgeNext, registerProgressiveV2

-----------------------------------------------------------------------------
(* Progressive admission: the theorems *)

\* The stages of the bridge keep who took part and what a registration has
\* verified: the inductive invariant of its commands.
THEOREM BridgeInvariant == BridgeSpec => []BridgeInv
<1>1. BridgeInit => BridgeInv
  BY DEF BridgeInit, BridgeInv, BridgeTyped, RolesInv, RegisteringInv
<1>2. BridgeInv /\ [BridgeNext]_bridgeVars => BridgeInv'
  BY BridgeStep
<1> QED BY <1>1, <1>2, PTL DEF BridgeSpec

\* Each stage follows the one before it, from submission to registration, and
\* the organisation of a fulfilled request, and no other, is the tenant's.
THEOREM StagesFollow == BridgeSpec => []BridgeTypeOK
<1>1. BridgeInit => TenantInv
  BY DEF BridgeInit, TenantInv, Fulfilled, NotTheTenants
<1>2. BridgeInv /\ TenantInv /\ [BridgeNext]_bridgeVars => TenantInv'
  BY TenantStep
<1>3. ASSUME BridgeInv, TenantInv PROVE BridgeTypeOK
  <2>1. {"none", "elsewhere"} \cap Roster.register = {}
    BY BridgeAssumption, RosterAssumption
  <2>2. Fulfilled => request.registrar \in Roster.register
    BY <1>3 DEF Fulfilled, BridgeInv, RolesInv
  <2>3. ASSUME NEW o \in BridgeOrgs
        PROVE  belongs[o] \notin {Unowned, "elsewhere"} <=>
                 Fulfilled /\ o = review.org /\ belongs[o] = request.registrar
    BY <1>3, <2>1, <2>2 DEF TenantInv, NotTheTenants, Unowned
  <2>4. BridgeInv /\ "none" \notin Roster.register
    BY <1>3, <2>1
  <2> QED BY <2>3, <2>4 DEF BridgeInv, RolesInv, RegisteringInv, BridgeTypeOK, Fulfilled
<1> QED BY <1>1, <1>2, <1>3, BridgeInvariant, PTL DEF BridgeSpec

\* Applicant, reviewer, decider, requester, authoriser and registrar of a
\* fulfilled request are six people.
THEOREM SixHandsAlways == BridgeSpec => []SixHands
<1>1. ASSUME BridgeInv PROVE SixHands
  <2> DEFINE hands == <<v2app.by, review.by, verdict.by, request.by, request.authoriser, request.registrar>>
  <2> SUFFICES ASSUME request # NoRow, request.status = "FULFILLED",
                      NEW i \in 1..6, NEW j \in 1..6, j < i
               PROVE  hands[i] # hands[j]
    BY DEF SixHands
  <2>1. verdict # NoRow /\ review # NoRow
    BY <1>1 DEF BridgeInv, RolesInv
  <2>2. review.by \notin {v2app.by} /\ verdict.by \notin {v2app.by, review.by}
    BY <1>1, <2>1 DEF BridgeInv, RolesInv
  <2>3. /\ request.by \notin {v2app.by, review.by, verdict.by}
        /\ request.authoriser \notin {v2app.by, review.by, verdict.by, request.by}
        /\ request.registrar \notin {v2app.by, review.by, verdict.by, request.by, request.authoriser}
    BY <1>1 DEF BridgeInv, RolesInv, Involved
  <2> QED BY <2>2, <2>3
<1> QED BY <1>1, BridgeInvariant, PTL

\* The scope a review grants lies within what the submitted application
\* asks for, from then on.
THEOREM ScopeStaysWithin == BridgeSpec => []ScopeWithinApplication
<1>1. BridgeInv => ScopeWithinApplication
  BY DEF BridgeInv, RolesInv, ScopeWithinApplication
<1> QED BY <1>1, BridgeInvariant, PTL

\* A registration never takes an organisation from another tenant
\* (verifyProgressiveRegistrationTx and its locks).
THEOREM OrganisationsTakenOnce == BridgeSpec => OrganisationTakenOnce
<1>1. BridgeInv /\ [BridgeNext]_bridgeVars =>
        [\A o \in BridgeOrgs : belongs[o] # Unowned => belongs'[o] = belongs[o]]_bridgeVars
  BY BridgeStep DEF OwnersStand
<1> QED BY <1>1, BridgeInvariant, PTL DEF BridgeSpec, OrganisationTakenOnce

\* Progressive admission keeps everything the model checking asks of it.
THEOREM BridgeKeepsPromises == BridgeSpec => BridgePromises
BY StagesFollow, SixHandsAlways, ScopeStaysWithin, OrganisationsTakenOnce, PTL DEF BridgePromises

-----------------------------------------------------------------------------
(* Documentary reviews: the inductive invariant *)

Reviewers == ReviewRoster.propose \cup ReviewRoster.decide \cup ReviewRoster.appeal \cup ReviewRoster.judge
ReleaseMakers == ReviewRoster.release
ReleaseCheckers == ReviewRoster.approve
Revisions ==
  [maker : Reviewers, unresolved : SUBSET Requirements, checker : Reviewers \cup {Noone},
   restricted : SUBSET Requirements, appellant : Reviewers \cup {Noone}, judge : Reviewers \cup {Noone},
   outcome : {"none", "UPHOLD", "RETURN_FOR_REASSESSMENT"}]
Intents ==
  [restriction : Nat \X Requirements, result : Nat, maker : ReleaseMakers,
   outcome : {"none", "APPROVE", "REJECT"}, checker : ReleaseCheckers \cup {Noone}]

ReviewsTyped ==
  /\ reviews \in Seq(Revisions)
  /\ evidence \in [Requirements -> [result : Nat, fresh : BOOLEAN]]
  /\ releases \subseteq Intents
  /\ approving \subseteq [intent : Intents, actor : ReleaseCheckers]

\* A revision is decided, then appealed, then judged, each by another.
SoundRevision(r) ==
  /\ r.restricted \subseteq r.unresolved
  /\ r.checker = Noone => r.restricted = {} /\ r.appellant = Noone
  /\ r.checker # r.maker
  /\ r.judge # Noone => r.appellant # Noone /\ r.judge \notin {r.appellant, r.checker, r.maker}
  /\ Returned(r) => r.judge # Noone

RevisionsInv ==
  \A n \in 1..Len(reviews) :
    /\ SoundRevision(reviews[n])
    /\ n < Len(reviews) => Returned(reviews[n])

\* An intent releases a restriction that exists, on a result that existed,
\* and comes from somebody who had no part in the review.
SoundIntent(x) ==
  /\ x.restriction \in Restrictions
  /\ x.result <= evidence[x.restriction[2]].result
  /\ Uninvolved(x.maker, reviews[x.restriction[1]], x.restriction[2])

ReleasesInv ==
  /\ \A x \in releases :
       /\ SoundIntent(x)
       /\ x.outcome = "APPROVE" => Uninvolved(x.checker, reviews[x.restriction[1]], x.restriction[2]) /\ x.checker # x.maker
  /\ \A a \in approving :
       /\ SoundIntent(a.intent)
       /\ Uninvolved(a.actor, reviews[a.intent.restriction[1]], a.intent.restriction[2]) /\ a.actor # a.intent.maker
  /\ ReleasedOncePerResult

ReviewsInv == ReviewsTyped /\ RevisionsInv /\ ReleasesInv

\* What a step leaves of the past: restrictions stand with the people behind
\* them, and results are counted up.
PastKept ==
  /\ Restrictions \subseteq Restrictions'
  /\ \A x \in Restrictions : /\ reviews'[x[1]].maker = reviews[x[1]].maker
                             /\ reviews'[x[1]].checker = reviews[x[1]].checker
  /\ \A q \in Requirements : evidence[q].result <= evidence'[q].result

-----------------------------------------------------------------------------
(* Documentary reviews: the steps *)

\* A sound intent stays sound, and who was not involved stays so.
LEMMA IntentsStaySound ==
  ASSUME ReviewsTyped, evidence' \in [Requirements -> [result : Nat, fresh : BOOLEAN]], PastKept,
         NEW x \in Intents, SoundIntent(x)
  PROVE  /\ SoundIntent(x)'
         /\ \A who : Uninvolved(who, reviews[x.restriction[1]], x.restriction[2]) => Uninvolved(who, reviews'[x.restriction[1]], x.restriction[2])
<1>1. x.restriction \in Restrictions /\ x.restriction \in Restrictions'
  BY DEF SoundIntent, PastKept
<1>2. /\ reviews'[x.restriction[1]].maker = reviews[x.restriction[1]].maker
      /\ reviews'[x.restriction[1]].checker = reviews[x.restriction[1]].checker
  BY <1>1 DEF PastKept
<1>3. \A who : Uninvolved(who, reviews[x.restriction[1]], x.restriction[2]) => Uninvolved(who, reviews'[x.restriction[1]], x.restriction[2])
  BY <1>2 DEF Uninvolved
<1>4. x.restriction[2] \in Requirements /\ x.result \in Nat
  BY DEF Intents
<1>5. x.result <= evidence'[x.restriction[2]].result
  <2> DEFINE q == x.restriction[2]
  <2>1. x.result <= evidence[q].result /\ evidence[q].result <= evidence'[q].result
    BY <1>4 DEF SoundIntent, PastKept
  <2>2. evidence[q].result \in Nat /\ evidence'[q].result \in Nat
    BY <1>4 DEF ReviewsTyped
  <2> QED BY <1>4, <2>1, <2>2
<1> QED BY <1>1, <1>3, <1>5 DEF SoundIntent

\* Releases and approvals that stay what they were stay sound.
LEMMA ReleasesKept ==
  ASSUME ReviewsInv, evidence' \in [Requirements -> [result : Nat, fresh : BOOLEAN]], PastKept,
         releases' = releases, approving' = approving
  PROVE  ReleasesInv'
<1>1. ASSUME NEW x \in releases
      PROVE  /\ SoundIntent(x)'
             /\ x.outcome = "APPROVE" => Uninvolved(x.checker, reviews'[x.restriction[1]], x.restriction[2]) /\ x.checker # x.maker
  BY Zenon, IntentsStaySound DEF ReviewsInv, ReviewsTyped, ReleasesInv
<1>2. ASSUME NEW a \in approving
      PROVE  /\ SoundIntent(a.intent)'
             /\ Uninvolved(a.actor, reviews'[a.intent.restriction[1]], a.intent.restriction[2]) /\ a.actor # a.intent.maker
  <2>1. a.intent \in Intents
    BY DEF ReviewsInv, ReviewsTyped
  <2>2. approving' = approving
    OBVIOUS
  <2>3. SoundIntent(a.intent) /\ Uninvolved(a.actor, reviews[a.intent.restriction[1]], a.intent.restriction[2]) /\ a.actor # a.intent.maker
    BY DEF ReviewsInv, ReleasesInv
  <2> DEFINE x == a.intent
  <2>4. SoundIntent(x) /\ x \in Intents
    BY <2>1, <2>3
  <2> HIDE DEF x
  <2>5. /\ SoundIntent(x)'
        /\ \A who : Uninvolved(who, reviews[x.restriction[1]], x.restriction[2]) => Uninvolved(who, reviews'[x.restriction[1]], x.restriction[2])
    BY <2>4, IntentsStaySound DEF ReviewsInv
  <2> QED BY <2>3, <2>5 DEF x
<1> QED BY <1>1, <1>2 DEF ReviewsInv, ReleasesInv, ReleasedOncePerResult

\* A revision amended without taking anything back.
LEMMA AmendedRevision ==
  ASSUME ReviewsInv, NEW n \in 1..Len(reviews), NEW row \in Revisions,
         reviews' \in Seq(Revisions), Len(reviews') = Len(reviews), reviews'[n] = row,
         \A m \in 1..Len(reviews) : m # n => reviews'[m] = reviews[m],
         UNCHANGED <<evidence, releases, approving>>,
         SoundRevision(row), row.maker = reviews[n].maker,
         reviews[n].checker # Noone => row.checker = reviews[n].checker /\ row.restricted = reviews[n].restricted,
         Returned(reviews[n]) => Returned(row)
  PROVE  ReviewsInv' /\ PastKept
<1>i. ReviewsTyped /\ RevisionsInv /\ ReleasesInv
  BY DEF ReviewsInv
<1>1. ReviewsTyped'
  BY <1>i DEF ReviewsTyped
<1>2. RevisionsInv'
  BY <1>i DEF RevisionsInv
<1>3. ASSUME NEW x \in Restrictions
      PROVE  /\ x \in Restrictions' /\ reviews'[x[1]].maker = reviews[x[1]].maker
             /\ reviews'[x[1]].checker = reviews[x[1]].checker
  <2>1. x \in (1..Len(reviews)) \X Requirements /\ x[2] \in reviews[x[1]].restricted
    BY DEF Restrictions
  <2>2. CASE x[1] = n
    <3>1. reviews[n].checker # Noone
      BY <1>i, <2>1, <2>2 DEF RevisionsInv, SoundRevision
    <3> QED BY <2>1, <2>2, <3>1 DEF Restrictions
  <2>3. CASE x[1] # n
    <3>1. reviews'[x[1]] = reviews[x[1]]
      BY <2>1, <2>3
    <3> QED BY <2>1, <3>1 DEF Restrictions
  <2> QED BY <2>2, <2>3
<1>4. \A q \in Requirements : evidence[q].result <= evidence'[q].result
  BY <1>i DEF ReviewsTyped
<1>5. PastKept
  BY <1>3, <1>4 DEF PastKept
<1> QED BY <1>i, <1>1, <1>2, <1>5, ReleasesKept DEF ReviewsInv, ReviewsTyped

\* A review proposed, decided, appealed or judged.
LEMMA ReviewSteps ==
  ASSUME ReviewsInv, ReviewPropose \/ ReviewDecide \/ ReviewAppeal \/ ReviewAppealDecision
  PROVE  ReviewsInv' /\ PastKept
<1>i. ReviewsTyped /\ RevisionsInv /\ ReleasesInv
  BY DEF ReviewsInv
<1>0. /\ Noone \notin Reviewers
      /\ ReviewRoster.propose \subseteq Reviewers /\ ReviewRoster.decide \subseteq Reviewers
      /\ ReviewRoster.appeal \subseteq Reviewers /\ ReviewRoster.judge \subseteq Reviewers
  BY RosterOfReviews DEF Reviewers
<1>1. ASSUME NEW actor \in ReviewRoster.propose, NEW u \in SUBSET Requirements, ProposeDocumentaryReview(actor, u)
      PROVE  ReviewsInv' /\ PastKept
  <2> DEFINE row == NewReview(actor, u)
             n == Len(reviews)
  <2>1. row \in Revisions /\ SoundRevision(row)
    BY <1>0 DEF NewReview, Revisions, SoundRevision, Returned
  <2>2. reviews' = Append(reviews, row) /\ UNCHANGED <<evidence, releases, approving>>
    BY <1>1 DEF ProposeDocumentaryReview
  <2> HIDE DEF row
  <2>3. /\ reviews' \in Seq(Revisions) /\ Len(reviews') = n + 1 /\ reviews'[n + 1] = row
        /\ \A m \in 1..n : reviews'[m] = reviews[m]
    BY <1>i, <2>1, <2>2 DEF ReviewsTyped
  <2>4. n \in Nat /\ (n # 0 => Returned(reviews[n]))
    BY <1>i, <1>1 DEF ReviewsTyped, ProposeDocumentaryReview, Reopened
  <2> HIDE DEF n
  <2>5. ReviewsTyped'
    BY <1>i, <2>2, <2>3 DEF ReviewsTyped
  <2>6. RevisionsInv'
    <3> SUFFICES ASSUME NEW m \in 1..(n + 1)
                 PROVE  SoundRevision(reviews'[m]) /\ (m < n + 1 => Returned(reviews'[m]))
      BY <1>i, <2>3 DEF RevisionsInv
    <3>1. CASE m = n + 1
      BY <2>1, <2>3, <2>4, <3>1
    <3>2. CASE m # n + 1
      <4>1. m \in 1..n /\ reviews'[m] = reviews[m]
        BY <2>3, <2>4, <3>2
      <4> QED BY <1>i, <2>4, <4>1 DEF RevisionsInv, n
    <3> QED BY <3>1, <3>2
  <2>7. PastKept
    <3>1. ASSUME NEW x \in Restrictions
          PROVE  /\ x \in Restrictions' /\ reviews'[x[1]] = reviews[x[1]]
      <4>1. x \in (1..n) \X Requirements /\ x[2] \in reviews[x[1]].restricted
        BY DEF Restrictions, n
      <4>2. x[1] \in 1..(n + 1) /\ reviews'[x[1]] = reviews[x[1]]
        BY <2>3, <2>4, <4>1
      <4> QED BY <2>3, <4>1, <4>2 DEF Restrictions
    <3>2. \A q \in Requirements : evidence[q].result <= evidence'[q].result
      BY <1>i, <2>2 DEF ReviewsTyped
    <3> QED BY <3>1, <3>2 DEF PastKept
  <2> QED BY <1>i, <2>2, <2>5, <2>6, <2>7, ReleasesKept DEF ReviewsInv, ReviewsTyped
<1>2. ASSUME NEW actor \in ReviewRoster.decide, NEW n \in 1..MaxRevisions, NEW q \in SUBSET Requirements,
             DecideDocumentaryReview(actor, n, q)
      PROVE  ReviewsInv' /\ PastKept
  <2> DEFINE half == [reviews[n] EXCEPT !.checker = actor]
             row == [half EXCEPT !.restricted = q]
             mid == [reviews EXCEPT ![n].checker = actor]
  <2>1. n \in 1..Len(reviews) /\ reviews[n] \in Revisions /\ SoundRevision(reviews[n])
    BY <1>i, <1>2 DEF DecideDocumentaryReview, ReviewsTyped, RevisionsInv
  <2>2. row = [maker |-> reviews[n].maker, unresolved |-> reviews[n].unresolved, checker |-> actor,
               restricted |-> q, appellant |-> reviews[n].appellant, judge |-> reviews[n].judge,
               outcome |-> reviews[n].outcome]
    <3>1. half = [maker |-> reviews[n].maker, unresolved |-> reviews[n].unresolved, checker |-> actor,
                  restricted |-> reviews[n].restricted, appellant |-> reviews[n].appellant,
                  judge |-> reviews[n].judge, outcome |-> reviews[n].outcome]
      BY <2>1 DEF Revisions
    <3> HIDE DEF half
    <3> QED BY <3>1
  <2>3. row \in Revisions
    BY <1>0, <2>1, <2>2 DEF Revisions
  <2>4. reviews[n].checker = Noone /\ actor # reviews[n].maker /\ q \subseteq reviews[n].unresolved
    BY <1>2 DEF DecideDocumentaryReview, Restrictable
  <2>5. SoundRevision(row) /\ row.maker = reviews[n].maker /\ (Returned(reviews[n]) => Returned(row))
    BY <1>0, <2>1, <2>2, <2>4 DEF SoundRevision, Returned
  <2>6. /\ reviews' \in Seq(Revisions) /\ Len(reviews') = Len(reviews) /\ reviews'[n] = row
        /\ \A m \in 1..Len(reviews) : m # n => reviews'[m] = reviews[m]
    <3>1. half \in Revisions
      BY <1>0, <2>1 DEF Revisions
    <3>2. /\ mid \in Seq(Revisions) /\ Len(mid) = Len(reviews) /\ mid[n] = half
          /\ \A m \in 1..Len(reviews) : m # n => mid[m] = reviews[m]
      BY <1>i, <2>1, <3>1 DEF ReviewsTyped
    <3>3. reviews' = [mid EXCEPT ![n].restricted = q]
      BY <1>2 DEF DecideDocumentaryReview
    <3> HIDE DEF mid, half
    <3> QED BY <2>1, <2>3, <3>2, <3>3
  <2> HIDE DEF row
  <2> QED BY Zenon, <1>2, <2>1, <2>3, <2>4, <2>5, <2>6, AmendedRevision DEF DecideDocumentaryReview
<1>3. ASSUME NEW actor \in ReviewRoster.appeal, NEW n \in 1..MaxRevisions, FileDocumentaryReviewAppeal(actor, n)
      PROVE  ReviewsInv' /\ PastKept
  <2> DEFINE row == [reviews[n] EXCEPT !.appellant = actor]
  <2>1. n \in 1..Len(reviews) /\ reviews[n] \in Revisions /\ SoundRevision(reviews[n])
    BY <1>i, <1>3 DEF FileDocumentaryReviewAppeal, ReviewsTyped, RevisionsInv
  <2>2. row = [maker |-> reviews[n].maker, unresolved |-> reviews[n].unresolved, checker |-> reviews[n].checker,
               restricted |-> reviews[n].restricted, appellant |-> actor, judge |-> reviews[n].judge,
               outcome |-> reviews[n].outcome]
    BY <2>1 DEF Revisions
  <2>3. row \in Revisions
    BY <1>0, <2>1, <2>2 DEF Revisions
  <2>4. reviews[n].checker # Noone /\ reviews[n].appellant = Noone
    BY <1>3 DEF FileDocumentaryReviewAppeal
  <2>5. /\ SoundRevision(row) /\ row.maker = reviews[n].maker /\ (Returned(reviews[n]) => Returned(row))
        /\ row.checker = reviews[n].checker /\ row.restricted = reviews[n].restricted
    BY <1>0, <2>1, <2>2, <2>4 DEF SoundRevision, Returned
  <2>6. /\ reviews' \in Seq(Revisions) /\ Len(reviews') = Len(reviews) /\ reviews'[n] = row
        /\ \A m \in 1..Len(reviews) : m # n => reviews'[m] = reviews[m]
    BY <1>i, <1>3, <2>1, <2>3 DEF FileDocumentaryReviewAppeal, ReviewsTyped
  <2> HIDE DEF row
  <2> QED BY <1>3, <2>1, <2>3, <2>5, <2>6, AmendedRevision DEF FileDocumentaryReviewAppeal
<1>4. ASSUME NEW actor \in ReviewRoster.judge, NEW n \in 1..MaxRevisions,
             NEW o \in {"UPHOLD", "RETURN_FOR_REASSESSMENT"}, DecideDocumentaryReviewAppeal(actor, n, o)
      PROVE  ReviewsInv' /\ PastKept
  <2> DEFINE half == [reviews[n] EXCEPT !.judge = actor]
             row == [half EXCEPT !.outcome = o]
             mid == [reviews EXCEPT ![n].judge = actor]
  <2>1. n \in 1..Len(reviews) /\ reviews[n] \in Revisions /\ SoundRevision(reviews[n])
    BY <1>i, <1>4 DEF DecideDocumentaryReviewAppeal, ReviewsTyped, RevisionsInv
  <2>2. row = [maker |-> reviews[n].maker, unresolved |-> reviews[n].unresolved, checker |-> reviews[n].checker,
               restricted |-> reviews[n].restricted, appellant |-> reviews[n].appellant, judge |-> actor,
               outcome |-> o]
    <3>1. half = [maker |-> reviews[n].maker, unresolved |-> reviews[n].unresolved,
                  checker |-> reviews[n].checker, restricted |-> reviews[n].restricted,
                  appellant |-> reviews[n].appellant, judge |-> actor, outcome |-> reviews[n].outcome]
      BY <2>1 DEF Revisions
    <3> HIDE DEF half
    <3> QED BY <3>1
  <2>3. row \in Revisions
    BY <1>0, <2>1, <2>2 DEF Revisions
  <2>4. /\ reviews[n].appellant # Noone /\ reviews[n].judge = Noone
        /\ actor \notin {reviews[n].appellant, reviews[n].checker, reviews[n].maker}
    BY <1>4 DEF DecideDocumentaryReviewAppeal, AppealOutsider
  <2>5. /\ SoundRevision(row) /\ row.maker = reviews[n].maker /\ ~Returned(reviews[n])
        /\ row.checker = reviews[n].checker /\ row.restricted = reviews[n].restricted
    BY <1>0, <2>1, <2>2, <2>4 DEF SoundRevision, Returned
  <2>6. /\ reviews' \in Seq(Revisions) /\ Len(reviews') = Len(reviews) /\ reviews'[n] = row
        /\ \A m \in 1..Len(reviews) : m # n => reviews'[m] = reviews[m]
    <3>1. half \in Revisions
      BY <1>0, <2>1 DEF Revisions
    <3>2. /\ mid \in Seq(Revisions) /\ Len(mid) = Len(reviews) /\ mid[n] = half
          /\ \A m \in 1..Len(reviews) : m # n => mid[m] = reviews[m]
      BY <1>i, <2>1, <3>1 DEF ReviewsTyped
    <3>3. reviews' = [mid EXCEPT ![n].outcome = o]
      BY <1>4 DEF DecideDocumentaryReviewAppeal
    <3> HIDE DEF mid, half
    <3> QED BY <2>1, <2>3, <3>2, <3>3
  <2> HIDE DEF row
  <2> QED BY Zenon, <1>4, <2>1, <2>3, <2>5, <2>6, AmendedRevision DEF DecideDocumentaryReviewAppeal
<1> QED BY <1>1, <1>2, <1>3, <1>4 DEF ReviewPropose, ReviewDecide, ReviewAppeal, ReviewAppealDecision

\* A decision changes an intent's outcome and checker only.
LEMMA DecidedIntent ==
  ASSUME NEW x \in Intents, NEW o \in {"APPROVE", "REJECT"}, NEW who \in ReleaseCheckers
  PROVE  LET y == [x EXCEPT !.outcome = o, !.checker = who]
         IN /\ y \in Intents /\ y.outcome = o /\ y.checker = who
            /\ y.restriction = x.restriction /\ y.result = x.result /\ y.maker = x.maker
<1> DEFINE half == [x EXCEPT !.outcome = o]
           y == [half EXCEPT !.checker = who]
<1>1. half = [restriction |-> x.restriction, result |-> x.result, maker |-> x.maker,
              outcome |-> o, checker |-> x.checker]
  BY DEF Intents
<1> HIDE DEF half
<1>2. y = [restriction |-> x.restriction, result |-> x.result, maker |-> x.maker,
           outcome |-> o, checker |-> who]
  BY <1>1
<1>3. y \in Intents
  BY <1>2 DEF Intents
<1>4. /\ y.outcome = o /\ y.checker = who
      /\ y.restriction = x.restriction /\ y.result = x.result /\ y.maker = x.maker
  BY <1>2
<1> QED BY <1>3, <1>4 DEF half

\* With the reviews and the evidence as they were, so is what is sound.
LEMMA SameReviews ==
  ASSUME ReviewsInv, UNCHANGED <<reviews, evidence>>
  PROVE  /\ PastKept /\ RevisionsInv' /\ Restrictions' = Restrictions
         /\ \A x : SoundIntent(x)' <=> SoundIntent(x)
<1>1. PastKept
  <2>1. evidence \in [Requirements -> [result : Nat, fresh : BOOLEAN]]
    BY DEF ReviewsInv, ReviewsTyped
  <2>2. Restrictions' = Restrictions
    BY DEF Restrictions
  <2> QED BY <2>1, <2>2 DEF PastKept
<1>2. RevisionsInv'
  <2>1. RevisionsInv
    BY DEF ReviewsInv
  <2> QED BY <2>1 DEF RevisionsInv
<1>3. Restrictions' = Restrictions
  BY DEF Restrictions
<1>4. \A x : SoundIntent(x)' <=> SoundIntent(x)
  BY <1>3 DEF SoundIntent
<1> QED BY <1>1, <1>2, <1>3, <1>4

\* A release proposed, rejected, verified or approved.
LEMMA ReleaseSteps ==
  ASSUME ReviewsInv, ReleasePropose \/ ReleaseDecide \/ \E a \in approving : ApproveDocumentaryRelease(a)
  PROVE  ReviewsInv' /\ PastKept /\ UNCHANGED evidence
<1>i. ReviewsTyped /\ RevisionsInv /\ ReleasesInv
  BY DEF ReviewsInv
<1>0. UNCHANGED <<reviews, evidence>>
  BY Zenon DEF ReleasePropose, ReleaseDecide, ProposeDocumentaryRelease, VerifyDocumentaryRelease,
     RejectDocumentaryRelease, ApproveDocumentaryRelease
<1>1. ASSUME NEW actor \in ReviewRoster.release, NEW r \in Restrictions, ProposeDocumentaryRelease(actor, r)
      PROVE  ReviewsInv'
  <2> DEFINE x == [restriction |-> r, result |-> evidence[r[2]].result, maker |-> actor,
                   outcome |-> "none", checker |-> Noone]
  <2>1. releases' = releases \cup {x} /\ approving' = approving
    BY <1>1 DEF ProposeDocumentaryRelease
  <2>2. r \in Nat \X Requirements /\ evidence[r[2]].result \in Nat
    BY <1>i DEF Restrictions, ReviewsTyped
  <2>3. x \in Intents
    BY <2>2 DEF Intents, ReleaseMakers
  <2>4. SoundIntent(x)
    <3>1. x.restriction = r /\ x.result = evidence[r[2]].result /\ x.maker = actor
      OBVIOUS
    <3>2. Uninvolved(actor, reviews[r[1]], r[2])
      BY <1>1 DEF ProposeDocumentaryRelease, documentaryReleaseVerified
    <3>3. evidence[r[2]].result <= evidence[r[2]].result
      BY <2>2
    <3> HIDE DEF x
    <3> QED BY <3>1, <3>2, <3>3 DEF SoundIntent
  <2>5. x.outcome = "none"
    OBVIOUS
  <2> HIDE DEF x
  <2>6. ReviewsTyped'
    BY <1>i, <1>0, <2>1, <2>3 DEF ReviewsTyped
  <2>7. ReleasesInv'
    BY <1>i, <1>0, <2>1, <2>4, <2>5, SameReviews DEF ReleasesInv, ReleasedOncePerResult
  <2> QED BY <1>0, <2>6, <2>7, SameReviews DEF ReviewsInv
<1>2. ASSUME NEW actor \in ReviewRoster.approve, NEW x \in releases, RejectDocumentaryRelease(actor, x)
      PROVE  ReviewsInv'
  <2> DEFINE y == [x EXCEPT !.outcome = "REJECT", !.checker = actor]
  <2>1. releases' = (releases \ {x}) \cup {y} /\ approving' = approving
    BY <1>2 DEF RejectDocumentaryRelease
  <2>2. x \in Intents /\ SoundIntent(x)
    BY <1>i DEF ReviewsTyped, ReleasesInv
  <2>3. /\ y \in Intents /\ y.outcome = "REJECT"
        /\ y.restriction = x.restriction /\ y.result = x.result /\ y.maker = x.maker
    BY ZenonT(30), <2>2, DecidedIntent DEF ReleaseCheckers
  <2> HIDE DEF y
  <2>4. SoundIntent(y)
    BY <2>2, <2>3 DEF SoundIntent
  <2>5. ReviewsTyped'
    BY <1>i, <1>0, <2>1, <2>3 DEF ReviewsTyped
  <2>6. ReleasesInv'
    BY <1>i, <1>0, <2>1, <2>3, <2>4, SameReviews DEF ReleasesInv, ReleasedOncePerResult
  <2> QED BY <1>0, <2>5, <2>6, SameReviews DEF ReviewsInv
<1>3. ASSUME NEW actor \in ReviewRoster.approve, NEW x \in releases, VerifyDocumentaryRelease(actor, x)
      PROVE  ReviewsInv'
  <2> DEFINE a == [intent |-> x, actor |-> actor]
  <2>1. releases' = releases /\ approving' = approving \cup {a}
    BY <1>3 DEF VerifyDocumentaryRelease
  <2>2. x \in Intents /\ SoundIntent(x)
    BY <1>i DEF ReviewsTyped, ReleasesInv
  <2>3. a \in [intent : Intents, actor : ReleaseCheckers] /\ a.intent = x /\ a.actor = actor
    BY <2>2 DEF ReleaseCheckers
  <2>4. actor # x.maker /\ Uninvolved(actor, reviews[x.restriction[1]], x.restriction[2])
    BY <1>3 DEF VerifyDocumentaryRelease, documentaryReleaseVerified
  <2> HIDE DEF a
  <2>5. ReviewsTyped'
    BY <1>i, <1>0, <2>1, <2>3 DEF ReviewsTyped
  <2>6. ReleasesInv'
    BY <1>i, <1>0, <2>1, <2>2, <2>3, <2>4, SameReviews DEF ReleasesInv, ReleasedOncePerResult
  <2> QED BY <1>0, <2>5, <2>6, SameReviews DEF ReviewsInv
<1>4. ASSUME NEW a \in approving, ApproveDocumentaryRelease(a) PROVE ReviewsInv'
  <2>1. approving' \subseteq approving
    BY <1>4 DEF ApproveDocumentaryRelease
  <2>2. CASE releases' = releases
    <3>1. ReviewsTyped'
      BY <1>i, <1>0, <2>1, <2>2 DEF ReviewsTyped
    <3>2. ReleasesInv'
      BY <1>i, <1>0, <2>1, <2>2, SameReviews DEF ReleasesInv, ReleasedOncePerResult
    <3> QED BY <1>0, <3>1, <3>2, SameReviews DEF ReviewsInv
  <2>3. CASE releases' # releases
    <3> DEFINE x == a.intent
               y == [x EXCEPT !.outcome = "APPROVE", !.checker = a.actor]
    <3>1. StillHeld(x) /\ releases' = (releases \ {x}) \cup {y}
      BY ZenonT(30), <1>4, <2>3 DEF ApproveDocumentaryRelease
    <3>2. /\ x \in Intents /\ SoundIntent(x) /\ a.actor \in ReleaseCheckers
          /\ Uninvolved(a.actor, reviews[x.restriction[1]], x.restriction[2]) /\ a.actor # x.maker
      BY <1>i DEF ReviewsTyped, ReleasesInv
    <3> HIDE DEF x
    <3>3. /\ y \in Intents /\ y.outcome = "APPROVE" /\ y.checker = a.actor
          /\ y.restriction = x.restriction /\ y.result = x.result /\ y.maker = x.maker
      BY ZenonT(30), <3>2, DecidedIntent
    <3> HIDE DEF y
    <3>4. SoundIntent(y)
      BY <3>2, <3>3 DEF SoundIntent
    <3>5. ReviewsTyped'
      BY <1>i, <1>0, <2>1, <3>1, <3>3 DEF ReviewsTyped
    <3>6. ReleasedOncePerResult'
      BY <1>i, <3>1, <3>3 DEF StillHeld, ReleasesInv, ReleasedOncePerResult
    <3>7. ReleasesInv'
      BY <1>i, <1>0, <2>1, <3>1, <3>2, <3>3, <3>4, <3>6, SameReviews DEF ReleasesInv
    <3> QED BY <1>0, <3>5, <3>7, SameReviews DEF ReviewsInv
  <2> QED BY <2>2, <2>3
<1> QED BY <1>0, <1>1, <1>2, <1>3, <1>4, SameReviews DEF ReleasePropose, ReleaseDecide

\* What a step does to the evidence of a requirement: nothing, a further
\* result, or a lapse.
EvidenceStep ==
  \A q \in Requirements :
    evidence'[q] = evidence[q] \/ evidence'[q].result > evidence[q].result \/ ~evidence'[q].fresh

\* Every step keeps the invariant and the past.
LEMMA ReviewsStep ==
  ASSUME ReviewsInv, [ReviewsNext]_reviewVars
  PROVE  ReviewsInv' /\ PastKept /\ EvidenceStep
<1>1. ASSUME NEW q \in Requirements, ResultRecorded(q) \/ ResultLapses(q)
      PROVE  ReviewsInv' /\ PastKept /\ EvidenceStep
  <2>1. UNCHANGED <<reviews, releases, approving>>
    BY <1>1 DEF ResultRecorded, ResultLapses
  <2>2. evidence' \in [Requirements -> [result : Nat, fresh : BOOLEAN]]
    <3>1. evidence \in [Requirements -> [result : Nat, fresh : BOOLEAN]] /\ evidence[q].result + 1 \in Nat
      BY DEF ReviewsInv, ReviewsTyped
    <3>2. CASE ResultRecorded(q)
      BY <3>1, <3>2 DEF ResultRecorded
    <3>3. CASE ResultLapses(q)
      BY Zenon, <3>1, <3>3 DEF ResultLapses
    <3> QED BY <1>1, <3>2, <3>3
  <2>3. \A p \in Requirements : evidence[p].result <= evidence'[p].result
    BY <1>1 DEF ResultRecorded, ResultLapses, ReviewsInv, ReviewsTyped
  <2>4. EvidenceStep
    BY <1>1 DEF ResultRecorded, ResultLapses, ReviewsInv, ReviewsTyped, EvidenceStep
  <2>5. PastKept
    BY <2>1, <2>3 DEF PastKept, Restrictions
  <2>6. ReviewsTyped' /\ RevisionsInv'
    BY <2>1, <2>2 DEF ReviewsInv, ReviewsTyped, RevisionsInv
  <2> QED BY <2>1, <2>2, <2>4, <2>5, <2>6, ReleasesKept DEF ReviewsInv
<1>2. CASE ReviewPropose \/ ReviewDecide \/ ReviewAppeal \/ ReviewAppealDecision
  <2>1. UNCHANGED evidence
    BY ZenonT(30), <1>2 DEF ReviewPropose, ReviewDecide, ReviewAppeal, ReviewAppealDecision, ProposeDocumentaryReview,
       DecideDocumentaryReview, FileDocumentaryReviewAppeal, DecideDocumentaryReviewAppeal
  <2> QED BY <1>2, <2>1, ReviewSteps DEF EvidenceStep
<1>3. CASE ReleasePropose \/ ReleaseDecide \/ \E a \in approving : ApproveDocumentaryRelease(a)
  BY <1>3, ReleaseSteps DEF EvidenceStep
<1>4. CASE UNCHANGED reviewVars
  <2>1. ReleasesInv' /\ ReviewsTyped'
    BY <1>4, SameReviews DEF reviewVars, ReviewsInv, ReviewsTyped, ReleasesInv, ReleasedOncePerResult
  <2> QED BY <1>4, <2>1, SameReviews DEF reviewVars, ReviewsInv, EvidenceStep
<1> QED BY <1>1, <1>2, <1>3, <1>4 DEF ReviewsNext

\* A blocked scope opens only by a new approval.
LEMMA OpensByApproval ==
  ASSUME ReviewsInv, PastKept, EvidenceStep, NEW q \in Requirements,
         DocumentaryScopeBlocked(q), ~DocumentaryScopeBlocked(q)'
  PROVE  \E x \in releases' : x \notin releases /\ x.outcome = "APPROVE" /\ x.restriction[2] = q
<1>1. PICK r \in Restrictions : ~Lifted(r) /\ r[2] = q
  BY DEF DocumentaryScopeBlocked, ActiveRestrictions
<1>2. Lifted(r)'
  BY <1>1 DEF PastKept, DocumentaryScopeBlocked, ActiveRestrictions
<1>3. PICK x \in releases' :
        x.restriction = r /\ x.outcome = "APPROVE" /\ evidence'[q] = [result |-> x.result, fresh |-> TRUE]
  BY Zenon, <1>1, <1>2 DEF Lifted, Holds
<1>4. ASSUME x \in releases PROVE FALSE
  <2>1. evidence[q] # [result |-> x.result, fresh |-> TRUE]
    BY Zenon, <1>1, <1>3, <1>4 DEF Lifted, Holds
  <2>2. x.result \in Nat /\ evidence[q].result \in Nat /\ x.result <= evidence[q].result
    BY <1>1, <1>3, <1>4 DEF ReviewsInv, ReviewsTyped, ReleasesInv, SoundIntent, Intents
  <2>3. evidence'[q].result = x.result /\ evidence'[q].fresh
    BY <1>3
  <2>4. evidence'[q].result > evidence[q].result
    BY <1>3, <2>1, <2>3 DEF EvidenceStep
  <2> QED BY <2>2, <2>3, <2>4
<1> QED BY <1>1, <1>3, <1>4

-----------------------------------------------------------------------------
(* Documentary reviews: the theorems *)

\* The revisions, the releases and the approvals in progress are sound: the
\* inductive invariant of reviews and of the release of restrictions.
THEOREM ReviewsInvariant == ReviewsSpec => []ReviewsInv
<1>1. ReviewsInit => ReviewsInv
  BY DEF ReviewsInit, ReviewsInv, ReviewsTyped, RevisionsInv, ReleasesInv, ReleasedOncePerResult
<1>2. ReviewsInv /\ [ReviewsNext]_reviewVars => ReviewsInv'
  BY ReviewsStep
<1> QED BY <1>1, <1>2, PTL DEF ReviewsSpec

\* The revisions of a checkpoint form one chain, each but the last returned
\* by a judge who took no part in it.
THEOREM OneRevisionOpen == ReviewsSpec => []OneOpenRevision
<1>1. ASSUME ReviewsInv PROVE OneOpenRevision
  <2> SUFFICES ASSUME NEW n \in 1..Len(reviews)
               PROVE  /\ n < Len(reviews) => Returned(reviews[n])
                      /\ reviews[n].judge # Noone =>
                           /\ reviews[n].maker # reviews[n].checker
                           /\ reviews[n].judge \notin {reviews[n].maker, reviews[n].checker}
                           /\ reviews[n].judge # reviews[n].appellant
    BY DEF OneOpenRevision
  <2>1. SoundRevision(reviews[n]) /\ (n < Len(reviews) => Returned(reviews[n]))
    BY <1>1 DEF ReviewsInv, RevisionsInv
  <2> QED BY <2>1 DEF SoundRevision
<1> QED BY <1>1, ReviewsInvariant, PTL

\* A requirement is held back where it was found unresolved, and released by
\* two people without a part in the review, the policies or the evidence.
THEOREM ReleasedByOthers == ReviewsSpec => []HeldAndReleasedByOthers
<1>1. ReviewsInv => HeldAndReleasedByOthers
  BY DEF ReviewsInv, RevisionsInv, ReleasesInv, SoundRevision, SoundIntent, Uninvolved, HeldAndReleasedByOthers
<1> QED BY <1>1, ReviewsInvariant, PTL

\* Each result releases a restriction once, however approvals interleave,
\* and a restricted scope is open only on live evidence.
THEOREM ReleasesRestOnEvidence == ReviewsSpec => [](OpenOnLiveEvidence /\ ReleasedOncePerResult)
<1>1. ReviewsInv => ReleasedOncePerResult
  BY DEF ReviewsInv, ReleasesInv
<1>2. ReviewsInv => OpenOnLiveEvidence
  <2> SUFFICES ASSUME NEW x \in Restrictions, ~DocumentaryScopeBlocked(x[2]) PROVE evidence[x[2]].fresh
    BY DEF OpenOnLiveEvidence
  <2>1. Lifted(x)
    BY DEF DocumentaryScopeBlocked, ActiveRestrictions
  <2> QED BY <2>1 DEF Lifted, Holds
<1> QED BY <1>1, <1>2, ReviewsInvariant, PTL

\* A blocked scope opens only by the approval of a release, never by an
\* appeal, a new review or new evidence alone.
THEOREM OnlyReleasesReopen == ReviewsSpec => OnlyReleasesOpen
<1>1. ReviewsInv /\ [ReviewsNext]_reviewVars =>
        [\A q \in Requirements :
           DocumentaryScopeBlocked(q) /\ ~DocumentaryScopeBlocked(q)' =>
             \E x \in releases' : x \notin releases /\ x.outcome = "APPROVE" /\ x.restriction[2] = q]_reviewVars
  BY ReviewsStep, OpensByApproval
<1> QED BY <1>1, ReviewsInvariant, PTL DEF ReviewsSpec, OnlyReleasesOpen

\* Documentary reviews keep everything the model checking asks of them.
THEOREM ReviewsKeepPromises == ReviewsSpec => ReviewPromises
BY OneRevisionOpen, ReleasedByOthers, ReleasesRestOnEvidence, OnlyReleasesReopen, PTL DEF ReviewPromises

-----------------------------------------------------------------------------
(* Subscription classification: the inductive invariant *)

TypesAsked == {ClsCalls[c].type : c \in DOMAIN ClsCalls}
RefsAsked == {ClsCalls[c].ref : c \in DOMAIN ClsCalls}
ClassificationRows ==
  [type : TypesAsked, prev : TypesAsked \cup {"NONE"}, source : {"ADMISSION_DECISION", "RECLASSIFICATION"},
   ref : RefsAsked, at : Nat, committed : Nat]

ClassificationTyped ==
  /\ history \in Seq(ClassificationRows)
  /\ classifying \in [DOMAIN ClsCalls -> [step : {"idle", "decide"}, at : Nat]]
  /\ ceasing \in [ClsFacts -> Nat]
  /\ asking \in [step : {"none", "row", "mapping", "basis"}, at : Nat, ref : RefsAsked \cup {"none"}]
  /\ toldEngine \in [eligible : BOOLEAN, ref : RefsAsked \cup {"none"}, at : Nat, expires : Nat]
  /\ clsDay \in 1..(LastClsDay + 1)
  /\ asking.at <= clsDay /\ toldEngine.at <= clsDay

\* Some record was INTERNAL on the reference until the time or later.
BackedAt(ref, at) ==
  \E i \in DOMAIN history : history[i].type = "INTERNAL" /\ history[i].ref = ref /\ Replaced(i) >= at

NotCeasedBefore(f, at) == Lasting(f) \/ ceasing[f] >= at

\* What the reads of an answer in progress have found stays true of the
\* time the answer is given for.
AskingInv ==
  /\ asking.step \in {"mapping", "basis"} => BackedAt(asking.ref, asking.at)
  /\ asking.step = "basis" => NotCeasedBefore("primary", asking.at)

ToldInv ==
  toldEngine.eligible =>
    /\ BackedAt(toldEngine.ref, toldEngine.at)
    /\ \A f \in {"primary", "eligible"} : NotCeasedBefore(f, toldEngine.at)

ClassificationInv == ClassificationTyped /\ RecordsFormAChain /\ AskingInv /\ ToldInv

-----------------------------------------------------------------------------
(* Subscription classification: the steps *)

\* What was backed, or had not ceased, at a time that has come stays so when
\* a record is appended or a fact ceases.
LEMMA AppendKeepsBacking ==
  ASSUME ClassificationTyped, NEW row \in ClassificationRows, row.committed = clsDay,
         history' = Append(history, row),
         NEW ref, NEW at \in Nat, at <= clsDay, BackedAt(ref, at)
  PROVE  BackedAt(ref, at)'
<1> DEFINE n == Len(history)
<1>1. n \in Nat /\ DOMAIN history = 1..n
  BY DEF ClassificationTyped
<1>2. /\ Len(history') = n + 1 /\ DOMAIN history' = 1..(n + 1) /\ history'[n + 1] = row
      /\ \A i \in 1..n : history'[i] = history[i]
  BY DEF ClassificationTyped
<1> HIDE DEF n
<1>3. PICK i \in 1..n : history[i].type = "INTERNAL" /\ history[i].ref = ref /\ Replaced(i) >= at
  BY <1>1 DEF BackedAt
<1>4. i \in 1..(n + 1) /\ i # n + 1 /\ history'[i] = history[i]
  BY <1>1, <1>2
<1>5. Replaced(i)' = history'[i + 1].committed
  BY <1>1, <1>2, <1>4 DEF Replaced
<1>6. history'[i + 1].committed >= at
  <2>1. CASE i = n
    BY <1>2, <2>1
  <2>2. CASE i # n
    <3>1. i + 1 \in 1..n
      BY <1>1, <1>3, <2>2
    <3>2. Replaced(i) = history[i + 1].committed
      BY <2>2 DEF Replaced, n
    <3> QED BY Zenon, <1>2, <1>3, <3>1, <3>2
  <2> QED BY Zenon, <2>1, <2>2
<1> QED BY <1>2, <1>3, <1>4, <1>5, <1>6 DEF BackedAt

\* A step that writes no record leaves the records alone.
LEMMA SameRecords ==
  ASSUME ClassificationInv, history' = history
  PROVE  RecordsFormAChain' /\ \A ref, at : BackedAt(ref, at)' <=> BackedAt(ref, at)
BY DEF ClassificationInv, RecordsFormAChain, BackedAt, Replaced

\* A command appends at most one record, to the end of the chain.
LEMMA ClassifyKeeps ==
  ASSUME ClassificationInv, NEW c \in DOMAIN ClsCalls, ClassifySubscription(c),
         ClsCalls[c].kind \in {"ADMISSION_DECISION", "RECLASSIFICATION"}
  PROVE  ClassificationInv'
<1> USE DEF ClassificationInv
<1> DEFINE n == Len(history)
<1>1. classifying' \in [DOMAIN ClsCalls -> [step : {"idle", "decide"}, at : Nat]]
  BY DEF ClassificationTyped, ClassifySubscription, ClsGoes, NotRunning
<1>2. UNCHANGED <<ceasing, asking, toldEngine, clsDay>>
  BY DEF ClassifySubscription
<1>3. CASE history' = history
  BY <1>1, <1>2, <1>3, SameRecords
     DEF ClassificationTyped, AskingInv, ToldInv, NotCeasedBefore, Lasting
<1>4. CASE Appends(c) /\ history' = Append(history, Record(c))
  <2>1. n \in Nat /\ DOMAIN history = 1..n /\ (Classified <=> n # 0)
    <3>1. history \in Seq(ClassificationRows)
      BY DEF ClassificationTyped
    <3> QED BY <3>1 DEF Classified
  <2>2. Classified => Current \in ClassificationRows
    <3>1. \A i \in 1..n : history[i] \in ClassificationRows
      BY <2>1 DEF ClassificationTyped
    <3>2. Classified => n \in 1..n
      BY <2>1
    <3> QED BY <3>1, <3>2 DEF Current
  <2>3. Previous \in TypesAsked \cup {"NONE"}
    BY <2>2 DEF Previous, ClassificationRows
  <2>4. Record(c) \in ClassificationRows /\ Record(c).committed = clsDay
    <3>1. ClsCalls[c].type \in TypesAsked /\ ClsCalls[c].ref \in RefsAsked
      BY DEF TypesAsked, RefsAsked
    <3>2. classifying[c].at \in Nat
      BY DEF ClassificationTyped
    <3>3. clsDay \in Nat
      BY ClassificationAssumption DEF ClassificationTyped
    <3> QED BY <2>3, <3>1, <3>2, <3>3 DEF Record, ClassificationRows
  <2>5. /\ Record(c).source = ClsCalls[c].kind /\ Record(c).prev = Previous /\ Record(c).type = ClsCalls[c].type
    BY DEF Record
  <2> DEFINE row == Record(c)
  <2> HIDE DEF row
  <2>6. /\ history' \in Seq(ClassificationRows) /\ DOMAIN history' = 1..(n + 1) /\ history'[n + 1] = row
        /\ \A i \in 1..n : history'[i] = history[i]
    <3>1. history \in Seq(ClassificationRows) /\ row \in ClassificationRows
      BY <2>4 DEF ClassificationTyped, row
    <3>2. history' = Append(history, row)
      BY <1>4 DEF row
    <3> QED BY <3>1, <3>2
  <2>7. ClassificationTyped'
    BY <1>1, <1>2, <2>6 DEF ClassificationTyped
  <2>8. RecordsFormAChain'
    <3> SUFFICES ASSUME NEW i \in 1..(n + 1)
                 PROVE  IF i = 1 THEN history'[i].source = "ADMISSION_DECISION" /\ history'[i].prev = "NONE"
                        ELSE /\ history'[i].source = "RECLASSIFICATION"
                             /\ history'[i].prev = history'[i - 1].type
                             /\ history'[i].type # history'[i].prev
      BY <2>6 DEF RecordsFormAChain
    <3>1. CASE i \in 1..n
      <4>1. history'[i] = history[i] /\ (i # 1 => history'[i - 1] = history[i - 1])
        BY <2>1, <2>6, <3>1
      <4> QED BY <2>1, <3>1, <4>1 DEF RecordsFormAChain
    <3>2. CASE i = n + 1 /\ n = 0
      BY <1>4, <2>1, <2>5, <2>6, <3>2 DEF row, Appends, Previous
    <3>3. CASE i = n + 1 /\ n # 0
      <4>1. Classified /\ Current = history[n] /\ history'[n] = history[n]
        BY <2>1, <2>6, <3>3 DEF Current
      <4>2. ClsCalls[c].kind = "RECLASSIFICATION" /\ Current.type # ClsCalls[c].type
        BY <1>4, <4>1 DEF Appends
      <4>3. row.source = "RECLASSIFICATION" /\ row.prev = history[n].type /\ row.type # history[n].type
        BY <2>5, <4>1, <4>2 DEF row, Previous
      <4>4. i # 1 /\ i - 1 = n /\ history'[i] = row
        BY <2>1, <2>6, <3>3
      <4> QED BY <4>1, <4>3, <4>4
    <3>4. i \in 1..n \/ i = n + 1
      BY <2>1
    <3> QED BY <3>1, <3>2, <3>3, <3>4
  <2>9. \A ref : \A at \in Nat : at <= clsDay /\ BackedAt(ref, at) => BackedAt(ref, at)'
    BY <1>4, <2>4, AppendKeepsBacking
  <2>10. asking.at \in Nat /\ toldEngine.at \in Nat /\ asking.at <= clsDay /\ toldEngine.at <= clsDay
    BY DEF ClassificationTyped
  <2>11. AskingInv'
    BY <1>2, <2>9, <2>10 DEF AskingInv, NotCeasedBefore, Lasting
  <2>12. ToldInv'
    BY <1>2, <2>9, <2>10 DEF ToldInv, NotCeasedBefore, Lasting
  <2> QED BY <2>7, <2>8, <2>11, <2>12
<1> QED BY <1>3, <1>4 DEF ClassifySubscription

\* Answering: each read adds what it found.
LEMMA AnswersKeep ==
  ASSUME ClassificationInv, AskCurrentAuthority \/ CurrentInternalAuthority
  PROVE  ClassificationInv'
<1> USE DEF ClassificationInv
<1>1. UNCHANGED <<history, classifying, ceasing, clsDay>>
  BY DEF AskCurrentAuthority, CurrentInternalAuthority, StillHolds, Answered
<1>2. CASE AskCurrentAuthority
  <2>0. PICK ref \in RefsAsked : asking' = [step |-> "row", at |-> clsDay, ref |-> ref]
    BY <1>2, Zenon DEF AskCurrentAuthority, RefsAsked
  <2>1. toldEngine' = toldEngine /\ asking'.step = "row" /\ asking'.at = clsDay
    BY Zenon, <1>2, <2>0 DEF AskCurrentAuthority
  <2>2. asking' \in [step : {"none", "row", "mapping", "basis"}, at : Nat, ref : RefsAsked \cup {"none"}]
    <3>1. clsDay \in Nat
      BY ClassificationAssumption DEF ClassificationTyped
    <3> QED BY <2>0, <3>1
  <2> QED BY <1>1, <2>1, <2>2, SameRecords
          DEF ClassificationTyped, AskingInv, ToldInv, NotCeasedBefore, Lasting
<1>3. ASSUME NEW holds \in BOOLEAN, Answered(holds), asking.step \in {"row", "mapping", "basis"},
             holds => asking.step = "basis" /\ InForceOn("eligible", asking.at)
      PROVE  ClassificationInv'
  <2>1. asking' = NotAsked
    BY <1>3 DEF Answered
  <2>2. /\ toldEngine'.eligible = holds /\ toldEngine'.ref = asking.ref /\ toldEngine'.at = asking.at
        /\ toldEngine' \in [eligible : BOOLEAN, ref : RefsAsked \cup {"none"}, at : Nat, expires : Nat]
    BY <1>3, ClassificationAssumption DEF Answered, ClassificationTyped
  <2>3. ClassificationTyped'
    BY <1>1, <2>1, <2>2 DEF ClassificationTyped, NotAsked
  <2>4. AskingInv'
    BY <2>1 DEF AskingInv, NotAsked
  <2>5. ToldInv'
    <3>1. ASSUME holds PROVE NotCeasedBefore("eligible", asking.at)
      BY <1>3, <3>1 DEF InForceOn, NotCeasedBefore, ClassificationTyped, ClsFacts
    <3>2. ASSUME holds PROVE BackedAt(asking.ref, asking.at) /\ NotCeasedBefore("primary", asking.at)
      BY <1>3, <3>2 DEF AskingInv
    <3> QED BY <1>1, <2>2, <3>1, <3>2, SameRecords DEF ToldInv, NotCeasedBefore, Lasting
  <2> QED BY <1>1, <2>3, <2>4, <2>5, SameRecords
<1>4. ASSUME NEW from \in {"row", "mapping"}, NEW to \in {"mapping", "basis"}, AsksGo(from, to),
             toldEngine' = toldEngine,
             BackedAt(asking.ref, asking.at),
             to = "basis" => NotCeasedBefore("primary", asking.at)
      PROVE  ClassificationInv'
  <2>1. asking'.step = to /\ asking'.at = asking.at /\ asking'.ref = asking.ref
    BY <1>4 DEF AsksGo, ClassificationTyped
  <2>2. asking' \in [step : {"none", "row", "mapping", "basis"}, at : Nat, ref : RefsAsked \cup {"none"}]
    BY <1>4 DEF AsksGo, ClassificationTyped
  <2> QED BY <1>1, <1>4, <2>1, <2>2, SameRecords
          DEF ClassificationTyped, AskingInv, ToldInv, NotCeasedBefore, Lasting
<1>5. CASE StillHolds(ReadCurrentProductSubscription(asking.ref), "row", "mapping")
  <2>1. CASE Answered(FALSE)
    BY Zenon, <1>3, <1>5, <2>1 DEF StillHolds
  <2>2. CASE ReadCurrentProductSubscription(asking.ref) /\ AsksGo("row", "mapping") /\ toldEngine' = toldEngine
    <3>1. Len(history) \in DOMAIN history
      BY <2>2 DEF ReadCurrentProductSubscription, Classified, ClassificationTyped
    <3>2. LastClsDay + 1 >= asking.at
      BY ClassificationAssumption DEF ClassificationTyped
    <3>3. BackedAt(asking.ref, asking.at)
      BY <2>2, <3>1, <3>2 DEF BackedAt, ReadCurrentProductSubscription, Current, Replaced
    <3> QED BY <1>4, <2>2, <3>3
  <2> QED BY Zenon, <1>5, <2>1, <2>2 DEF StillHolds
<1>6. CASE StillHolds(InForceOn("primary", asking.at), "mapping", "basis")
  <2>1. CASE Answered(FALSE)
    BY Zenon, <1>3, <1>6, <2>1 DEF StillHolds
  <2>2. CASE InForceOn("primary", asking.at) /\ AsksGo("mapping", "basis") /\ toldEngine' = toldEngine
    <3>1. NotCeasedBefore("primary", asking.at)
      BY <2>2 DEF InForceOn, NotCeasedBefore, ClassificationTyped, ClsFacts
    <3>2. BackedAt(asking.ref, asking.at)
      BY <2>2 DEF AsksGo, AskingInv
    <3> QED BY <1>4, <2>2, <3>1, <3>2
  <2> QED BY Zenon, <1>6, <2>1, <2>2 DEF StillHolds
<1>7. CASE asking.step = "basis" /\ Answered(InForceOn("eligible", asking.at))
  <2>1. InForceOn("eligible", asking.at) \in BOOLEAN
    BY DEF InForceOn, Lasting
  <2> QED BY <1>3, <1>7, <2>1
<1> QED BY <1>2, <1>5, <1>6, <1>7 DEF CurrentInternalAuthority

\* Every step keeps the invariant.
LEMMA ClassificationStep ==
  ASSUME ClassificationInv, [ClassificationNext]_clsVars
  PROVE  ClassificationInv'
<1> USE DEF ClassificationInv
<1>1. ASSUME NEW c \in DOMAIN ClsCalls, evaluate(c) PROVE ClassificationInv'
  <2>1. UNCHANGED <<history, ceasing, asking, toldEngine, clsDay>>
    BY <1>1 DEF evaluate
  <2>2. classifying' \in [DOMAIN ClsCalls -> [step : {"idle", "decide"}, at : Nat]]
    BY <1>1 DEF evaluate, ClsGoes, ClassificationTyped
  <2> QED BY <2>1, <2>2, SameRecords
          DEF ClassificationTyped, AskingInv, ToldInv, NotCeasedBefore, Lasting
<1>2. CASE FactCeases
  <2>1. UNCHANGED <<history, classifying, asking, toldEngine, clsDay>>
    BY <1>2 DEF FactCeases
  <2>2. ceasing' \in [ClsFacts -> Nat]
    BY <1>2 DEF FactCeases, ClassificationTyped
  <2>3. ASSUME NEW f \in ClsFacts, NEW at \in Nat, at <= clsDay, NotCeasedBefore(f, at)
        PROVE  NotCeasedBefore(f, at)'
    BY <1>2, <2>3 DEF FactCeases, NotCeasedBefore, Lasting, ClassificationTyped
  <2>4. asking.at \in Nat /\ toldEngine.at \in Nat /\ asking.at <= clsDay /\ toldEngine.at <= clsDay
    BY DEF ClassificationTyped
  <2>5. ASSUME asking.step = "basis" PROVE NotCeasedBefore("primary", asking.at)'
    BY <2>1, <2>3, <2>4, <2>5 DEF AskingInv, ClsFacts, NotCeasedBefore, Lasting
  <2>6. ASSUME toldEngine.eligible, NEW f \in {"primary", "eligible"} PROVE NotCeasedBefore(f, toldEngine.at)'
    BY <2>1, <2>3, <2>4, <2>6 DEF ToldInv, ClsFacts, NotCeasedBefore, Lasting
  <2>7. ClassificationTyped'
    BY <2>1, <2>2 DEF ClassificationTyped
  <2> QED BY Zenon, <2>1, <2>5, <2>6, <2>7, SameRecords DEF AskingInv, ToldInv
<1>3. CASE ClsTick
  <2>1. UNCHANGED <<history, classifying, ceasing, asking>>
    BY <1>3 DEF ClsTick
  <2>2. toldEngine' = toldEngine \/ toldEngine' = NothingTold
    BY <1>3 DEF ClsTick
  <2>3. clsDay' \in 1..(LastClsDay + 1) /\ clsDay' = clsDay + 1
    BY <1>3, ClassificationAssumption DEF ClsTick, ClassificationTyped
  <2>4. ClassificationTyped'
    <3>1. /\ toldEngine' \in [eligible : BOOLEAN, ref : RefsAsked \cup {"none"}, at : Nat, expires : Nat]
          /\ toldEngine'.at <= clsDay
      <4>1. CASE toldEngine' = toldEngine
        BY <4>1 DEF ClassificationTyped
      <4>2. CASE toldEngine' = NothingTold
        <5>1. /\ NothingTold \in [eligible : BOOLEAN, ref : RefsAsked \cup {"none"}, at : Nat, expires : Nat]
              /\ NothingTold.at = 0
          BY DEF NothingTold
        <5>2. 0 <= clsDay
          BY ClassificationAssumption DEF ClassificationTyped
        <5> QED BY <4>2, <5>1, <5>2
      <4> QED BY <2>2, <4>1, <4>2
    <3>2. asking.at \in Nat /\ toldEngine'.at \in Nat /\ clsDay \in Nat /\ asking.at <= clsDay
      BY <3>1 DEF ClassificationTyped
    <3>3. asking'.at <= clsDay' /\ toldEngine'.at <= clsDay'
      BY <2>1, <2>3, <3>1, <3>2
    <3> QED BY <2>1, <2>3, <3>1, <3>3 DEF ClassificationTyped
  <2>5. AskingInv'
    BY <2>1, SameRecords DEF AskingInv, NotCeasedBefore, Lasting
  <2>6. ToldInv'
    BY <2>1, <2>2, SameRecords DEF ToldInv, NotCeasedBefore, Lasting, NothingTold
  <2> QED BY <2>1, <2>4, <2>5, <2>6, SameRecords
<1>4. CASE UNCHANGED clsVars
  BY <1>4, SameRecords DEF clsVars, ClassificationTyped, AskingInv, ToldInv, NotCeasedBefore, Lasting
<1> QED BY <1>1, <1>2, <1>3, <1>4, ClassifyKeeps, AnswersKeep
        DEF ClassificationNext, command, ClassifyFromAdmission, Reclassify

-----------------------------------------------------------------------------
(* Subscription classification: the theorems *)

\* The records, the answer in progress and the last answer agree: the
\* inductive invariant of classifying and answering.
THEOREM ClassificationInvariant == ClassificationSpec => []ClassificationInv
<1>1. ClassificationInit => ClassificationInv
  <2> SUFFICES ASSUME ClassificationInit PROVE ClassificationInv
    OBVIOUS
  <2>1. history = <<>> /\ asking = NotAsked /\ toldEngine = NothingTold /\ clsDay = 1
    BY DEF ClassificationInit
  <2>2. NotRunning \in [step : {"idle", "decide"}, at : Nat]
    BY DEF NotRunning
  <2>3. classifying \in [DOMAIN ClsCalls -> [step : {"idle", "decide"}, at : Nat]]
    BY <2>2 DEF ClassificationInit
  <2>4. ceasing \in [ClsFacts -> Nat]
    BY DEF ClassificationInit
  <2>5. asking \in [step : {"none", "row", "mapping", "basis"}, at : Nat, ref : RefsAsked \cup {"none"}]
    BY <2>1 DEF NotAsked
  <2>6. toldEngine \in [eligible : BOOLEAN, ref : RefsAsked \cup {"none"}, at : Nat, expires : Nat]
    BY <2>1 DEF NothingTold
  <2>7. clsDay \in 1..(LastClsDay + 1) /\ asking.at <= clsDay /\ toldEngine.at <= clsDay
    BY <2>1, ClassificationAssumption DEF NotAsked, NothingTold
  <2>8. history \in Seq(ClassificationRows)
    BY <2>1
  <2>9. ClassificationTyped
    BY <2>3, <2>4, <2>5, <2>6, <2>7, <2>8 DEF ClassificationTyped
  <2>10. RecordsFormAChain
    BY <2>1 DEF RecordsFormAChain
  <2>11. AskingInv /\ ToldInv
    BY <2>1 DEF AskingInv, ToldInv, NotAsked, NothingTold
  <2> QED BY <2>9, <2>10, <2>11 DEF ClassificationInv
<1>2. ClassificationInv /\ [ClassificationNext]_clsVars => ClassificationInv'
  BY ClassificationStep
<1> QED BY <1>1, <1>2, PTL DEF ClassificationSpec

\* The records of a subscription form one chain, however many commands
\* evaluated the same state (ClassifySubscription).
THEOREM RecordsAlwaysChain == ClassificationSpec => []RecordsFormAChain
<1>1. ClassificationInv => RecordsFormAChain
  BY DEF ClassificationInv
<1> QED BY <1>1, ClassificationInvariant, PTL

\* A positive answer rests on facts none of which had ceased before its time
\* (CurrentInternalAuthority).
THEOREM AnswersAlwaysBacked == ClassificationSpec => []PositiveAnswersBacked
<1>1. ClassificationInv => PositiveAnswersBacked
  BY DEF ClassificationInv, ToldInv, BackedAt, NotCeasedBefore, PositiveAnswersBacked
<1> QED BY <1>1, ClassificationInvariant, PTL

\* Classification keeps everything the model checking asks of it.
THEOREM ClassificationKeepsPromises == ClassificationSpec => ClassificationPromises
BY RecordsAlwaysChain, AnswersAlwaysBacked, PTL DEF ClassificationPromises

=============================================================================
