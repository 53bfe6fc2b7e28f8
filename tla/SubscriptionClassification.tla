---------------------- MODULE SubscriptionClassification ----------------------
(***************************************************************************)
(* Classifying a product subscription, and the answers given on it.        *)
(*                                                                         *)
(* A first classification comes from an approved admission decision, every *)
(* later one is a reclassification appended to the same subscription.  A   *)
(* command reads the target, fixes its time, and establishes the tenant's  *)
(* organisation and its INTERNAL eligibility before it locks the row; what *)
(* it appends is decided under the lock.  The billing engine asks whether  *)
(* an INTERNAL subscription is still backed, and is answered with a lease. *)
(*                                                                         *)
(* One subscription of one tenant.  The tenant's primary mapping and the   *)
(* organisation's qualifying relationships are governed elsewhere; here    *)
(* each may cease.                                                         *)
(***************************************************************************)
EXTENDS Naturals, FiniteSets, Sequences

CONSTANTS
  ClsCalls,      \* [command -> kind, type, ref (decision or governing change), by]
  Workforce,     \* people working for the tenant
  AppliedBy,     \* the applicant of the admission
  MaxRecords,    \* bound on classifications
  AnswerLease,   \* 3 s in the code
  LastClsDay

ASSUME ClassificationAssumption == MaxRecords \in Nat /\ AnswerLease \in Nat /\ LastClsDay \in Nat

VARIABLES
  history,      \* the classifications, in the order they were committed
  classifying,  \* [command -> how far it has come]
  ceasing,      \* [fact -> the day it ceases, 0 while it lasts]
  asking,       \* the engine's question being answered
  toldEngine,   \* the last answer
  clsDay

clsVars == <<history, classifying, ceasing, asking, toldEngine, clsDay>>

ClsFacts == {"primary", "eligible", "admitted"}
NotRunning == [step |-> "idle", at |-> 0]
NotAsked == [step |-> "none", at |-> 0, ref |-> "none"]
NothingTold == [eligible |-> FALSE, ref |-> "none", at |-> 0, expires |-> 0]

ClassificationInit ==
  /\ history = <<>>
  /\ classifying = [c \in DOMAIN ClsCalls |-> NotRunning]
  /\ ceasing = [f \in ClsFacts |-> 0]
  /\ asking = NotAsked
  /\ toldEngine = NothingTold
  /\ clsDay = 1

Lasting(f) == ceasing[f] = 0
InForceOn(f, at) == Lasting(f) \/ at < ceasing[f]
Classified == history # <<>>
Current == history[Len(history)]

-----------------------------------------------------------------------------
(* Commands                                                                *)

ClsGoes(c, from, to) ==
  /\ classifying[c].step = from
  /\ classifying' = [classifying EXCEPT ![c] = to]

\* nobody classifies a subscription of a tenant they work for, nor one they
\* applied for
NotSelfClassified(c) ==
  /\ ClsCalls[c].by \notin Workforce
  /\ ClsCalls[c].kind = "ADMISSION_DECISION" => ClsCalls[c].by # AppliedBy

\* an INTERNAL classification needs the primary organisation and a basis;
\* another first classification needs the relationship the decision made
Established(c) ==
  LET call == ClsCalls[c]
  IN /\ (call.type = "INTERNAL" \/ call.kind = "ADMISSION_DECISION") => Lasting("primary")
     /\ call.type = "INTERNAL" => Lasting("eligible")
     /\ (call.type # "INTERNAL" /\ call.kind = "ADMISSION_DECISION") => Lasting("admitted")

\* the command's time and what it rests on are fixed before the row is locked
evaluate(c) ==
  /\ NotSelfClassified(c)
  /\ Established(c)
  /\ ClsGoes(c, "idle", [step |-> "decide", at |-> clsDay])
  /\ UNCHANGED <<history, ceasing, asking, toldEngine, clsDay>>

Previous == IF Classified THEN Current.type ELSE "NONE"

Record(c) ==
  [type |-> ClsCalls[c].type, prev |-> Previous, source |-> ClsCalls[c].kind,
   ref |-> ClsCalls[c].ref, at |-> classifying[c].at, committed |-> clsDay]

\* Mutant: every call appends a record.
AppendsAlways(c) == TRUE

\* a first classification only once; a reclassification changes the type
Appends(c) ==
  IF ClsCalls[c].kind = "ADMISSION_DECISION" THEN ~Classified
  ELSE Classified /\ Current.type # ClsCalls[c].type

\* anything else appends nothing: a replay of the current classification
\* returns it, and a command that no longer applies is refused
ClassifySubscription(c) ==
  /\ Len(history) < MaxRecords
  /\ ClsGoes(c, "decide", NotRunning)
  /\ history' = IF Appends(c) THEN Append(history, Record(c)) ELSE history
  /\ UNCHANGED <<ceasing, asking, toldEngine, clsDay>>

ClassifyFromAdmission ==
  \E c \in DOMAIN ClsCalls : ClsCalls[c].kind = "ADMISSION_DECISION" /\ (evaluate(c) \/ ClassifySubscription(c))

Reclassify ==
  \E c \in DOMAIN ClsCalls : ClsCalls[c].kind = "RECLASSIFICATION" /\ (evaluate(c) \/ ClassifySubscription(c))

\* the two commands of the API
command == ClassifyFromAdmission \/ Reclassify

-----------------------------------------------------------------------------
(* Explaining and answering                                                *)

\* newest first: the latest time, and among equal times the latest written
ListSubscriptionClassifications ==
  CHOOSE i \in DOMAIN history : \A j \in DOMAIN history \ {i} :
    history[i].at > history[j].at \/ (history[i].at = history[j].at /\ i > j)

explain ==
  IF ~Classified THEN "NOT_CLASSIFIED"
  ELSE IF ListSubscriptionClassifications = Len(history) THEN "EXPLAINED" ELSE "UNAVAILABLE"

AsksGo(from, to) == asking.step = from /\ asking' = [asking EXCEPT !.step = to]

AskCurrentAuthority ==
  /\ asking = NotAsked
  /\ \E ref \in {ClsCalls[c].ref : c \in {d \in DOMAIN ClsCalls : ClsCalls[d].type = "INTERNAL"}} :
       asking' = [step |-> "row", at |-> clsDay, ref |-> ref]
  /\ UNCHANGED <<history, classifying, ceasing, toldEngine, clsDay>>

\* the revision's own classification, never its history
ReadCurrentProductSubscription(ref) == Classified /\ Current.type = "INTERNAL" /\ Current.ref = ref

Answered(eligible) ==
  /\ toldEngine' = [eligible |-> eligible, ref |-> asking.ref, at |-> asking.at, expires |-> asking.at + AnswerLease]
  /\ asking' = NotAsked
  /\ UNCHANGED <<history, classifying, ceasing, clsDay>>

StillHolds(holds, from, to) ==
  /\ asking.step = from
  /\ IF holds THEN AsksGo(from, to) /\ UNCHANGED <<history, classifying, ceasing, toldEngine, clsDay>>
              ELSE Answered(FALSE)

\* the row, the mapping and the basis are read one after the other; the
\* request's time was fixed before the first
CurrentInternalAuthority ==
  \/ StillHolds(ReadCurrentProductSubscription(asking.ref), "row", "mapping")
  \/ StillHolds(InForceOn("primary", asking.at), "mapping", "basis")
  \/ asking.step = "basis" /\ Answered(InForceOn("eligible", asking.at))

-----------------------------------------------------------------------------
\* the facts are independent of each other: at most one ceases
FactCeases ==
  \E f \in ClsFacts :
    /\ \A g \in ClsFacts : Lasting(g)
    /\ ceasing' = [ceasing EXCEPT ![f] = clsDay]
    /\ UNCHANGED <<history, classifying, asking, toldEngine, clsDay>>

\* an expired answer is of no further use
ClsTick ==
  /\ clsDay < LastClsDay
  /\ clsDay' = clsDay + 1
  /\ toldEngine' = IF toldEngine.expires <= clsDay' THEN NothingTold ELSE toldEngine
  /\ UNCHANGED <<history, classifying, ceasing, asking>>

ClassificationNext ==
  \/ command
  \/ AskCurrentAuthority \/ CurrentInternalAuthority
  \/ FactCeases \/ ClsTick

ClassificationSpec == ClassificationInit /\ [][ClassificationNext]_clsVars

-----------------------------------------------------------------------------
(* Properties                                                              *)

(* The records form one chain: the first comes from the admission, each    *)
(* later one is a reclassification that names the type it replaced and     *)
(* changes it, however many commands evaluated the same state before one   *)
(* of them locked the row (ClassifySubscription).                          *)
RecordsFormAChain ==
  \A i \in DOMAIN history :
    IF i = 1 THEN history[i].source = "ADMISSION_DECISION" /\ history[i].prev = "NONE"
    ELSE /\ history[i].source = "RECLASSIFICATION"
         /\ history[i].prev = history[i - 1].type
         /\ history[i].type # history[i].prev

Replaced(i) == IF i = Len(history) THEN LastClsDay + 1 ELSE history[i + 1].committed

(* A positive answer to the billing engine rests on facts none of which    *)
(* had ceased before the time it is given for: the subscription was still  *)
(* classified INTERNAL on that reference, the organisation was still       *)
(* primary and still eligible.  So a withdrawal reaches the engine within  *)
(* the lease (CurrentInternalAuthority, internalAuthorityHandler.read).    *)
PositiveAnswersBacked ==
  toldEngine.eligible =>
    /\ \E i \in DOMAIN history :
         history[i].type = "INTERNAL" /\ history[i].ref = toldEngine.ref /\ Replaced(i) >= toldEngine.at
    /\ \A f \in {"primary", "eligible"} : Lasting(f) \/ ceasing[f] >= toldEngine.at

(* Once classified, a subscription can be explained: its current record is *)
(* the newest of its history, which explain asserts.                       *)
AlwaysExplained == Classified => explain = "EXPLAINED"

\* Subscription classification: the records form a chain and a positive
\* answer is backed by the classification in force.
ClassificationPromises ==
  /\ [](RecordsFormAChain /\ PositiveAnswersBacked)
=============================================================================
