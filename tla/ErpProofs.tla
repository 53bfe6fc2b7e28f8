------------------------------- MODULE ErpProofs -------------------------------
(***************************************************************************)
(* What holds of requests to ERP, for any number of plans, submitters,     *)
(* sweepers and processors and any bounds.                                 *)
(*                                                                         *)
(* The ledger only ever says what ERP reported, its progress only moves    *)
(* forward, and an event marked applied is in it. LedgerInv follows every  *)
(* copy of an operation's progress back to ERP: the one in the ledger,     *)
(* those in the memory of submitters and sweepers, and those in receipts   *)
(* and in the batches of processors.                                       *)
(*                                                                         *)
(* Recording an intent before a request is meant to achieve that no        *)
(* operation ERP accepted is lost track of and that a plan has at most     *)
(* one. Two submitters of a plan violate both (the Race instance), and in  *)
(* one way only, whatever fails and however late a request arrives: a      *)
(* submitter that was refused discards the intent another one recorded     *)
(* since. IntentInv says of every request that may still reach ERP that    *)
(* the plan's intent or submission names it, or that ERP will refuse it    *)
(* because its baseline has been superseded.                               *)
(***************************************************************************)
EXTENDS ErpProvisioning, TLAPS

Histories == [Operations -> Seq(ErpStates)]
Submissions == [Plans -> [baseline : 0..MaxBaseline, revision : Nat, state : ErpStates]]

\* History h has state s as revision n of the plan's operation under b.
Reported(h, p, b, n, s) ==
  /\ p \in Plans /\ b \in Baselines
  /\ n \in 1..Len(h[<<p, b>>]) /\ s = h[<<p, b>>][n]

\* Ledger t says only what history h has.
Says(t, h) ==
  \A p \in Plans : t[p] # NoSubmission =>
    Reported(h, p, t[p].baseline, t[p].revision, t[p].state)

\* No submission of t is another or moved backwards in u.
Forward(t, u) ==
  \A p \in Plans : t[p] # NoSubmission =>
    /\ u[p].baseline = t[p].baseline
    /\ u[p].revision >= t[p].revision
    /\ u[p].revision = t[p].revision => u[p].state = t[p].state

\* History g goes on from h.
Extends(h, g) ==
  \A k \in Operations : /\ Len(g[k]) >= Len(h[k])
                        /\ \A n \in 1..Len(h[k]) : g[k][n] = h[k][n]

\* The event is one of history h.
Published(h, e) == /\ e = <<e[1], e[2]>> /\ e[1] \in Operations
                   /\ e[2] \in 1..Len(h[e[1]])

\* The event is in ledger t, itself or by a later one.
Recorded(t, e) == /\ e[1] \in Operations /\ e[2] \in Nat
                  /\ t[e[1][1]].baseline = e[1][2] /\ t[e[1][1]].revision >= e[2]

\* What a submitter or sweeper holds in memory is true of history h.
Held(h, m) ==
  /\ m.pc # "idle" => m.plan \in Plans
  /\ m.pc \in {"record", "provision", "submitted", "read", "apply"} => m.baseline \in Baselines
  /\ m.pc \in {"submitted", "apply"} => Reported(h, m.plan, m.baseline, m.revision, m.state)

\* What a processor's pass holds is true of history h and ledger t.
Passes(h, t, m) ==
  /\ m.pc \in {"batch", "mark"} => \A e \in m.batch : Published(h, e)
  /\ m.pc = "mark" => Published(h, m.event)
  /\ m.pc = "mark" /\ m.result = "applied" => Recorded(t, m.event)

MemoryInv ==
  /\ worker = [w \in Workers |-> worker[w]]
  /\ \A w \in Workers : Held(erp, worker[w])

InboxInv ==
  /\ processor = [q \in Processors |-> processor[q]]
  /\ \A q \in Processors : Passes(erp, submission, processor[q])
  /\ \A e \in pending : Published(erp, e)
  /\ \A e \in applied : Recorded(submission, e)

StoreInv ==
  /\ effective \in Baselines
  /\ erp \in Histories
  /\ intent \in [Plans -> 0..MaxBaseline]
  /\ submission \in Submissions
  /\ Says(submission, erp)

LedgerInv == StoreInv /\ MemoryInv /\ InboxInv
-----------------------------------------------------------------------------
(* What one change does *)

\* What ERP has reported stays reported as its history goes on.
LEMMA ReportedStays ==
  ASSUME NEW h \in Histories, NEW g \in Histories, Extends(h, g),
         NEW p, NEW b, NEW n, NEW s, Reported(h, p, b, n, s)
  PROVE  Reported(g, p, b, n, s)
<1>1. <<p, b>> \in Operations
  BY DEF Reported, Operations
<1>2. Len(h[<<p, b>>]) \in Nat /\ Len(g[<<p, b>>]) \in Nat
  BY <1>1 DEF Histories
<1> QED
  BY <1>1, <1>2 DEF Reported, Extends

\* So is a published event.
LEMMA PublishedStays ==
  ASSUME NEW h \in Histories, NEW g \in Histories, Extends(h, g),
         NEW e, Published(h, e)
  PROVE  Published(g, e)
<1>1. Len(h[e[1]]) \in Nat /\ Len(g[e[1]]) \in Nat
  BY DEF Histories, Published
<1> QED
  BY <1>1 DEF Published, Extends

\* An event in the ledger stays in it.
LEMMA RecordedStays ==
  ASSUME NEW t \in Submissions, NEW u \in Submissions, Forward(t, u),
         NEW e, Recorded(t, e)
  PROVE  Recorded(u, e)
<1> DEFINE p == e[1][1]
<1>1. p \in Plans /\ e[1][2] \in Baselines
  BY DEF Recorded, Operations
<1>2. t[p].baseline # 0
  BY <1>1 DEF Recorded, Baselines
<1>3. t[p] # NoSubmission
  BY <1>2 DEF NoSubmission
<1>4. t[p].revision \in Nat /\ u[p].revision \in Nat
  BY <1>1 DEF Submissions
<1> QED
  BY <1>1, <1>3, <1>4 DEF Recorded, Forward

\* A history goes on when an operation is appended to, and when it does not change.
LEMMA AppendExtends ==
  ASSUME NEW h \in Histories, NEW k \in Operations, NEW s \in ErpStates
  PROVE  LET g == [h EXCEPT ![k] = Append(@, s)]
         IN g \in Histories /\ Extends(h, g)
<1> DEFINE g == [h EXCEPT ![k] = Append(@, s)]
<1>1. h[k] \in Seq(ErpStates)
  BY DEF Histories
<1>2. Append(h[k], s) \in Seq(ErpStates)
  BY <1>1
<1>3. g \in Histories
  BY <1>2 DEF Histories
<1>4. /\ Len(Append(h[k], s)) >= Len(h[k])
      /\ \A n \in 1..Len(h[k]) : Append(h[k], s)[n] = h[k][n]
  BY <1>1
<1>5. \A j \in Operations : j # k => g[j] = h[j]
  BY DEF Histories
<1>6. g[k] = Append(h[k], s)
  BY DEF Histories
<1>7. \A j \in Operations : Len(h[j]) \in Nat
  BY DEF Histories
<1>8. Extends(h, g)
  BY <1>4, <1>5, <1>6, <1>7 DEF Extends
<1> QED
  BY <1>3, <1>8

\* A history extends itself.
LEMMA SameExtends ==
  ASSUME NEW h \in Histories
  PROVE  Extends(h, h)
<1>1. \A j \in Operations : Len(h[j]) \in Nat
  BY DEF Histories
<1> QED
  BY <1>1 DEF Extends

\* A submission that does not change moves forward.
LEMMA SameForward ==
  ASSUME NEW t \in Submissions
  PROVE  Forward(t, t)
<1>1. \A p \in Plans : t[p].revision \in Nat
  BY DEF Submissions
<1> QED
  BY <1>1 DEF Forward

\* A newer revision of a recorded operation is recorded and moves it forward.
LEMMA NewerKeeps ==
  ASSUME NEW t \in Submissions, NEW h \in Histories, Says(t, h),
         NEW p, NEW b, NEW n, NEW s, Reported(h, p, b, n, s),
         t[p].baseline = b, t[p].revision < n
  PROVE  LET u == [t EXCEPT ![p].revision = n, ![p].state = s]
         IN u \in Submissions /\ Says(u, h) /\ Forward(t, u)
<1> DEFINE u == [t EXCEPT ![p].revision = n, ![p].state = s]
<1>1. p \in Plans /\ b \in Baselines /\ <<p, b>> \in Operations
  BY DEF Reported, Operations
<1>2. h[<<p, b>>] \in Seq(ErpStates)
  BY <1>1 DEF Histories
<1>3. n \in Nat /\ s \in ErpStates
  BY <1>2 DEF Reported
<1>4. t[p] \in [baseline : 0..MaxBaseline, revision : Nat, state : ErpStates]
  BY <1>1 DEF Submissions
<1>5. u \in Submissions
  BY Zenon, <1>1, <1>3, <1>4 DEF Submissions
<1>6. u[p].baseline = b /\ u[p].revision = n /\ u[p].state = s
  BY <1>1, <1>4 DEF Submissions
<1>7. \A r \in Plans : r # p => u[r] = t[r]
  BY DEF Submissions
<1>8. Says(u, h)
  BY Zenon, <1>6, <1>7 DEF Says
<1>9. \A r \in Plans : t[r].revision \in Nat
  BY DEF Submissions
<1>10. Forward(t, u)
  <2> HIDE DEF u
  <2> SUFFICES ASSUME NEW r \in Plans
               PROVE  /\ u[r].baseline = t[r].baseline
                      /\ u[r].revision >= t[r].revision
                      /\ u[r].revision = t[r].revision => u[r].state = t[r].state
    BY DEF Forward
  <2>1. CASE r = p
    BY <2>1, <1>3, <1>6, <1>9
  <2>2. CASE r # p
    BY <2>2, <1>7, <1>9
  <2> QED
    BY <2>1, <2>2
<1> QED
  BY <1>5, <1>8, <1>10

\* A first submission is recorded, and no other changes.
LEMMA FirstKeeps ==
  ASSUME NEW t \in Submissions, NEW h \in Histories, Says(t, h),
         NEW p, NEW b, NEW n, NEW s, Reported(h, p, b, n, s),
         t[p] = NoSubmission
  PROVE  LET u == [t EXCEPT ![p] = [baseline |-> b, revision |-> n, state |-> s]]
         IN u \in Submissions /\ Says(u, h) /\ Forward(t, u)
<1> DEFINE u == [t EXCEPT ![p] = [baseline |-> b, revision |-> n, state |-> s]]
<1>1. p \in Plans /\ b \in Baselines /\ <<p, b>> \in Operations
  BY DEF Reported, Operations
<1>2. h[<<p, b>>] \in Seq(ErpStates)
  BY <1>1 DEF Histories
<1>3. n \in Nat /\ s \in ErpStates
  BY <1>2 DEF Reported
<1>4. b \in 0..MaxBaseline
  BY <1>1, ErpAssumption DEF Baselines
<1>5. u \in Submissions
  BY <1>1, <1>3, <1>4 DEF Submissions
<1>6. u[p].baseline = b /\ u[p].revision = n /\ u[p].state = s
  BY <1>1 DEF Submissions
<1>7. \A r \in Plans : r # p => u[r] = t[r]
  BY DEF Submissions
<1>8. Says(u, h)
  BY <1>6, <1>7 DEF Says
<1>9. \A r \in Plans : t[r].revision \in Nat
  BY DEF Submissions
<1>10. Forward(t, u)
  BY <1>7, <1>9 DEF Forward
<1> QED
  BY <1>5, <1>8, <1>10

\* ERP's first answer to a request starts the history of its operation.
LEMMA AcceptedExtends ==
  ASSUME erp \in Histories, NEW k \in Operations
  PROVE  Accepted(k) \in Histories /\ Extends(erp, Accepted(k)) /\ Len(Accepted(k)[k]) >= 1
<1>1. erp[k] \in Seq(ErpStates)
  BY DEF Histories
<1>2. CASE erp[k] = <<>>
  <2> DEFINE g == [erp EXCEPT ![k] = <<"open">>]
  <2>1. Accepted(k) = g
    BY <1>2 DEF Accepted
  <2>2. "open" \in ErpStates
    BY DEF ErpStates
  <2>3. <<"open">> \in Seq(ErpStates) /\ Len(<<"open">>) = 1
    BY <2>2
  <2>4. g \in Histories
    BY <2>3 DEF Histories
  <2>5. /\ g[k] = <<"open">>
        /\ \A j \in Operations : j # k => g[j] = erp[j]
    BY DEF Histories
  <2>6. \A j \in Operations : Len(erp[j]) \in Nat
    BY DEF Histories
  <2>7. Len(erp[k]) = 0
    BY <1>2
  <2> HIDE DEF g
  <2>8. Extends(erp, g)
    BY <2>3, <2>5, <2>6, <2>7 DEF Extends
  <2> QED
    BY <2>1, <2>3, <2>4, <2>5, <2>8
<1>3. CASE erp[k] # <<>>
  <2>1. Accepted(k) = erp
    BY <1>3 DEF Accepted
  <2>2. Len(erp[k]) >= 1
    BY <1>1, <1>3
  <2> QED
    BY <2>1, <2>2, SameExtends
<1> QED
  BY <1>2, <1>3

\* The ledger says what ERP reported as the history goes on.
LEMMA SaysStays ==
  ASSUME NEW h \in Histories, NEW g \in Histories, Extends(h, g),
         NEW t \in Submissions, Says(t, h)
  PROVE  Says(t, g)
BY ReportedStays DEF Says

\* PostgresLedger.Apply keeps the ledger true and moves it forward.
LEMMA AdvancedKeeps ==
  ASSUME StoreInv, NEW p, NEW b, NEW n, NEW s, Reported(erp, p, b, n, s)
  PROVE  /\ Advanced(p, b, n, s) \in Submissions
         /\ Says(Advanced(p, b, n, s), erp)
         /\ Forward(submission, Advanced(p, b, n, s))
<1>1. submission \in Submissions /\ erp \in Histories /\ Says(submission, erp)
  BY DEF StoreInv
<1>2. CASE submission[p].baseline = b /\ submission[p].revision < n
  <2> DEFINE u == [submission EXCEPT ![p].revision = n, ![p].state = s]
  <2>1. Advanced(p, b, n, s) = u
    BY <1>2 DEF Advanced
  <2>2. u \in Submissions /\ Says(u, erp) /\ Forward(submission, u)
    BY <1>1, <1>2, NewerKeeps
  <2> QED
    BY <2>1, <2>2
<1>3. CASE ~(submission[p].baseline = b /\ submission[p].revision < n)
  <2>1. Advanced(p, b, n, s) = submission
    BY <1>3 DEF Advanced
  <2> QED
    BY <1>1, <2>1, SameForward
<1> QED
  BY <1>2, <1>3

\* So does PostgresLedger.Submitted.
LEMMA SubmittedKeeps ==
  ASSUME StoreInv, NEW p, NEW b, NEW n, NEW s, Reported(erp, p, b, n, s)
  PROVE  /\ Submitted(p, b, n, s) \in Submissions
         /\ Says(Submitted(p, b, n, s), erp)
         /\ Forward(submission, Submitted(p, b, n, s))
<1>1. submission \in Submissions /\ erp \in Histories /\ Says(submission, erp)
  BY DEF StoreInv
<1>2. CASE submission[p] = NoSubmission
  <2> DEFINE u == [submission EXCEPT ![p] = [baseline |-> b, revision |-> n, state |-> s]]
  <2>1. Submitted(p, b, n, s) = u
    BY <1>2 DEF Submitted
  <2>2. u \in Submissions /\ Says(u, erp) /\ Forward(submission, u)
    BY <1>1, <1>2, FirstKeeps
  <2> QED
    BY <2>1, <2>2
<1>3. CASE submission[p] # NoSubmission
  <2>1. Submitted(p, b, n, s) = Advanced(p, b, n, s)
    BY <1>3 DEF Submitted
  <2> QED
    BY <2>1, AdvancedKeeps
<1> QED
  BY <1>2, <1>3

-----------------------------------------------------------------------------
(* What a step does to the stores *)

\* One step of the stores: ERP's history goes on, the ledger moves forward and
\* stays true.
StoreStep ==
  /\ Extends(erp, erp') /\ Forward(submission, submission')
  /\ StoreInv'

\* An event in a batch is one ERP published, so what its handler applies is
\* what ERP reported.
LEMMA EventStep ==
  ASSUME StoreInv, NEW q, NEW e, Published(erp, e), ApplyEvent(q, e)
  PROVE  StoreStep
<1>1. submission \in Submissions /\ erp \in Histories /\ Says(submission, erp)
  BY DEF StoreInv
<1> DEFINE p == e[1][1]
           b == e[1][2]
           n == e[2]
           s == erp[e[1]][e[2]]
<1>2. p \in Plans /\ b \in Baselines /\ e[1] = <<p, b>>
  BY DEF Published, Operations
<1>3. Reported(erp, p, b, n, s)
  BY <1>2 DEF Reported, Published
<1>4. UNCHANGED <<erp, effective, intent>>
  BY DEF ApplyEvent, erpVars
<1>5. submission' = submission \/ submission' = Advanced(p, b, n, s)
  BY DEF ApplyEvent
<1> HIDE DEF p, b, n, s
<1>6. submission' \in Submissions /\ Says(submission', erp) /\ Forward(submission, submission')
  BY <1>1, <1>3, <1>5, AdvancedKeeps, SameForward
<1> QED
  BY <1>1, <1>4, <1>6, SameExtends DEF StoreStep, StoreInv

\* A step that changes only what ERP has done.
LEMMA ErpOnlyStep ==
  ASSUME StoreInv, erp' \in Histories, Extends(erp, erp'), effective' \in Baselines,
         UNCHANGED <<intent, submission>>
  PROVE  StoreStep
<1>1. submission \in Submissions /\ erp \in Histories /\ Says(submission, erp)
  BY DEF StoreInv
<1>2. Says(submission, erp')
  BY <1>1, SaysStays
<1> QED
  BY <1>1, <1>2, SameForward DEF StoreStep, StoreInv

\* A step that changes only intents.
LEMMA IntentOnlyStep ==
  ASSUME StoreInv, intent' \in [Plans -> 0..MaxBaseline], UNCHANGED <<effective, erp, submission>>
  PROVE  StoreStep
BY SameExtends, SameForward DEF StoreStep, StoreInv

\* A step that changes only the ledger, to what ERP reported.
LEMMA LedgerOnlyStep ==
  ASSUME StoreInv, submission' \in Submissions, Says(submission', erp), Forward(submission, submission'),
         UNCHANGED <<effective, erp, intent>>
  PROVE  StoreStep
BY SameExtends DEF StoreStep, StoreInv

\* A step of a submitter or a sweeper.
LEMMA WorkerStores ==
  ASSUME StoreInv, MemoryInv, NEW w \in Workers, WorkerStep(w)
  PROVE  StoreStep
<1> DEFINE me == worker[w]
<1>1. Held(erp, me)
  BY DEF MemoryInv
<1>2. submission \in Submissions /\ erp \in Histories /\ effective \in Baselines
  BY DEF StoreInv
<1>3. CASE UNCHANGED <<effective, erp, intent, submission>>
  BY <1>3, <1>2, SameExtends, ErpOnlyStep
<1>4. CASE RecordIntent(w)
  <2>1. me.plan \in Plans /\ me.baseline \in 0..MaxBaseline
    BY <1>1, <1>4, ErpAssumption DEF RecordIntent, Held, Baselines
  <2>2. \/ intent' = [intent EXCEPT ![me.plan] = me.baseline]
        \/ intent' = intent
    BY <1>4 DEF RecordIntent
  <2>3. intent \in [Plans -> 0..MaxBaseline]
    BY DEF StoreInv
  <2>4. intent' \in [Plans -> 0..MaxBaseline]
    BY <2>1, <2>2, <2>3
  <2> QED
    BY <1>4, <2>4, IntentOnlyStep DEF RecordIntent, erpVars
<1>5. CASE DiscardIntent(w)
  <2>1. \/ intent' = [intent EXCEPT ![me.plan] = 0]
        \/ intent' = intent
    BY <1>5 DEF DiscardIntent
  <2>2. intent \in [Plans -> 0..MaxBaseline] /\ 0 \in 0..MaxBaseline
    BY ErpAssumption DEF StoreInv
  <2>3. intent' \in [Plans -> 0..MaxBaseline]
    BY <2>1, <2>2
  <2> QED
    BY <1>5, <2>3, IntentOnlyStep DEF DiscardIntent, erpVars
<1>6. CASE Provision(w)
  <2> DEFINE k == <<me.plan, me.baseline>>
  <2>1. k \in Operations
    BY <1>1, <1>6 DEF Provision, Held, Operations
  <2>2. erp' = Accepted(k)
    BY <1>6 DEF Provision
  <2> HIDE DEF k
  <2>3. erp' \in Histories /\ Extends(erp, erp')
    BY <1>2, <2>1, <2>2, AcceptedExtends
  <2>4. UNCHANGED <<effective, intent, submission>>
    BY <1>6 DEF Provision, ledgerVars
  <2> QED
    BY <1>2, <2>3, <2>4, ErpOnlyStep
<1>7. CASE RecordSubmission(w)
  <2>1. Reported(erp, me.plan, me.baseline, me.revision, me.state)
    BY <1>1, <1>7 DEF RecordSubmission, Held
  <2>2. /\ submission' = Submitted(me.plan, me.baseline, me.revision, me.state)
        /\ UNCHANGED <<effective, erp, intent>>
    BY <1>7 DEF RecordSubmission, erpVars
  <2> HIDE DEF me
  <2>3. submission' \in Submissions /\ Says(submission', erp) /\ Forward(submission, submission')
    BY <2>1, <2>2, SubmittedKeeps
  <2> QED
    BY <2>2, <2>3, LedgerOnlyStep
<1>8. CASE Record(w)
  <2>1. Reported(erp, me.plan, me.baseline, me.revision, me.state)
    BY <1>1, <1>8 DEF Record, Held
  <2>2. /\ submission' = Advanced(me.plan, me.baseline, me.revision, me.state)
        /\ UNCHANGED <<effective, erp, intent>>
    BY <1>8 DEF Record, erpVars
  <2> HIDE DEF me
  <2>3. submission' \in Submissions /\ Says(submission', erp) /\ Forward(submission, submission')
    BY <2>1, <2>2, AdvancedKeeps
  <2> QED
    BY <2>2, <2>3, LedgerOnlyStep
<1> QED
  BY Zenon, <1>3, <1>4, <1>5, <1>6, <1>7, <1>8
     DEF WorkerStep, SubmitStep, Submit, ReadIntent, ResolveBaselines, RereadIntent,
         ProvisionRefused, ProvisionFails, Sweep, ReadOperation, Fails, erpVars, ledgerVars

\* Every step.
LEMMA NextStores ==
  ASSUME LedgerInv, [Next]_vars
  PROVE  StoreStep
<1>1. StoreInv /\ MemoryInv /\ InboxInv
  BY DEF LedgerInv
<1>2. submission \in Submissions /\ erp \in Histories /\ effective \in Baselines
  BY <1>1 DEF StoreInv
<1>3. CASE UNCHANGED <<effective, erp, intent, submission>>
  BY <1>1, <1>2, <1>3, SameExtends, ErpOnlyStep
<1>4. CASE FinanceSupersedes
  <2>1. effective' \in Baselines
    BY <1>2, <1>4, ErpAssumption DEF FinanceSupersedes, Baselines
  <2> QED
    BY <1>1, <1>2, <1>4, <2>1, SameExtends, ErpOnlyStep DEF FinanceSupersedes, ledgerVars
<1>5. ASSUME NEW k \in Operations, ErpAdvances(k)
      PROVE  StoreStep
  <2>1. PICK s \in ErpStates : erp' = [erp EXCEPT ![k] = Append(@, s)]
    BY Zenon, <1>5 DEF ErpAdvances, ErpStates
  <2>2. erp' \in Histories /\ Extends(erp, erp')
    BY Zenon, <1>2, <2>1, AppendExtends
  <2> QED
    BY <1>1, <1>2, <1>5, <2>2, ErpOnlyStep DEF ErpAdvances, ledgerVars
<1>6. ASSUME NEW k \in Operations, ErpReceivesLate(k)
      PROVE  StoreStep
  <2>1. erp' = erp \/ erp' = Accepted(k)
    BY <1>6 DEF ErpReceivesLate
  <2>2. erp' \in Histories /\ Extends(erp, erp')
    BY <1>2, <2>1, AcceptedExtends, SameExtends
  <2> QED
    BY <1>1, <1>2, <1>6, <2>2, ErpOnlyStep DEF ErpReceivesLate, ledgerVars
<1>7. ASSUME NEW w \in Workers, WorkerStep(w)
      PROVE  StoreStep
  BY <1>1, <1>7, WorkerStores
<1>8. ASSUME NEW q \in Processors, Process(q)
      PROVE  StoreStep
  <2>1. ASSUME processor[q].pc = "batch", NEW e \in processor[q].batch, ApplyEvent(q, e)
        PROVE  StoreStep
    <3>1. Published(erp, e)
      BY <1>1, <2>1 DEF InboxInv, Passes
    <3> QED
      BY <1>1, <2>1, <3>1, EventStep
  <2> QED
    BY <1>3, <1>8, <2>1 DEF Process, EventDisagrees, erpVars, ledgerVars
<1> QED
  BY <1>3, <1>4, <1>5, <1>6, <1>7, <1>8
     DEF Next, Deliver, SubmissionAges, vars, erpVars, ledgerVars

-----------------------------------------------------------------------------
(* What a step does to copies of the progress *)

\* What is held in memory stays true as ERP's history goes on.
LEMMA HeldStays ==
  ASSUME NEW h \in Histories, NEW g \in Histories, Extends(h, g), NEW m, Held(h, m)
  PROVE  Held(g, m)
BY ReportedStays DEF Held

\* What a processor's pass holds stays true of longer histories and later ledgers.
LEMMA PassesStays ==
  ASSUME NEW h \in Histories, NEW g \in Histories, Extends(h, g),
         NEW t \in Submissions, NEW u \in Submissions, Forward(t, u),
         NEW m, Passes(h, t, m)
  PROVE  Passes(g, u, m)
BY PublishedStays, RecordedStays DEF Passes

\* One worker goes on with true facts, the others are left alone.
LEMMA OneGoes ==
  ASSUME LedgerInv, StoreStep, NEW w \in Workers, NEW m, Held(erp', m), Goes(w, m)
  PROVE  MemoryInv'
<1>1. /\ erp \in Histories /\ erp' \in Histories /\ Extends(erp, erp')
      /\ worker = [v \in Workers |-> worker[v]]
      /\ \A v \in Workers : Held(erp, worker[v])
  BY DEF LedgerInv, StoreInv, MemoryInv, StoreStep
<1>2. worker' = [worker EXCEPT ![w] = m]
  BY DEF Goes
<1>3. worker' = [v \in Workers |-> worker'[v]]
  BY <1>1, <1>2
<1>4. worker'[w] = m /\ \A v \in Workers : v # w => worker'[v] = worker[v]
  BY <1>1, <1>2
<1>5. \A v \in Workers : Held(erp', worker'[v])
  BY <1>1, <1>4, HeldStays
<1> QED
  BY <1>3, <1>5 DEF MemoryInv

\* What workers remember stays true when the stores move on without them.
LEMMA NoneGoes ==
  ASSUME LedgerInv, StoreStep, UNCHANGED worker
  PROVE  MemoryInv'
<1>1. /\ erp \in Histories /\ erp' \in Histories /\ Extends(erp, erp')
      /\ worker = [v \in Workers |-> worker[v]]
      /\ \A v \in Workers : Held(erp, worker[v])
  BY DEF LedgerInv, StoreInv, MemoryInv, StoreStep
<1>2. \A v \in Workers : Held(erp', worker[v])
  BY <1>1, HeldStays
<1> QED
  BY <1>1, <1>2 DEF MemoryInv

\* Idle holds nothing.
LEMMA IdleHeld ==
  ASSUME NEW h
  PROVE  Held(h, Idle)
BY DEF Held, Idle

\* What a worker's step leaves in its memory is true.
LEMMA WorkerMemory ==
  ASSUME LedgerInv, StoreStep, NEW w \in Workers, WorkerStep(w)
  PROVE  MemoryInv'
<1> DEFINE me == worker[w]
<1>1. Held(erp, me)
  BY DEF LedgerInv, MemoryInv
<1>2. /\ submission \in Submissions /\ erp \in Histories /\ effective \in Baselines
      /\ intent \in [Plans -> 0..MaxBaseline] /\ Says(submission, erp)
  BY DEF LedgerInv, StoreInv
<1>3. CASE Goes(w, Idle)
  BY <1>3, IdleHeld, OneGoes
<1>4. ASSUME NEW p \in Plans, Submit(w, p)
      PROVE  MemoryInv'
  <2>1. CASE submission[p] = NoSubmission
    <3> DEFINE m == [pc |-> "intent", plan |-> p]
    <3>1. Held(erp', m)
      BY DEF Held
    <3>2. Goes(w, m)
      BY <1>4, <2>1 DEF Submit
    <3> QED
      BY <3>1, <3>2, OneGoes
  <2>2. CASE submission[p] # NoSubmission
    <3> DEFINE m == [pc |-> "read", plan |-> p, baseline |-> submission[p].baseline]
    <3>1. submission[p].baseline \in Baselines
      BY Zenon, <1>2, <2>2 DEF Says, Reported
    <3>2. Held(erp', m)
      BY <3>1 DEF Held
    <3>3. Goes(w, m)
      BY <1>4, <2>2 DEF Submit
    <3> QED
      BY <3>2, <3>3, OneGoes
  <2> QED
    BY <2>1, <2>2
<1>5. CASE ReadIntent(w) \/ RereadIntent(w)
  <2>1. me.plan \in Plans
    BY <1>1, <1>5 DEF ReadIntent, RereadIntent, Held
  <2>2. CASE Goes(w, [pc |-> "resolve", plan |-> me.plan])
    <3> DEFINE m == [pc |-> "resolve", plan |-> me.plan]
    <3>1. Held(erp', m)
      BY <2>1 DEF Held
    <3> QED
      BY <2>2, <3>1, OneGoes
  <2>3. CASE /\ intent[me.plan] # 0
             /\ Goes(w, [pc |-> "provision", plan |-> me.plan, baseline |-> intent[me.plan]])
    <3> DEFINE m == [pc |-> "provision", plan |-> me.plan, baseline |-> intent[me.plan]]
    <3>1. intent[me.plan] \in Baselines
      BY <1>2, <2>1, <2>3, ErpAssumption DEF Baselines
    <3>2. Held(erp', m)
      BY <2>1, <3>1 DEF Held
    <3> QED
      BY <2>3, <3>2, OneGoes
  <2> QED
    BY <1>3, <1>5, <2>2, <2>3 DEF ReadIntent, RereadIntent
<1>6. CASE ResolveBaselines(w)
  <2> DEFINE m == [pc |-> "record", plan |-> me.plan, baseline |-> effective]
  <2>1. Held(erp', m)
    BY <1>1, <1>2, <1>6 DEF ResolveBaselines, Held
  <2> QED
    BY <1>6, <2>1, OneGoes DEF ResolveBaselines
<1>7. CASE RecordIntent(w)
  <2> DEFINE m == [pc |-> "reread", plan |-> me.plan]
  <2>1. Held(erp', m)
    BY <1>1, <1>7 DEF RecordIntent, Held
  <2> QED
    BY <1>7, <2>1, OneGoes DEF RecordIntent
<1>8. CASE Provision(w)
  <2> DEFINE k == <<me.plan, me.baseline>>
             m == [pc |-> "submitted", plan |-> me.plan, baseline |-> me.baseline,
                   revision |-> Len(erp'[k]), state |-> erp'[k][Len(erp'[k])]]
  <2>1. me.plan \in Plans /\ me.baseline \in Baselines
    BY <1>1, <1>8 DEF Provision, Held
  <2>2. k \in Operations /\ erp' = Accepted(k)
    BY <1>8, <2>1 DEF Provision, Operations
  <2>3. erp' \in Histories
    BY DEF StoreStep, StoreInv
  <2>4. Len(erp'[k]) >= 1 /\ Len(erp'[k]) \in Nat
    <3> HIDE DEF k
    <3> QED
      BY <1>2, <2>2, <2>3, AcceptedExtends DEF Histories
  <2>5. Reported(erp', m.plan, m.baseline, m.revision, m.state)
    <3>1. Len(erp'[k]) \in 1..Len(erp'[k])
      BY <2>4
    <3> QED
      BY <2>1, <3>1, Zenon DEF Reported
  <2>6. Held(erp', m)
    BY Zenon, <2>1, <2>5 DEF Held
  <2>7. Goes(w, m)
    BY <1>8 DEF Provision
  <2> QED
    BY <2>6, <2>7, OneGoes
<1>9. CASE ProvisionRefused(w)
  <2> DEFINE m == [pc |-> "discard", plan |-> me.plan]
  <2>1. Held(erp', m)
    BY <1>1, <1>9 DEF ProvisionRefused, Held
  <2> QED
    BY <1>9, <2>1, OneGoes DEF ProvisionRefused
<1>10. CASE Sweep(w)
  <2>1. PICK p \in Plans : /\ Overdue(p)
                           /\ Goes(w, [pc |-> "read", plan |-> p, baseline |-> submission[p].baseline])
    BY <1>10 DEF Sweep
  <2> DEFINE m == [pc |-> "read", plan |-> p, baseline |-> submission[p].baseline]
  <2>2. submission[p].baseline \in Baselines
    BY Zenon, <1>2, <2>1 DEF Overdue, Says, Reported
  <2>3. Held(erp', m)
    BY <2>2 DEF Held
  <2> QED
    BY <2>1, <2>3, OneGoes
<1>11. CASE ReadOperation(w)
  <2> DEFINE k == <<me.plan, me.baseline>>
             m == [pc |-> "apply", plan |-> me.plan, baseline |-> me.baseline,
                   revision |-> Revision(k), state |-> State(k)]
  <2>1. me.plan \in Plans /\ me.baseline \in Baselines
    BY <1>1, <1>11 DEF ReadOperation, Held
  <2>2. k \in Operations /\ erp[k] # <<>> /\ erp' = erp
    BY <1>11, <2>1 DEF ReadOperation, Operations, erpVars
  <2>3. erp[k] \in Seq(ErpStates)
    BY <1>2, <2>2 DEF Histories
  <2>4. Len(erp[k]) >= 1 /\ Len(erp[k]) \in Nat
    BY <2>2, <2>3
  <2>5. Reported(erp', m.plan, m.baseline, m.revision, m.state)
    <3>1. Len(erp[k]) \in 1..Len(erp[k])
      BY <2>4
    <3>2. Reported(erp, me.plan, me.baseline, Len(erp[k]), erp[k][Len(erp[k])])
      BY <2>1, <3>1, SMTT(30) DEF Reported
    <3> QED
      BY <2>2, <3>2, Zenon DEF Revision, State
  <2>6. Held(erp', m)
    BY <2>1, <2>5 DEF Held
  <2>7. Goes(w, m)
    BY Zenon, <1>11 DEF ReadOperation
  <2> QED
    BY <2>6, <2>7, OneGoes
<1> QED
  BY <1>3, <1>4, <1>5, <1>6, <1>7, <1>8, <1>9, <1>10, <1>11
     DEF WorkerStep, SubmitStep, ProvisionFails, DiscardIntent, RecordSubmission, Record, Fails

\* Receipts and passes stay true while the inbox is left alone.
LEMMA InboxStays ==
  ASSUME LedgerInv, StoreStep
  PROVE  /\ \A q \in Processors : Passes(erp', submission', processor[q])
         /\ \A e \in pending : Published(erp', e)
         /\ \A e \in applied : Recorded(submission', e)
<1>1. /\ erp \in Histories /\ erp' \in Histories /\ Extends(erp, erp')
      /\ submission \in Submissions /\ submission' \in Submissions
      /\ Forward(submission, submission')
  BY DEF LedgerInv, StoreInv, StoreStep
<1>2. /\ \A q \in Processors : Passes(erp, submission, processor[q])
      /\ \A e \in pending : Published(erp, e)
      /\ \A e \in applied : Recorded(submission, e)
  BY DEF LedgerInv, InboxInv
<1> QED
  BY <1>1, <1>2, PublishedStays, RecordedStays, PassesStays

\* One processor's pass goes on with true facts; receipts are of published
\* events, and those applied are recorded.
LEMMA OnePasses ==
  ASSUME LedgerInv, StoreStep, NEW q \in Processors, NEW m, Passes(erp', submission', m),
         processor' = [processor EXCEPT ![q] = m],
         pending' \subseteq pending,
         \A e \in applied' : e \in applied \/ Recorded(submission', e)
  PROVE  InboxInv'
<1>1. processor = [r \in Processors |-> processor[r]]
  BY DEF LedgerInv, InboxInv
<1>2. /\ processor' = [r \in Processors |-> processor'[r]]
      /\ processor'[q] = m
      /\ \A r \in Processors : r # q => processor'[r] = processor[r]
  BY <1>1
<1> QED
  BY <1>2, InboxStays DEF InboxInv

\* The rest of a batch is as true as the batch.
LEMMA ContinuePasses ==
  ASSUME LedgerInv, StoreStep, NEW q \in Processors, processor[q].pc = "mark", Continue(q)
  PROVE  \E m : Passes(erp', submission', m) /\ processor' = [processor EXCEPT ![q] = m]
<1>1. \A e \in processor[q].batch : Published(erp', e)
  BY InboxStays DEF Passes
<1>2. CASE processor[q].batch = {}
  <2> DEFINE m == [pc |-> "purge"]
  <2>1. Passes(erp', submission', m)
    BY DEF Passes
  <2>2. processor' = [processor EXCEPT ![q] = m]
    BY <1>2 DEF Continue
  <2> QED
    BY Zenon, <2>1, <2>2
<1>3. CASE processor[q].batch # {}
  <2> DEFINE m == [pc |-> "batch", batch |-> processor[q].batch]
  <2>1. Passes(erp', submission', m)
    BY <1>1 DEF Passes
  <2>2. processor' = [processor EXCEPT ![q] = m]
    BY Zenon, <1>3 DEF Continue
  <2> QED
    BY Zenon, <2>1, <2>2
<1> QED
  BY <1>2, <1>3

\* A handler that returns without error has recorded its event.
LEMMA AppliedIsRecorded ==
  ASSUME LedgerInv, NEW e, Published(erp, e), submission[e[1][1]].baseline = e[1][2],
         submission' = Advanced(e[1][1], e[1][2], e[2], erp[e[1]][e[2]])
  PROVE  Recorded(submission', e)
<1> DEFINE p == e[1][1]
<1>1. p \in Plans /\ e[1] \in Operations
  BY DEF Published, Operations
<1>2. Len(erp[e[1]]) \in Nat
  <2>1. erp[e[1]] \in Seq(ErpStates)
    BY <1>1, SMTT(30) DEF LedgerInv, StoreInv, Histories
  <2> QED
    BY <2>1
<1>3. e[2] \in Nat
  BY <1>2 DEF Published
<1>4. submission \in Submissions /\ submission[p] \in [baseline : 0..MaxBaseline, revision : Nat, state : ErpStates]
  BY <1>1 DEF LedgerInv, StoreInv, Submissions
<1>5. CASE submission[p].revision < e[2]
  <2>1. submission' = [submission EXCEPT ![p].revision = e[2], ![p].state = erp[e[1]][e[2]]]
    BY <1>5 DEF Advanced
  <2>2. submission'[p].baseline = submission[p].baseline /\ submission'[p].revision = e[2]
    BY <1>1, <1>4, <2>1 DEF Submissions
  <2>3. submission'[p].revision >= e[2]
    BY <1>3, <2>2, SMTT(30)
  <2> QED
    BY <1>1, <1>3, <2>2, <2>3, Zenon DEF Recorded
<1>6. CASE ~(submission[p].revision < e[2])
  <2>1. submission' = submission
    BY <1>6 DEF Advanced
  <2> QED
    BY <1>1, <1>3, <1>4, <1>6, <2>1 DEF Recorded
<1> QED
  BY <1>5, <1>6

\* A processor's step.
LEMMA ProcessInbox ==
  ASSUME LedgerInv, StoreStep, NEW q \in Processors, Process(q)
  PROVE  InboxInv'
<1>1. Passes(erp, submission, processor[q])
  BY DEF LedgerInv, InboxInv
<1>2. ASSUME processor[q].pc = "batch", NEW e \in processor[q].batch, NEW result, Handled(q, e, result),
             result = "applied" => Recorded(submission', e)
      PROVE  InboxInv'
  <2> DEFINE m == [pc |-> "mark", event |-> e, result |-> result, batch |-> processor[q].batch \ {e}]
  <2>1. \A f \in processor[q].batch : Published(erp', f)
    BY <1>2, InboxStays DEF Passes
  <2>2. Passes(erp', submission', m)
    BY <1>2, <2>1 DEF Passes
  <2>3. processor' = [processor EXCEPT ![q] = m] /\ pending' = pending /\ applied' = applied
    BY <1>2 DEF Handled
  <2> HIDE DEF m
  <2> QED
    BY Zenon, <2>2, <2>3, OnePasses
<1>3. ASSUME processor[q].pc = "batch", NEW e \in processor[q].batch, ApplyEvent(q, e)
      PROVE  InboxInv'
  <2>1. Published(erp, e)
    BY <1>1, <1>3 DEF Passes
  <2>2. CASE /\ submission[e[1][1]].baseline = e[1][2]
             /\ submission' = Advanced(e[1][1], e[1][2], e[2], erp[e[1]][e[2]])
             /\ Handled(q, e, "applied")
    BY <1>2, <1>3, <2>1, <2>2, AppliedIsRecorded
  <2>3. CASE Handled(q, e, "error")
    BY <1>2, <1>3, <2>3
  <2> QED
    BY <1>3, <2>2, <2>3 DEF ApplyEvent
<1>4. ASSUME processor[q].pc = "batch", NEW e \in processor[q].batch, EventDisagrees(q, e)
      PROVE  InboxInv'
  BY <1>2, <1>4 DEF EventDisagrees
<1>5. CASE Due(q)
  <2>1. PICK batch \in SUBSET pending : processor' = [processor EXCEPT ![q] =
          IF batch = {} THEN [pc |-> "purge"] ELSE [pc |-> "batch", batch |-> batch]]
    BY Zenon, <1>5 DEF Due
  <2> DEFINE m == IF batch = {} THEN [pc |-> "purge"] ELSE [pc |-> "batch", batch |-> batch]
  <2>2. \A e \in batch : Published(erp', e)
    BY InboxStays
  <2>3. Passes(erp', submission', m)
    BY <2>2 DEF Passes
  <2> QED
    BY <1>5, <2>1, <2>3, OnePasses DEF Due
<1>6. CASE MarkApplied(q)
  <2>1. Recorded(submission', processor[q].event)
    BY <1>6, InboxStays DEF MarkApplied, Passes
  <2>2. PICK m : Passes(erp', submission', m) /\ processor' = [processor EXCEPT ![q] = m]
    BY <1>6, ContinuePasses DEF MarkApplied
  <2>3. /\ pending' \subseteq pending
        /\ \A e \in applied' : e \in applied \/ Recorded(submission', e)
    BY <1>6, <2>1 DEF MarkApplied
  <2> QED
    BY Zenon, <2>2, <2>3, OnePasses
<1>7. CASE MarkDeadLetter(q) \/ MarkRetry(q)
  <2>1. PICK m : Passes(erp', submission', m) /\ processor' = [processor EXCEPT ![q] = m]
    BY <1>7, ContinuePasses DEF MarkDeadLetter, MarkRetry
  <2>2. pending' \subseteq pending /\ applied' = applied
    BY <1>7 DEF MarkDeadLetter, MarkRetry
  <2> QED
    BY Zenon, <2>1, <2>2, OnePasses
<1>8. CASE Purge(q) \/ PassEnds(q)
  <2>1. Passes(erp', submission', NoPass)
    BY DEF Passes, NoPass
  <2>2. /\ processor' = [processor EXCEPT ![q] = NoPass]
        /\ pending' = pending /\ applied' \subseteq applied
    BY <1>8 DEF Purge, PassEnds
  <2> QED
    BY Zenon, <2>1, <2>2, OnePasses
<1> QED
  BY <1>3, <1>4, <1>5, <1>6, <1>7, <1>8 DEF Process, Mark

\* A delivery.
LEMMA DeliverInbox ==
  ASSUME LedgerInv, StoreStep, NEW k \in Operations, Deliver(k)
  PROVE  InboxInv'
<1>1. PICK n \in 1..Revision(k) : Accept(<<k, n>>)
  BY DEF Deliver
<1>2. erp' = erp
  BY DEF Deliver, erpVars
<1>3. Published(erp', <<k, n>>)
  BY <1>1, <1>2 DEF Published, Revision
<1>4. /\ processor' = processor /\ applied' = applied
      /\ pending' = pending \cup {<<k, n>>}
  BY <1>1 DEF Accept
<1>5. processor = [r \in Processors |-> processor[r]]
  BY DEF LedgerInv, InboxInv
<1> QED
  BY <1>3, <1>4, <1>5, InboxStays DEF InboxInv

-----------------------------------------------------------------------------
(* The invariant *)

\* Before the first request, every copy is empty.
LEMMA LedgerInitially == Init => LedgerInv
<1> SUFFICES ASSUME Init PROVE LedgerInv
  OBVIOUS
<1>1. "open" \in ErpStates
  BY DEF ErpStates
<1>2. effective \in Baselines /\ 0 \in 0..MaxBaseline
  BY ErpAssumption DEF Init, Baselines
<1>3. <<>> \in Seq(ErpStates)
  OBVIOUS
<1>4. erp \in Histories
  BY <1>3 DEF Init, Histories
<1>5. intent \in [Plans -> 0..MaxBaseline]
  BY <1>2 DEF Init
<1>6. submission \in Submissions /\ Says(submission, erp)
  BY <1>1, <1>2 DEF Init, NoSubmission, Submissions, Says
<1>7. MemoryInv
  BY IdleHeld DEF Init, MemoryInv
<1>8. InboxInv
  BY DEF Init, InboxInit, InboxInv, Passes, NoPass
<1> QED
  BY <1>2, <1>4, <1>5, <1>6, <1>7, <1>8 DEF LedgerInv, StoreInv

\* Every step keeps the invariant and moves the ledger forward.
LEMMA LedgerStep ==
  ASSUME LedgerInv, [Next]_vars
  PROVE  LedgerInv' /\ Forward(submission, submission')
<1>1. StoreStep
  BY NextStores
<1>2. MemoryInv'
  <2>1. ASSUME NEW w \in Workers, WorkerStep(w) PROVE MemoryInv'
    BY <1>1, <2>1, WorkerMemory
  <2>2. CASE UNCHANGED worker
    BY <1>1, <2>2, NoneGoes
  <2> QED
    BY <2>1, <2>2
       DEF Next, FinanceSupersedes, ErpAdvances, ErpReceivesLate, Deliver, SubmissionAges,
           Process, ApplyEvent, EventDisagrees, vars
<1>3. InboxInv'
  <2>1. ASSUME NEW q \in Processors, Process(q) PROVE InboxInv'
    BY <1>1, <2>1, ProcessInbox
  <2>2. ASSUME NEW k \in Operations, Deliver(k) PROVE InboxInv'
    BY <1>1, <2>2, DeliverInbox
  <2>3. CASE UNCHANGED inboxVars
    <3>1. processor = [r \in Processors |-> processor[r]]
      BY DEF LedgerInv, InboxInv
    <3> QED
      BY <1>1, <2>3, <3>1, InboxStays DEF InboxInv, inboxVars
  <2>4. ASSUME NEW w \in Workers, WorkerStep(w) PROVE UNCHANGED inboxVars
    BY Zenon, <2>4 DEF WorkerStep, SubmitStep, Submit, ReadIntent, ResolveBaselines, RecordIntent,
        RereadIntent, Provision, ProvisionRefused, ProvisionFails, DiscardIntent,
        RecordSubmission, Sweep, ReadOperation, Record, Fails
  <2> QED
    BY <2>1, <2>2, <2>3, <2>4
       DEF Next, FinanceSupersedes, ErpAdvances, ErpReceivesLate, SubmissionAges, vars
<1> QED
  BY <1>1, <1>2, <1>3 DEF LedgerInv, StoreStep

\* Every copy of an operation's progress, in the ledger, in memory and in
\* receipts, is one that ERP reported.
THEOREM LedgerInvariant == Spec => []LedgerInv
<1>1. Init => LedgerInv
  BY LedgerInitially
<1>2. LedgerInv /\ [Next]_vars => LedgerInv'
  BY LedgerStep
<1> QED
  BY <1>1, <1>2, PTL DEF Spec

\* The ledger reports ERP (Submitted, Apply): the recorded revision of every
\* recorded operation has at ERP the recorded state, with any number of
\* replicas that submit, sweep and apply events.
THEOREM LedgerAlwaysReportsErp == Spec => []LedgerReportsErp
<1>1. LedgerInv => LedgerReportsErp
  BY Zenon DEF LedgerInv, StoreInv, Says, Reported, LedgerReportsErp
<1> QED
  BY <1>1, LedgerInvariant, PTL

\* An applied receipt took effect (RunOnce, MarkApplied), however many
\* processors read the same events and whoever applied a later one.
THEOREM AppliedEventsAlwaysRecorded == Spec => []AppliedEventsAreRecorded
<1>1. LedgerInv => AppliedEventsAreRecorded
  BY DEF LedgerInv, InboxInv, Recorded, AppliedEventsAreRecorded
<1> QED
  BY <1>1, LedgerInvariant, PTL

\* A submission is fixed and its progress only moves forward (migration 95),
\* under events out of order, stale reads of the sweep and replays.
THEOREM ProgressAlwaysForward == Spec => ProgressMovesForward
<1>1. LedgerInv /\ [Next]_vars =>
        [\A p \in Plans : submission[p] # NoSubmission =>
           /\ submission'[p].baseline = submission[p].baseline
           /\ submission'[p].revision >= submission[p].revision
           /\ submission'[p].revision = submission[p].revision =>
                submission'[p].state = submission[p].state]_vars
  BY LedgerStep DEF Forward
<1> QED
  BY <1>1, LedgerInvariant, PTL DEF Spec, ProgressMovesForward

-----------------------------------------------------------------------------
(* Types *)

\* Histories are bounded, requests name operations, and a receipt has one
\* status.
RestInv ==
  /\ \A k \in Operations : Len(erp[k]) <= MaxRevision
  /\ delayed \subseteq Operations /\ aged \subseteq Plans
  /\ pending \cap applied = {} /\ pending \cap dead = {} /\ applied \cap dead = {}

\* Accepting an operation keeps ERP's histories within their bound.
LEMMA AcceptedBounded ==
  ASSUME StoreInv, RestInv, NEW k \in Operations
  PROVE  \A j \in Operations : Len(Accepted(k)[j]) <= MaxRevision
<1>1. CASE erp[k] # <<>>
  BY <1>1 DEF Accepted, RestInv
<1>2. CASE erp[k] = <<>>
  <2>1. /\ Accepted(k)[k] = <<"open">>
        /\ \A j \in Operations : j # k => Accepted(k)[j] = erp[j]
    BY <1>2 DEF Accepted, StoreInv, Histories
  <2>2. Len(<<"open">>) <= MaxRevision
    BY ErpAssumption
  <2> QED BY Zenon, <2>1, <2>2 DEF RestInv
<1> QED BY <1>1, <1>2

\* Every history of ERP stays within the bound.
LEMMA BoundedNext ==
  ASSUME LedgerInv, RestInv, [Next]_vars
  PROVE  \A j \in Operations : Len(erp'[j]) <= MaxRevision
<1>1. CASE erp' = erp
  BY <1>1 DEF RestInv
<1>2. ASSUME NEW k \in Operations, erp' = Accepted(k)
      PROVE  \A j \in Operations : Len(erp'[j]) <= MaxRevision
  BY <1>2, AcceptedBounded DEF LedgerInv
<1>3. ASSUME NEW k \in Operations, ErpAdvances(k)
      PROVE  \A j \in Operations : Len(erp'[j]) <= MaxRevision
  <2>1. erp[k] \in Seq(ErpStates) /\ Len(erp[k]) < MaxRevision
    BY <1>3 DEF ErpAdvances, Revision, LedgerInv, StoreInv, Histories
  <2>2. PICK s \in ErpStates : erp' = [erp EXCEPT ![k] = Append(@, s)]
    BY Zenon, <1>3 DEF ErpAdvances, ErpStates
  <2>3. Len(Append(erp[k], s)) <= MaxRevision
    <3>1. Len(Append(erp[k], s)) = Len(erp[k]) + 1 /\ Len(erp[k]) \in Nat
      BY <2>1
    <3> QED BY <2>1, <3>1, ErpAssumption
  <2>4. erp'[k] = Append(erp[k], s) /\ \A j \in Operations : j # k => erp'[j] = erp[j]
    BY <2>2 DEF LedgerInv, StoreInv, Histories
  <2> QED BY <2>3, <2>4 DEF RestInv
<1>4. ASSUME NEW k \in Operations, ErpReceivesLate(k)
      PROVE  \A j \in Operations : Len(erp'[j]) <= MaxRevision
  BY <1>1, <1>2, <1>4 DEF ErpReceivesLate
<1>5. ASSUME NEW w \in Workers, WorkerStep(w)
      PROVE  \A j \in Operations : Len(erp'[j]) <= MaxRevision
  <2>1. CASE Provision(w)
    <3>1. <<worker[w].plan, worker[w].baseline>> \in Operations
      BY <2>1 DEF Provision, LedgerInv, MemoryInv, Held, Operations
    <3> QED BY Zenon, <1>2, <2>1, <3>1 DEF Provision
  <2>2. CASE ~Provision(w)
    <3>1. erp' = erp
      BY Zenon, <1>5, <2>2 DEF WorkerStep, SubmitStep, Submit, ReadIntent, ResolveBaselines, RecordIntent,
         RereadIntent, ProvisionRefused, ProvisionFails, DiscardIntent, RecordSubmission, Sweep,
         ReadOperation, Record, Fails, erpVars
    <3> QED BY <1>1, <3>1
  <2> QED BY <2>1, <2>2
<1> QED BY <1>1, <1>3, <1>4, <1>5
    DEF Next, FinanceSupersedes, Deliver, SubmissionAges, Process, ApplyEvent, EventDisagrees, erpVars, vars

\* A request given up is one for an operation.
LEMMA DelayedNext ==
  ASSUME LedgerInv, RestInv, [Next]_vars
  PROVE  delayed' \subseteq Operations /\ aged' \subseteq Plans
<1>1. CASE UNCHANGED <<delayed, aged>>
  BY <1>1 DEF RestInv
<1>2. ASSUME NEW w \in Workers, ProvisionFails(w) PROVE delayed' \subseteq Operations /\ aged' = aged
  <2>1. <<worker[w].plan, worker[w].baseline>> \in Operations
    BY <1>2 DEF ProvisionFails, LedgerInv, MemoryInv, Held, Operations
  <2> QED BY <1>2, <2>1 DEF ProvisionFails, RestInv, ledgerVars
<1>3. ASSUME NEW k \in Operations, ErpReceivesLate(k) PROVE delayed' \subseteq Operations /\ aged' = aged
  BY <1>3 DEF ErpReceivesLate, RestInv, ledgerVars
<1>4. ASSUME NEW p \in Plans, SubmissionAges(p) PROVE aged' \subseteq Plans /\ delayed' = delayed
  BY <1>4 DEF SubmissionAges, RestInv, erpVars
<1>5. ASSUME NEW w \in Workers, WorkerStep(w), ~ProvisionFails(w) PROVE UNCHANGED <<delayed, aged>>
  BY ZenonT(30), <1>5 DEF WorkerStep, SubmitStep, Submit, ReadIntent, ResolveBaselines, RecordIntent,
     RereadIntent, Provision, ProvisionRefused, DiscardIntent, RecordSubmission, Sweep,
     ReadOperation, Record, Fails, erpVars, ledgerVars
<1>6. ASSUME NEW q \in Processors, Process(q) PROVE UNCHANGED <<delayed, aged>>
  BY ZenonT(30), <1>6 DEF Process, ApplyEvent, EventDisagrees, erpVars, ledgerVars
<1>7. CASE FinanceSupersedes \/ (\E k \in Operations : ErpAdvances(k) \/ Deliver(k)) \/ UNCHANGED vars
  BY Zenon, <1>1, <1>7 DEF FinanceSupersedes, ErpAdvances, Deliver, erpVars, ledgerVars, vars
<1> QED BY <1>1, <1>2, <1>3, <1>4, <1>5, <1>6, <1>7 DEF Next, RestInv

\* A receipt changes status, and never has two.
LEMMA ReceiptsNext ==
  ASSUME RestInv, [Next]_vars
  PROVE  pending' \cap applied' = {} /\ pending' \cap dead' = {} /\ applied' \cap dead' = {}
<1> DEFINE Apart == pending' \cap applied' = {} /\ pending' \cap dead' = {} /\ applied' \cap dead' = {}
<1> SUFFICES Apart
  OBVIOUS
<1>1. CASE UNCHANGED <<pending, applied, dead>>
  BY <1>1 DEF RestInv
<1>2. ASSUME NEW k \in Operations, Deliver(k) PROVE Apart
  <2>1. PICK n \in 1..Revision(k) : Accept(<<k, n>>)
    BY <1>2 DEF Deliver
  <2> QED BY <2>1 DEF Accept, RestInv
<1>3. ASSUME NEW q \in Processors, Process(q) PROVE Apart
  <2>1. CASE MarkApplied(q)
    BY <2>1 DEF MarkApplied, RestInv
  <2>2. CASE MarkDeadLetter(q)
    BY <2>2 DEF MarkDeadLetter, RestInv
  <2>3. CASE Purge(q)
    BY <2>3 DEF Purge, RestInv
  <2> QED BY <1>1, <1>3, <2>1, <2>2, <2>3
      DEF Process, ApplyEvent, EventDisagrees, Handled, Due, Mark, MarkRetry, PassEnds
<1>4. ASSUME NEW w \in Workers, WorkerStep(w) PROVE UNCHANGED <<pending, applied, dead>>
  BY Zenon, <1>4 DEF WorkerStep, SubmitStep, Submit, ReadIntent, ResolveBaselines, RecordIntent,
     RereadIntent, Provision, ProvisionRefused, ProvisionFails, DiscardIntent, RecordSubmission, Sweep,
     ReadOperation, Record, Fails, inboxVars
<1>5. CASE FinanceSupersedes \/ (\E k \in Operations : ErpAdvances(k) \/ ErpReceivesLate(k))
             \/ (\E p \in Plans : SubmissionAges(p)) \/ UNCHANGED vars
  BY <1>1, <1>5 DEF FinanceSupersedes, ErpAdvances, ErpReceivesLate, SubmissionAges, inboxVars, vars
<1> QED BY <1>1, <1>2, <1>3, <1>4, <1>5 DEF Next

\* The ledger's rows are well-formed (TypeOK), and a receipt has one status
\* however often its event is delivered and whoever marks it.
THEOREM LedgerTyped == Spec => []TypeOK
<1>1. Init => RestInv
  <2> SUFFICES ASSUME Init PROVE RestInv
    OBVIOUS
  <2>1. \A k \in Operations : erp[k] = <<>>
    BY DEF Init
  <2>2. Len(<<>>) <= MaxRevision
    BY ErpAssumption
  <2> QED BY <2>1, <2>2 DEF Init, InboxInit, RestInv
<1>2. LedgerInv /\ RestInv /\ [Next]_vars => RestInv'
  <2> SUFFICES ASSUME LedgerInv, RestInv, [Next]_vars PROVE RestInv'
    OBVIOUS
  <2> QED BY BoundedNext, DelayedNext, ReceiptsNext DEF RestInv
<1>3. LedgerInv /\ RestInv => TypeOK
  <2> SUFFICES ASSUME LedgerInv, RestInv PROVE TypeOK
    OBVIOUS
  <2>1. submission \in [Plans -> [baseline : 0..MaxBaseline, revision : 0..MaxRevision, state : ErpStates]]
    <3>1. submission \in Submissions
      BY DEF LedgerInv, StoreInv
    <3> SUFFICES ASSUME NEW p \in Plans PROVE submission[p].revision \in 0..MaxRevision
      BY <3>1 DEF Submissions
    <3>2. CASE submission[p] = NoSubmission
      BY <3>2, ErpAssumption DEF NoSubmission
    <3>3. CASE submission[p] # NoSubmission
      <4> DEFINE k == <<p, submission[p].baseline>>
                 n == submission[p].revision
      <4>1. k \in Operations /\ n \in 1..Len(erp[k])
        BY Zenon, <3>3 DEF LedgerInv, StoreInv, Says, Reported, Operations
      <4>2. erp[k] \in Seq(ErpStates)
        BY <4>1 DEF LedgerInv, StoreInv, Histories
      <4>3. Len(erp[k]) \in Nat /\ Len(erp[k]) <= MaxRevision
        BY <4>1, <4>2 DEF RestInv
      <4> HIDE DEF k, n
      <4>4. n \in 0..MaxRevision
        BY <4>1, <4>3, ErpAssumption
      <4> QED BY <4>4 DEF n
    <3> QED BY <3>2, <3>3
  <2>2. \A w \in Workers :
          /\ worker[w].pc # "idle" => worker[w].plan \in Plans
          /\ worker[w].pc \in {"record", "provision", "submitted", "read", "apply"} =>
               worker[w].baseline \in Baselines
    BY DEF LedgerInv, MemoryInv, Held
  <2> QED BY <2>1, <2>2 DEF LedgerInv, StoreInv, Histories, RestInv, TypeOK
<1> QED BY <1>1, <1>2, <1>3, LedgerInvariant, PTL DEF Spec

\* The ledger keeps what it promises (ErpPromises), for any number of plans,
\* submitters, sweepers and processors.
THEOREM LedgerKeepsPromises == Spec => ErpPromises
BY LedgerTyped, LedgerAlwaysReportsErp, AppliedEventsAlwaysRecorded, ProgressAlwaysForward, PTL
   DEF ErpPromises

-----------------------------------------------------------------------------
(* What an intent achieves *)

\* ERP, with history h and baseline f in force, refuses k from now on.
Refuses(h, f, k) == h[k] = <<>> /\ k[2] < f

\* Request k does no harm, whenever it arrives: intent i names it, so the next
\* Submit of the plan is answered with its operation, or ERP refuses it.
Accounted(i, h, f, k) == i[k[1]] = k[2] \/ Refuses(h, f, k)

\* The request of a submitter's memory m, if it is about to send one, is
\* accounted for.
Sends(i, h, f, m) == m.pc = "provision" => Accounted(i, h, f, <<m.plan, m.baseline>>)

IntentInv ==
  /\ delayed \subseteq Operations
  /\ \A p \in Plans : submission[p].baseline \in {0, intent[p]}
  /\ \A k \in Operations : erp[k] # <<>> => intent[k[1]] = k[2]
  /\ \A k \in delayed : Accounted(intent, erp, effective, k)
  /\ \A s \in Submitters : Sends(intent, erp, effective, worker[s])

\* A step leaves accounted for what was, and every operation and submission
\* there is is the intent's.
Accounts ==
  /\ \A p \in Plans : submission'[p].baseline \in {0, intent'[p]}
  /\ \A k \in Operations : erp'[k] # <<>> => intent'[k[1]] = k[2]
  /\ \A k \in Operations : Accounted(intent, erp, effective, k) =>
                           Accounted(intent', erp', effective', k)

\* A request that is given up is accounted for.
DelaysAccounted ==
  /\ delayed' \subseteq Operations
  /\ \A k \in delayed' : k \in delayed \/ Accounted(intent', erp', effective', k)

\* Under such a step, what the other submitters are about to send stays
\* accounted for.
LEMMA OthersSend ==
  ASSUME LedgerInv, IntentInv, Accounts
  PROVE  \A s \in Submitters : Sends(intent', erp', effective', worker[s])
<1> SUFFICES ASSUME NEW s \in Submitters, worker[s].pc = "provision"
             PROVE  Accounted(intent', erp', effective', <<worker[s].plan, worker[s].baseline>>)
  BY DEF Sends
<1> DEFINE k == <<worker[s].plan, worker[s].baseline>>
<1>1. Held(erp, worker[s]) /\ Sends(intent, erp, effective, worker[s])
  BY DEF LedgerInv, MemoryInv, IntentInv, Workers
<1>2. k \in Operations
  BY <1>1 DEF Held, Operations
<1>3. Accounted(intent, erp, effective, k)
  BY <1>1 DEF Sends
<1> HIDE DEF k
<1>4. Accounted(intent', erp', effective', k)
  BY <1>2, <1>3 DEF Accounts
<1> QED
  BY <1>4 DEF k

\* A step that moves no worker.
LEMMA NoneMoves ==
  ASSUME LedgerInv, IntentInv, Accounts, DelaysAccounted, UNCHANGED worker
  PROVE  IntentInv'
<1>1. \A s \in Submitters : Sends(intent', erp', effective', worker'[s])
  BY OthersSend
<1>2. \A k \in delayed' : Accounted(intent', erp', effective', k)
  BY DEF IntentInv, Accounts, DelaysAccounted
<1> QED
  BY <1>1, <1>2 DEF IntentInv, Accounts, DelaysAccounted

\* A step that moves one worker.
LEMMA OneMoves ==
  ASSUME LedgerInv, IntentInv, Accounts, DelaysAccounted, NEW w \in Workers, NEW m, Goes(w, m),
         Sends(intent', erp', effective', m)
  PROVE  IntentInv'
<1>1. worker = [v \in Workers |-> worker[v]]
  BY DEF LedgerInv, MemoryInv
<1>2. \A s \in Submitters : worker'[s] = IF s = w THEN m ELSE worker[s]
  BY <1>1 DEF Goes, Workers
<1>3. \A s \in Submitters : Sends(intent', erp', effective', worker'[s])
  BY <1>2, OthersSend
<1>4. \A k \in delayed' : Accounted(intent', erp', effective', k)
  BY DEF IntentInv, Accounts, DelaysAccounted
<1> QED
  BY <1>3, <1>4 DEF IntentInv, Accounts, DelaysAccounted

-----------------------------------------------------------------------------
(* Steps that record no intent, discard none and record no submission *)

\* Ledger u names the operations ledger t does.
SameOperations(t, u) == \A p \in Plans : u[p].baseline = t[p].baseline

\* ERP goes on from (h, f) to (g, e): it refuses what it refused, and starts
\* only operations that intent i names.
GoesOn(i, h, f, g, e) ==
  /\ \A k \in Operations : Refuses(h, f, k) => Refuses(g, e, k)
  /\ \A k \in Operations : g[k] # <<>> => h[k] # <<>> \/ i[k[1]] = k[2]

\* The requests stay accounted for when only ERP and Finance move on.
LEMMA QuietStep ==
  ASSUME IntentInv, UNCHANGED intent, SameOperations(submission, submission'),
         GoesOn(intent, erp, effective, erp', effective')
  PROVE  Accounts
BY DEF Accounts, Accounted, GoesOn, IntentInv, SameOperations

\* An ERP that stands still goes on.
LEMMA NothingHappens == GoesOn(intent, erp, effective, erp, effective)
BY DEF GoesOn

\* In the ledger, a plan without a submission is one without a baseline.
LEMMA NoSubmissionIsZero ==
  ASSUME LedgerInv, NEW p \in Plans
  PROVE  submission[p] = NoSubmission <=> submission[p].baseline = 0
<1>1. submission[p] # NoSubmission => submission[p].baseline \in Baselines
  BY ZenonT(30) DEF LedgerInv, StoreInv, Says, Reported
<1>2. NoSubmission.baseline = 0
  BY DEF NoSubmission
<1> QED
  BY <1>1, <1>2 DEF Baselines

\* Apply changes the operation of no plan.
LEMMA AdvancedSameOperations ==
  ASSUME LedgerInv, NEW p, NEW b, NEW n, NEW r
  PROVE  SameOperations(submission, Advanced(p, b, n, r))
<1>1. submission \in Submissions
  BY DEF LedgerInv, StoreInv
<1> SUFFICES ASSUME NEW x \in Plans
             PROVE  Advanced(p, b, n, r)[x].baseline = submission[x].baseline
  BY DEF SameOperations
<1>2. submission[x] \in [baseline : 0..MaxBaseline, revision : Nat, state : ErpStates]
  BY <1>1 DEF Submissions
<1>3. [submission EXCEPT ![p].revision = n, ![p].state = r][x].baseline = submission[x].baseline
  BY <1>1, <1>2 DEF Submissions
<1> QED
  BY <1>3 DEF Advanced

\* A step of ERP's that starts the operation of request k, if any, starts one
\* that the intent names, for others are refused.
LEMMA StartsNamed ==
  ASSUME LedgerInv, NEW k \in Operations, Acceptable(k), Accounted(intent, erp, effective, k)
  PROVE  GoesOn(intent, erp, effective, Accepted(k), effective)
<1>1. effective \in Baselines /\ erp \in Histories
  BY DEF LedgerInv, StoreInv
<1>2. \A j \in Operations : j # k => Accepted(k)[j] = erp[j]
  BY <1>1 DEF Accepted, Histories
<1>3. ~Refuses(erp, effective, k)
  BY <1>1, ErpAssumption DEF Acceptable, Refuses, Operations, Baselines
<1>4. intent[k[1]] = k[2]
  BY <1>3 DEF Accounted
<1>5. ASSUME NEW j \in Operations
      PROVE  /\ Refuses(erp, effective, j) => Refuses(Accepted(k), effective, j)
             /\ Accepted(k)[j] # <<>> => erp[j] # <<>> \/ intent[j[1]] = j[2]
  BY <1>2, <1>3, <1>4 DEF Refuses
<1> QED
  BY <1>5 DEF GoesOn

-----------------------------------------------------------------------------
(* Submit *)

\* The intent recorded replaces none.
LEMMA RecordIntentAccounts ==
  ASSUME LedgerInv, IntentInv, NEW w \in Submitters, RecordIntent(w)
  PROVE  Accounts
<1>1. /\ Held(erp, worker[w]) /\ intent \in [Plans -> 0..MaxBaseline]
  BY DEF LedgerInv, StoreInv, MemoryInv, Workers
<1>2. worker[w].plan \in Plans /\ UNCHANGED <<effective, erp, submission>>
  BY <1>1 DEF RecordIntent, Held, erpVars
<1>3. \A r \in Plans : intent[r] # 0 => intent'[r] = intent[r]
  BY <1>1, <1>2 DEF RecordIntent
<1>4. \A k \in Operations : k[1] \in Plans /\ k[2] # 0
  BY ErpAssumption DEF Operations, Baselines
<1> QED
  BY <1>2, <1>3, <1>4 DEF Accounts, Accounted, IntentInv

\* The intent discarded, if any, is one ERP refuses from now on.
LEMMA DiscardIntentAccounts ==
  ASSUME LedgerInv, IntentInv, NEW w \in Submitters, DiscardIntent(w), DiscardsOnlyRefused
  PROVE  Accounts
<1> DEFINE p == worker[w].plan
<1>1. Held(erp, worker[w]) /\ intent \in [Plans -> 0..MaxBaseline]
  BY DEF LedgerInv, StoreInv, MemoryInv, Workers
<1>2. p \in Plans /\ UNCHANGED <<effective, erp, submission>>
  BY <1>1 DEF DiscardIntent, Held, erpVars
<1>3. \/ submission[p] # NoSubmission
      \/ intent[p] = 0
      \/ erp[<<p, intent[p]>>] = <<>> /\ intent[p] < effective
  BY DEF DiscardsOnlyRefused
<1>4. /\ \A r \in Plans : r # p => intent'[r] = intent[r]
      /\ submission[p] # NoSubmission => intent'[p] = intent[p]
  BY <1>1, <1>2 DEF DiscardIntent
<1>5. \A k \in Operations : k = <<k[1], k[2]>> /\ k[1] \in Plans /\ k[2] # 0
  BY ErpAssumption DEF Operations, Baselines
<1>6. submission[p] = NoSubmission => submission[p].baseline = 0
  BY <1>2, NoSubmissionIsZero
<1> HIDE DEF p
<1>7. \A r \in Plans : submission'[r].baseline \in {0, intent'[r]}
  BY <1>2, <1>4, <1>6 DEF IntentInv
<1>8. ASSUME NEW k \in Operations, intent[k[1]] = k[2]
      PROVE  intent'[k[1]] = k[2] \/ Refuses(erp, effective, k)
  <2>1. CASE k[1] # p \/ submission[p] # NoSubmission
    BY <1>4, <1>5, <1>8, <2>1
  <2>2. CASE k[1] = p /\ submission[p] = NoSubmission
    <3>1. k = <<p, intent[p]>> /\ intent[p] # 0 /\ k[2] = intent[p]
      BY <1>5, <1>8, <2>2
    <3>2. erp[k] = <<>> /\ k[2] < effective
      BY Zenon, <1>3, <2>2, <3>1
    <3> QED
      BY <3>2 DEF Refuses
  <2> QED
    BY <2>1, <2>2
<1>9. \A k \in Operations : erp[k] # <<>> => intent'[k[1]] = k[2]
  BY <1>8 DEF Refuses, IntentInv
<1> QED
  BY <1>2, <1>7, <1>8, <1>9 DEF Accounts, Accounted

\* The submission recorded is of an operation ERP has, so the intent names it.
LEMMA RecordSubmissionAccounts ==
  ASSUME LedgerInv, IntentInv, NEW w \in Submitters, RecordSubmission(w)
  PROVE  Accounts
<1> DEFINE me == worker[w]
           p == me.plan
           b == me.baseline
<1>1. Held(erp, me) /\ submission \in Submissions
  BY DEF LedgerInv, StoreInv, MemoryInv, Workers
<1>2. /\ p \in Plans /\ me.pc = "submitted"
      /\ submission' = Submitted(p, b, me.revision, me.state)
      /\ UNCHANGED <<effective, erp, intent>>
  BY <1>1 DEF RecordSubmission, Held, erpVars
<1>3. CASE submission[p] # NoSubmission
  <2>1. SameOperations(submission, submission')
    BY <1>2, <1>3, AdvancedSameOperations DEF Submitted
  <2> QED
    BY <1>2, <2>1, NothingHappens, QuietStep
<1>4. CASE submission[p] = NoSubmission
  <2>1. b \in Baselines /\ Reported(erp, p, b, me.revision, me.state)
    BY <1>1, <1>2 DEF Held
  <2>2. <<p, b>> \in Operations /\ me.revision \in 1..Len(erp[<<p, b>>])
    BY <1>2, <2>1 DEF Reported, Operations
  <2>3. intent[p] = b
    <3> HIDE DEF p, b, me
    <3>1. erp[<<p, b>>] # <<>>
      BY <2>2
    <3> QED
      BY <2>2, <3>1 DEF IntentInv
  <2>4. submission' = [submission EXCEPT ![p] =
          [baseline |-> b, revision |-> me.revision, state |-> me.state]]
    BY ZenonT(30), <1>2, <1>4 DEF Submitted
  <2>5. /\ submission'[p].baseline = b
        /\ \A r \in Plans : r # p => submission'[r] = submission[r]
    <3>1. p \in Plans /\ submission = [r \in Plans |-> submission[r]]
      BY <1>1, <1>2 DEF Submissions
    <3> HIDE DEF p, b, me
    <3> QED
      BY ZenonT(30), <2>4, <3>1
  <2> HIDE DEF p, b, me
  <2>6. \A r \in Plans : submission'[r].baseline \in {0, intent'[r]}
    BY <1>2, <2>3, <2>5 DEF IntentInv
  <2> QED
    BY <1>2, <2>6 DEF Accounts, IntentInv
<1> QED
  BY <1>3, <1>4

\* Every step of a submitter.
LEMMA SubmitKeeps ==
  ASSUME LedgerInv, IntentInv, NEW w \in Submitters, SubmitStep(w), DiscardsOnlyRefused
  PROVE  IntentInv'
<1> DEFINE me == worker[w]
           k == <<me.plan, me.baseline>>
<1>1. Held(erp, me) /\ Sends(intent, erp, effective, me) /\ w \in Workers
  BY DEF LedgerInv, MemoryInv, IntentInv, Workers
<1>2. UNCHANGED delayed => DelaysAccounted
  BY DEF DelaysAccounted, IntentInv
<1>3. UNCHANGED <<effective, erp, intent, submission>> => Accounts
  BY NothingHappens, QuietStep DEF SameOperations
<1>4. ASSUME UNCHANGED delayed, Accounts, NEW m, Goes(w, m), m.pc # "provision"
      PROVE  IntentInv'
  BY <1>1, <1>2, <1>4, OneMoves DEF Sends
<1>5. ASSUME NEW p \in Plans, Submit(w, p)
      PROVE  IntentInv'
  <2> DEFINE m == IF submission[p] = NoSubmission
                    THEN [pc |-> "intent", plan |-> p]
                    ELSE [pc |-> "read", plan |-> p, baseline |-> submission[p].baseline]
  <2>1. m.pc # "provision"
    OBVIOUS
  <2>2. Goes(w, m) /\ UNCHANGED <<effective, erp, intent, submission, delayed>>
    BY <1>5 DEF Submit, erpVars, ledgerVars
  <2> HIDE DEF m
  <2> QED
    BY <1>3, <1>4, <2>1, <2>2
<1>6. ASSUME ReadIntent(w) \/ RereadIntent(w)
      PROVE  IntentInv'
  <2> DEFINE p == me.plan
             m == [pc |-> "provision", plan |-> p, baseline |-> intent[p]]
  <2>1. UNCHANGED <<effective, erp, intent, submission, delayed>>
    BY <1>6 DEF ReadIntent, RereadIntent, erpVars, ledgerVars
  <2>2. Goes(w, m) \/ Goes(w, [pc |-> "resolve", plan |-> p]) \/ Goes(w, Idle)
    BY <1>6 DEF ReadIntent, RereadIntent
  <2>3. Sends(intent', erp', effective', m)
    BY <2>1 DEF Sends, Accounted
  <2>4. [pc |-> "resolve", plan |-> p].pc # "provision" /\ Idle.pc # "provision"
    BY DEF Idle
  <2>5. CASE Goes(w, m)
    <3> HIDE DEF m
    <3> QED
      BY <1>1, <1>2, <1>3, <2>1, <2>3, <2>5, OneMoves
  <2> QED
    BY <1>3, <1>4, <2>1, <2>2, <2>4, <2>5
<1>7. CASE ResolveBaselines(w)
  <2> DEFINE m == [pc |-> "record", plan |-> me.plan, baseline |-> effective]
  <2>1. m.pc # "provision"
    OBVIOUS
  <2>2. Goes(w, m) /\ UNCHANGED <<effective, erp, intent, submission, delayed>>
    BY <1>7 DEF ResolveBaselines, erpVars, ledgerVars
  <2> HIDE DEF m
  <2> QED
    BY <1>3, <1>4, <2>1, <2>2
<1>8. CASE RecordIntent(w)
  <2> DEFINE m == [pc |-> "reread", plan |-> me.plan]
  <2>1. m.pc # "provision"
    OBVIOUS
  <2>2. Goes(w, m) /\ UNCHANGED delayed
    BY <1>8 DEF RecordIntent, erpVars
  <2> HIDE DEF m
  <2> QED
    BY <1>4, <1>8, <2>1, <2>2, RecordIntentAccounts
<1>9. ASSUME me.pc = "provision"
      PROVE  k \in Operations /\ Accounted(intent, erp, effective, k)
  BY <1>1, <1>9 DEF Held, Sends, Operations
<1>10. CASE Provision(w)
  <2> DEFINE m == [pc |-> "submitted", plan |-> me.plan, baseline |-> me.baseline,
                   revision |-> Len(erp'[k]), state |-> erp'[k][Len(erp'[k])]]
  <2>1. /\ me.pc = "provision" /\ Acceptable(k) /\ erp' = Accepted(k) /\ Goes(w, m)
        /\ UNCHANGED <<effective, delayed, intent, submission>>
    BY Zenon, <1>10 DEF Provision, ledgerVars
  <2>2. m.pc # "provision"
    OBVIOUS
  <2> HIDE DEF k, m
  <2>3. GoesOn(intent, erp, effective, erp', effective')
    BY ZenonT(30), <1>9, <2>1, StartsNamed
  <2>4. Accounts
    BY <2>1, <2>3, QuietStep DEF SameOperations
  <2> QED
    BY <1>4, <2>1, <2>2, <2>4
<1>11. CASE ProvisionRefused(w)
  <2> DEFINE m == [pc |-> "discard", plan |-> me.plan]
  <2>1. m.pc # "provision"
    OBVIOUS
  <2>2. Goes(w, m) /\ UNCHANGED <<effective, erp, intent, submission, delayed>>
    BY <1>11 DEF ProvisionRefused, erpVars, ledgerVars
  <2> HIDE DEF m
  <2> QED
    BY <1>3, <1>4, <2>1, <2>2
<1>12. CASE ProvisionFails(w)
  <2>1. /\ me.pc = "provision" /\ delayed' = delayed \cup {k} /\ Goes(w, Idle)
        /\ UNCHANGED <<effective, erp, intent, submission>>
    BY <1>12 DEF ProvisionFails, ledgerVars
  <2>2. Sends(intent', erp', effective', Idle)
    BY DEF Sends, Idle
  <2> HIDE DEF k
  <2>3. DelaysAccounted
    BY <1>9, <2>1 DEF DelaysAccounted, IntentInv
  <2> QED
    BY <1>1, <1>3, <2>1, <2>2, <2>3, OneMoves
<1>13. ASSUME DiscardIntent(w) \/ RecordSubmission(w)
       PROVE  IntentInv'
  <2>1. Goes(w, Idle) /\ UNCHANGED delayed
    BY <1>13 DEF DiscardIntent, RecordSubmission, erpVars
  <2>2. Accounts
    BY <1>13, DiscardIntentAccounts, RecordSubmissionAccounts
  <2>3. Idle.pc # "provision"
    BY DEF Idle
  <2> QED
    BY <1>4, <2>1, <2>2, <2>3
<1> QED
  BY <1>5, <1>6, <1>7, <1>8, <1>10, <1>11, <1>12, <1>13 DEF SubmitStep

\* Every step.
LEMMA IntentStep ==
  ASSUME LedgerInv, IntentInv, [Next]_vars, [DiscardsOnlyRefused]_vars
  PROVE  IntentInv'
<1>1. effective \in Baselines /\ erp \in Histories
  BY DEF LedgerInv, StoreInv
<1>2. delayed' \subseteq delayed => DelaysAccounted
  BY DEF DelaysAccounted, IntentInv
<1>3. ASSUME UNCHANGED <<intent, worker>>, SameOperations(submission, submission'),
             GoesOn(intent, erp, effective, erp', effective'), delayed' \subseteq delayed
      PROVE  IntentInv'
  BY <1>2, <1>3, QuietStep, NoneMoves
<1>4. UNCHANGED submission => SameOperations(submission, submission')
  BY DEF SameOperations
<1>5. CASE UNCHANGED <<effective, erp, delayed, intent, submission, worker>>
  BY <1>3, <1>4, <1>5, NothingHappens
<1>6. CASE FinanceSupersedes
  <2>1. GoesOn(intent, erp, effective, erp', effective')
    BY <1>1, <1>6, ErpAssumption
       DEF FinanceSupersedes, GoesOn, Refuses, Baselines, Operations
  <2> QED
    BY <1>3, <1>4, <1>6, <2>1 DEF FinanceSupersedes, ledgerVars
<1>7. ASSUME NEW k \in Operations, ErpAdvances(k)
      PROVE  IntentInv'
  <2>1. \A j \in Operations : j # k => erp'[j] = erp[j]
    BY <1>1, <1>7 DEF ErpAdvances, Histories
  <2>2. erp[k] # <<>> /\ effective' = effective
    BY <1>7 DEF ErpAdvances
  <2>3. GoesOn(intent, erp, effective, erp', effective')
    BY <2>1, <2>2 DEF GoesOn, Refuses
  <2> QED
    BY <1>3, <1>4, <1>7, <2>3 DEF ErpAdvances, ledgerVars
<1>8. ASSUME NEW k \in Operations, ErpReceivesLate(k)
      PROVE  IntentInv'
  <2>1. Accounted(intent, erp, effective, k)
    BY <1>8 DEF ErpReceivesLate, IntentInv
  <2>2. GoesOn(intent, erp, effective, erp', effective')
    BY <1>8, <2>1, StartsNamed, NothingHappens DEF ErpReceivesLate
  <2> QED
    BY <1>3, <1>4, <1>8, <2>2 DEF ErpReceivesLate, ledgerVars
<1>9. ASSUME NEW w \in Workers, ReadOperation(w) \/ Record(w) \/ Fails(w) \/ Sweep(w)
      PROVE  IntentInv'
  <2>1. \E m : Goes(w, m) /\ m.pc # "provision"
    <3>1. ASSUME ReadOperation(w)
          PROVE  \E m : Goes(w, m) /\ m.pc # "provision"
      <4> DEFINE k == <<worker[w].plan, worker[w].baseline>>
                 m == [pc |-> "apply", plan |-> worker[w].plan, baseline |-> worker[w].baseline,
                       revision |-> Revision(k), state |-> State(k)]
      <4>1. Goes(w, m)
        BY <3>1 DEF ReadOperation
      <4>2. m.pc # "provision"
        OBVIOUS
      <4> HIDE DEF m
      <4> QED
        BY <4>1, <4>2
    <3>2. ASSUME Sweep(w)
          PROVE  \E m : Goes(w, m) /\ m.pc # "provision"
      <4>1. PICK p \in Plans :
              Goes(w, [pc |-> "read", plan |-> p, baseline |-> submission[p].baseline])
        BY <3>2 DEF Sweep
      <4> DEFINE m == [pc |-> "read", plan |-> p, baseline |-> submission[p].baseline]
      <4>2. Goes(w, m) /\ m.pc # "provision"
        BY <4>1
      <4> HIDE DEF m
      <4> QED
        BY <4>2
    <3>3. ASSUME Record(w) \/ Fails(w)
          PROVE  Goes(w, Idle) /\ Idle.pc # "provision"
      BY <3>3 DEF Record, Fails, Idle
    <3> QED
      BY <1>9, <3>1, <3>2, <3>3
  <2>2. PICK m : Goes(w, m) /\ m.pc # "provision"
    BY <2>1
  <2>3. SameOperations(submission, submission') /\ UNCHANGED <<effective, erp, delayed, intent>>
    BY Zenon, <1>4, <1>9, AdvancedSameOperations
       DEF ReadOperation, Record, Fails, Sweep, erpVars, ledgerVars
  <2>4. Accounts /\ DelaysAccounted
    BY <1>2, <2>3, NothingHappens, QuietStep
  <2> QED
    BY <2>2, <2>4, OneMoves DEF Sends
<1>10. ASSUME NEW w \in Workers, WorkerStep(w), DiscardsOnlyRefused
       PROVE  IntentInv'
  BY <1>9, <1>10, SubmitKeeps DEF WorkerStep
<1>11. ASSUME NEW q \in Processors, NEW e, ApplyEvent(q, e)
       PROVE  IntentInv'
  <2>1. SameOperations(submission, submission')
    BY <1>4, <1>11, AdvancedSameOperations DEF ApplyEvent
  <2>2. UNCHANGED <<effective, erp, delayed, intent, worker>>
    BY <1>11 DEF ApplyEvent, erpVars
  <2> QED
    BY <1>3, <2>1, <2>2, NothingHappens
<1>12. CASE UNCHANGED vars
  BY <1>5, <1>12 DEF vars, erpVars, ledgerVars
<1>13. CASE Next /\ DiscardsOnlyRefused
  BY <1>5, <1>6, <1>7, <1>8, <1>10, <1>11, <1>13
     DEF Next, Deliver, SubmissionAges, Process, EventDisagrees, erpVars, ledgerVars
<1> QED
  BY <1>12, <1>13

\* The intent invariant holds at the start.
LEMMA IntentInitially == Init => IntentInv
<1> SUFFICES ASSUME Init PROVE IntentInv
  OBVIOUS
<1>1. \A s \in Submitters : worker[s].pc # "provision"
  BY DEF Init, Workers, Idle
<1>2. \A k \in Operations : erp[k] = <<>>
  BY DEF Init
<1>3. \A p \in Plans : submission[p].baseline = 0
  BY DEF Init, NoSubmission
<1>4. delayed = {}
  BY DEF Init
<1> QED
  BY <1>1, <1>2, <1>3, <1>4 DEF IntentInv, Sends

\* Every request that may reach ERP is the intent's, or will be refused.
LEMMA IntentInvariant == Spec /\ [][DiscardsOnlyRefused]_vars => []IntentInv
<1>1. Init => IntentInv
  BY IntentInitially
<1>2. LedgerInv /\ IntentInv /\ [Next]_vars /\ [DiscardsOnlyRefused]_vars => IntentInv'
  BY IntentStep
<1> QED
  BY <1>1, <1>2, LedgerInvariant, PTL DEF Spec

\* However many executions submit a plan, and whatever crashes, lost answers
\* and late requests there are, an operation ERP accepted is recorded or named
\* by the plan's intent, unless DiscardIntent ever drops an intent ERP does not
\* refuse: that step, of a submitter refused under an earlier intent, is the
\* only one by which an accepted operation is orphaned (refused, DiscardIntent).
THEOREM AcceptedNeverOrphaned ==
  Spec /\ [][DiscardsOnlyRefused]_vars => []AcceptedIsNeverOrphaned
<1>1. LedgerInv /\ IntentInv => AcceptedIsNeverOrphaned
  <2> SUFFICES ASSUME LedgerInv, IntentInv, NEW k \in Operations, erp[k] # <<>>
               PROVE  \/ submission[k[1]].baseline = k[2]
                      \/ submission[k[1]] = NoSubmission /\ intent[k[1]] = k[2]
    BY DEF AcceptedIsNeverOrphaned
  <2>1. k[1] \in Plans /\ intent[k[1]] = k[2]
    BY DEF IntentInv, Operations
  <2>2. submission[k[1]].baseline \in {0, k[2]}
    BY <2>1 DEF IntentInv
  <2> QED
    BY <2>1, <2>2, NoSubmissionIsZero
<1> QED
  BY <1>1, LedgerInvariant, IntentInvariant, PTL

\* So is it the only step by which a plan comes to have two operations at ERP
\* (Ledger.ForPlan), as the Race instance shows that it does.
THEOREM PlanHasOneOperation ==
  Spec /\ [][DiscardsOnlyRefused]_vars => []OneOperationPerPlan
<1>1. IntentInv => OneOperationPerPlan
  <2> SUFFICES ASSUME IntentInv, NEW p \in Plans, NEW b \in Baselines, NEW c \in Baselines,
                      erp[<<p, b>>] # <<>>, erp[<<p, c>>] # <<>>
               PROVE  b = c
    BY DEF OneOperationPerPlan
  <2>1. <<p, b>> \in Operations /\ <<p, c>> \in Operations
    BY DEF Operations
  <2> QED
    BY <2>1 DEF IntentInv
<1> QED
  BY <1>1, IntentInvariant, PTL
=============================================================================
