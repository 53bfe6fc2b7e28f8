-------------------------- MODULE ProvisioningProofs --------------------------
(***************************************************************************)
(* For any number of executors, requests and operations, and any bounds:   *)
(* an attempt has one executor, an operation's outcome is final, one asked *)
(* to stop stops, only approved plans are executed, and the status of the  *)
(* provisioning follows its table although executors whose lease lapsed go *)
(* on writing.                                                             *)
(***************************************************************************)
EXTENDS ProvisioningExecution, TLAPS

-----------------------------------------------------------------------------
(* Attempts and their executors *)

Columns == {"status", "attempt", "retryable", "lapsed", "plan"}

OpTable(t) == DOMAIN t = Ops /\ \A o \in Ops : DOMAIN t[o] = Columns /\ t[o].attempt \in Nat

Outcomes == {"SUCCEEDED", "FAILED", "BLOCKED"}

Typed ==
  /\ OpTable(op)
  /\ DOMAIN worker = Workers
  /\ DOMAIN request = Clients
  /\ \A w \in Workers : Holds(w) => worker[w].op \in Ops /\ worker[w].attempt \in Nat
  /\ \A w \in Workers : worker[w].pc = "complete" => worker[w].outcome \in Outcomes
  /\ \A c \in Clients : request[c].pc = "RETRY" => request[c].op \in Ops

\* No executor holds a later attempt than the operation's; nor that one while
\* the operation waits for an executor.
ClaimsBelow ==
  \A w \in Workers : Holds(w) =>
    /\ op[worker[w].op].status # ""
    /\ worker[w].attempt <= op[worker[w].op].attempt
    /\ op[worker[w].op].status = "QUEUED" => worker[w].attempt < op[worker[w].op].attempt

ClaimInv == Typed /\ ClaimsBelow /\ OneExecutorPerAttempt

\* What a step other than a claim does to the executors' claims.
KeepsClaims ==
  \A w \in Workers : Holds(w)' =>
    /\ Holds(w)
    /\ worker'[w].op = worker[w].op
    /\ worker'[w].attempt = worker[w].attempt

\* What such a step does to the operations.
RaisesAttempts ==
  \A o \in Ops :
    /\ op[o].status # "" => op'[o].status # "" /\ op'[o].attempt >= op[o].attempt
    /\ op'[o].status = "QUEUED" =>
         op[o].status \in {"", "QUEUED"} \/ op'[o].attempt > op[o].attempt

-----------------------------------------------------------------------------

\* The few facts about order that the attempts need.
LEMMA Order ==
  \A x, y, z \in Nat : /\ x <= y /\ z >= y => x <= z
                       /\ x < y /\ z >= y => x < z
                       /\ x <= y /\ z > y => x < z
                       /\ x >= x
OBVIOUS

\* The claim invariant holds at the start.
LEMMA ClaimInit == Init => ClaimInv
<1> SUFFICES ASSUME Init PROVE ClaimInv
  OBVIOUS
<1>1. OpTable(op)
  BY Zenon DEF Init, NoOp, OpTable, Columns
<1>2. /\ DOMAIN worker = Workers /\ DOMAIN request = Clients
      /\ \A w \in Workers : ~Holds(w) /\ worker[w].pc # "complete"
      /\ \A c \in Clients : request[c].pc # "RETRY"
  BY Zenon DEF Init, Idle, Holds
<1> QED BY Zenon, <1>1, <1>2 DEF ClaimInv, Typed, ClaimsBelow, OneExecutorPerAttempt

\* A step that claims nothing and raises attempts keeps the claims apart.
LEMMA ClaimsKept ==
  ASSUME ClaimInv, Typed', KeepsClaims, RaisesAttempts
  PROVE  ClaimInv'
<1>1. ClaimsBelow'
  <2> SUFFICES ASSUME NEW w \in Workers, Holds(w)'
               PROVE  /\ op'[worker'[w].op].status # ""
                      /\ worker'[w].attempt <= op'[worker'[w].op].attempt
                      /\ op'[worker'[w].op].status = "QUEUED" =>
                           worker'[w].attempt < op'[worker'[w].op].attempt
    BY Zenon DEF ClaimsBelow
  <2> DEFINE o == worker[w].op
  <2>1. /\ Holds(w) /\ worker'[w].op = o /\ worker'[w].attempt = worker[w].attempt
        /\ o \in Ops /\ worker[w].attempt \in Nat
    BY DEF KeepsClaims, ClaimInv, Typed
  <2>2. op[o].attempt \in Nat /\ op'[o].attempt \in Nat
    BY <2>1 DEF ClaimInv, Typed, OpTable, Columns
  <2>3. /\ op[o].status # "" /\ worker[w].attempt <= op[o].attempt
        /\ op[o].status = "QUEUED" => worker[w].attempt < op[o].attempt
    BY Zenon, <2>1 DEF ClaimInv, ClaimsBelow
  <2>4. /\ op'[o].attempt >= op[o].attempt /\ op'[o].status # ""
        /\ op'[o].status = "QUEUED" => op[o].status = "QUEUED" \/ op'[o].attempt > op[o].attempt
    BY Zenon, <2>1, <2>3 DEF RaisesAttempts
  <2> HIDE DEF o
  <2>5. worker[w].attempt <= op'[o].attempt
    <3> DEFINE x == worker[w].attempt  y == op[o].attempt  z == op'[o].attempt
    <3>1. x \in Nat /\ y \in Nat /\ z \in Nat /\ x <= y /\ z >= y
      BY Zenon, <2>1, <2>2, <2>3, <2>4
    <3> HIDE DEF x, y, z
    <3>2. x <= z
      BY <3>1
    <3> QED BY <3>2 DEF x, z
  <2>6. CASE op'[o].status = "QUEUED"
    <3>1. op[o].status = "QUEUED" \/ op'[o].attempt > op[o].attempt
      BY <2>4, <2>6
    <3>2. worker[w].attempt < op'[o].attempt
      <4>1. CASE op[o].status = "QUEUED"
        BY <4>1, <2>1, <2>2, <2>3, <2>4, Order, Zenon
      <4>2. CASE op'[o].attempt > op[o].attempt
        <5>1. worker[w].attempt \in Nat /\ worker[w].attempt <= op[o].attempt
          BY Zenon, <2>1, <2>3
        <5> QED BY <4>2, <5>1, <2>2
      <4> QED BY <3>1, <4>1, <4>2
    <3> QED BY Zenon, <3>2, <2>1, <2>4, <2>5
  <2>7. CASE op'[o].status # "QUEUED"
    BY Zenon, <2>7, <2>1, <2>4, <2>5
  <2> QED BY Zenon, <2>6, <2>7
<1>2. OneExecutorPerAttempt'
  BY DEF ClaimInv, OneExecutorPerAttempt, KeepsClaims
<1> QED BY <1>1, <1>2 DEF ClaimInv

\* A claim takes an attempt nobody holds.
LEMMA ClaimStep ==
  ASSUME ClaimInv, NEW w \in Workers, NEW o \in Ops, Claim(w, o)
  PROVE  ClaimInv'
<1> DEFINE a == ClaimedAttempt(o)
<1>1. /\ op[o].attempt \in Nat /\ a \in Nat /\ a >= op[o].attempt
      /\ op[o].status = "QUEUED" => a = op[o].attempt
      /\ op[o].status # "QUEUED" => a = op[o].attempt + 1
  BY DEF ClaimInv, Typed, OpTable, Columns, ClaimedAttempt
<1> HIDE DEF a
<1>2. /\ op' = [op EXCEPT ![o] = [op[o] EXCEPT !.status = "RUNNING", !.attempt = a, !.lapsed = FALSE]]
      /\ worker' = [worker EXCEPT ![w] = [pc |-> "load", op |-> o, attempt |-> a]]
      /\ request' = request
  BY Zenon DEF Claim, a, ClaimInv, Typed, OpTable, Columns
<1>3. /\ OpTable(op)' /\ op'[o].attempt = a /\ op'[o].status = "RUNNING"
      /\ \A q \in Ops \ {o} : op'[q] = op[q]
  BY <1>1, <1>2 DEF ClaimInv, Typed, OpTable, Columns
<1>4. /\ DOMAIN worker' = Workers
      /\ worker'[w] = [pc |-> "load", op |-> o, attempt |-> a]
      /\ \A v \in Workers \ {w} : worker'[v] = worker[v]
  BY <1>2 DEF ClaimInv, Typed
<1>5. ASSUME NEW v \in Workers, Holds(v), worker[v].op = o PROVE worker[v].attempt < a
  <2>1. /\ worker[v].attempt \in Nat /\ worker[v].attempt <= op[o].attempt
        /\ op[o].status = "QUEUED" => worker[v].attempt < op[o].attempt
    BY Zenon, <1>5 DEF ClaimInv, Typed, ClaimsBelow
  <2>2. CASE op[o].status = "QUEUED"
    BY <2>1, <2>2, <1>1
  <2>3. CASE op[o].status # "QUEUED"
    <3>1. a = op[o].attempt + 1
      BY <2>3, <1>1
    <3> QED BY <3>1, <2>1, <1>1
  <2> QED BY <2>2, <2>3
<1>6. Typed'
  BY <1>1, <1>2, <1>3, <1>4 DEF ClaimInv, Typed, Holds
<1>7. ClaimsBelow'
  <2> SUFFICES ASSUME NEW v \in Workers, Holds(v)'
               PROVE  /\ op'[worker'[v].op].status # ""
                      /\ worker'[v].attempt <= op'[worker'[v].op].attempt
                      /\ op'[worker'[v].op].status = "QUEUED" =>
                           worker'[v].attempt < op'[worker'[v].op].attempt
    BY Zenon DEF ClaimsBelow
  <2>1. CASE v = w
    <3>1. worker'[v].op = o /\ worker'[v].attempt = a
      BY <2>1, <1>4
    <3>2. a <= a
      BY <1>1
    <3> QED BY <3>1, <3>2, <1>3
  <2>2. CASE v # w /\ worker[v].op = o
    <3>1. Holds(v) /\ worker'[v].op = o /\ worker'[v].attempt = worker[v].attempt
      BY <2>2, <1>4 DEF Holds
    <3>2. worker[v].attempt \in Nat /\ worker[v].attempt < a
      BY <3>1, <2>2, <1>5 DEF ClaimInv, Typed
    <3>3. worker[v].attempt <= a
      BY <3>2, <1>1
    <3> QED BY <3>1, <3>2, <3>3, <1>3
  <2>3. CASE v # w /\ worker[v].op # o
    BY <2>3, <1>3, <1>4, ZenonT(60) DEF Holds, ClaimInv, Typed, ClaimsBelow
  <2> QED BY Zenon, <2>1, <2>2, <2>3
<1>8. OneExecutorPerAttempt'
  BY <1>1, <1>4, <1>5 DEF ClaimInv, Typed, OneExecutorPerAttempt, Holds
<1> QED BY <1>6, <1>7, <1>8 DEF ClaimInv

-----------------------------------------------------------------------------
(* Executors *)

WorkersKept ==
  /\ DOMAIN worker' = Workers /\ KeepsClaims
  /\ \A w \in Workers : worker'[w].pc = "complete" => worker'[w].outcome \in Outcomes

\* An executor that holds a claim moves on with it, or lets it go.
LEMMA MovesOn ==
  ASSUME Typed, NEW w \in Workers, Holds(w), NEW r,
         r.op = worker[w].op, r.attempt = worker[w].attempt,
         r.pc = "complete" => r.outcome \in Outcomes,
         worker' = [worker EXCEPT ![w] = r]
  PROVE  WorkersKept
BY DEF Typed, WorkersKept, KeepsClaims, Holds

\* An executor that lets its operation go leaves the others theirs.
LEMMA LetsGo ==
  ASSUME Typed, NEW w \in Workers,
         \/ worker' = [worker EXCEPT ![w] = Idle]
         \/ worker' = [worker EXCEPT ![w] = [pc |-> "claim"]]
  PROVE  WorkersKept
BY DEF Typed, WorkersKept, KeepsClaims, Holds, Idle

\* No executor moves.
LEMMA NobodyMoves ==
  ASSUME Typed, worker' = worker
  PROVE  WorkersKept
BY DEF Typed, WorkersKept, KeepsClaims, Holds

\* An executor that comes to an outcome still holds its attempt.
LEMMA EndsKeeps ==
  ASSUME Typed, NEW w \in Workers, Holds(w), NEW outcome \in Outcomes, NEW retryable,
         Ends(w, outcome, retryable)
  PROVE  WorkersKept
BY Zenon, MovesOn DEF Ends

\* An executor that goes on to block still holds its attempt.
LEMMA GotoKeeps ==
  ASSUME Typed, NEW w \in Workers, Holds(w), Goto(w, "block")
  PROVE  WorkersKept
BY Zenon, MovesOn DEF Goto

\* An executor that enters the pipeline still holds its attempt.
LEMMA RunsKeeps ==
  ASSUME Typed, NEW w \in Workers, Holds(w), NEW pc \in {"retry", "run"}, NEW p, Runs(w, pc, p)
  PROVE  WorkersKept
BY Zenon, MovesOn DEF Runs

\* An executor about to write still holds its attempt.
LEMMA WritesKeeps ==
  ASSUME Typed, NEW w \in Workers, Holds(w), NEW pc \in {"save", "advance"},
         NEW status, NEW version, NEW to,
         Writes(w, pc, status, version, to)
  PROVE  WorkersKept
BY Zenon, MovesOn DEF Writes

\* An executor back from the pipeline still holds its attempt.
LEMMA ReturnedKeeps ==
  ASSUME Typed, NEW w \in Workers, Holds(w), NEW status, Returned(w, status)
  PROVE  WorkersKept
<1>1. CASE status = "ACTIVE"
  BY Zenon, <1>1, EndsKeeps DEF Returned, Outcomes
<1>2. CASE status \in {"RECONCILE", "READY"}
  BY <1>2, GotoKeeps DEF Returned
<1>3. CASE status \notin {"ACTIVE", "RECONCILE", "READY"}
  BY Zenon, <1>3, EndsKeeps DEF Returned, Outcomes
<1> QED BY <1>1, <1>2, <1>3

\* What a turn of the orchestrator goes on to do is legal from the status read.
LEMMA PhaseSteps ==
  ASSUME NEW status, NEW r \in PhaseResults(status)
  PROVE  /\ r[1] \in {"save", "advance"}
         /\ r[1] = "advance" => TransitionProvisioning(status, r[2])
         /\ r[1] = "save" => r[2] = status \/ TransitionProvisioning(status, r[2])
         /\ r[2] \in Statuses
<1>1. CASE status = "PLAN"
  BY <1>1 DEF PhaseResults, TransitionProvisioning, Statuses
<1>2. CASE status = "APPLY"
  BY <1>2 DEF PhaseResults, TransitionProvisioning, Statuses
<1>3. CASE status = "RECONCILE"
  BY <1>3 DEF PhaseResults, TransitionProvisioning, Statuses
<1>4. CASE status = "READY"
  BY <1>4 DEF PhaseResults, TransitionProvisioning, Statuses
<1> QED BY <1>1, <1>2, <1>3, <1>4 DEF PhaseResults

\* The steps of an executor that leave the operations alone.
LEMMA ExecutorKeeps ==
  ASSUME Typed, NEW w \in Workers,
         NothingToClaim(w) \/ LoadExecuted(w) \/ PlanNotExecutable(w) \/ Unavailable(w)
           \/ Retry(w) \/ Run(w) \/ Save(w) \/ Advance(w) \/ VersionConflict(w)
           \/ Block(w) \/ Mark(w) \/ Crash(w)
  PROVE  WorkersKept /\ op' = op /\ request' = request
<1>1. CASE NothingToClaim(w) \/ Mark(w) \/ Crash(w)
  <2>1. worker' = [worker EXCEPT ![w] = Idle] /\ op' = op /\ request' = request
    BY <1>1 DEF NothingToClaim, Mark, Crash
  <2> QED BY Zenon, <2>1, LetsGo
<1>2. CASE PlanNotExecutable(w) \/ Unavailable(w) \/ VersionConflict(w) \/ Block(w)
  BY Zenon, <1>2, EndsKeeps DEF PlanNotExecutable, Unavailable, VersionConflict, Block, Holds, Outcomes
<1>3. CASE LoadExecuted(w)
  <2>1. Holds(w) /\ op' = op /\ request' = request
    BY <1>3 DEF LoadExecuted, Holds
  <2>2. \/ \E b \in BOOLEAN : Ends(w, "FAILED", b)
        \/ \E pc \in {"retry", "run"} : Runs(w, pc, plan.version)
    BY Zenon, <1>3 DEF LoadExecuted
  <2> QED BY <2>1, <2>2, EndsKeeps, RunsKeeps DEF Outcomes
<1>4. CASE Retry(w)
  <2>1. Holds(w) /\ op' = op /\ request' = request
    BY <1>4 DEF Retry, Holds
  <2>2. \/ Writes(w, "advance", row.status, row.version, "APPLY")
        \/ Ends(w, "SUCCEEDED", FALSE)
        \/ Ends(w, "FAILED", TRUE)
    BY Zenon, <1>4 DEF Retry
  <2> QED BY Zenon, <2>1, <2>2, EndsKeeps, WritesKeeps DEF Outcomes
<1>5. CASE Run(w)
  <2>1. Holds(w) /\ op' = op /\ request' = request
    BY <1>5 DEF Run, Holds
  <2>2. CASE Returned(w, row.status)
    BY <2>1, <2>2, ReturnedKeeps
  <2>3. CASE \E r \in PhaseResults(row.status) : Writes(w, r[1], row.status, row.version, r[2])
    <3>1. PICK r \in PhaseResults(row.status) : Writes(w, r[1], row.status, row.version, r[2])
      BY <2>3
    <3>2. r[1] \in {"save", "advance"}
      BY PhaseSteps
    <3> QED BY <2>1, <3>1, <3>2, WritesKeeps
  <2> QED BY <2>2, <2>3, <1>5 DEF Run
<1>6. CASE Save(w)
  <2>1. Holds(w) /\ op' = op /\ request' = request
    BY <1>6 DEF Save, Holds
  <2>2. \/ Returned(w, worker[w].status)
        \/ Writes(w, "advance", worker[w].status, worker[w].version + 1, worker[w].to)
    BY <1>6 DEF Save
  <2> QED BY <2>1, <2>2, ReturnedKeeps, WritesKeeps
<1>7. CASE Advance(w)
  <2>1. Holds(w) /\ op' = op /\ request' = request
    BY <1>7 DEF Advance, Holds
  <2>2. Returned(w, worker[w].to) \/ Runs(w, "run", worker[w].plan)
    BY <1>7 DEF Advance
  <2> QED BY <2>1, <2>2, ReturnedKeeps, RunsKeeps
<1> QED BY <1>1, <1>2, <1>3, <1>4, <1>5, <1>6, <1>7

-----------------------------------------------------------------------------
(* Commands *)

RequestsKept ==
  /\ DOMAIN request' = Clients
  /\ \A c \in Clients : request'[c].pc = "RETRY" =>
       request'[c].op \in Ops \/ (request[c].pc = "RETRY" /\ request'[c].op = request[c].op)

\* A request that ends names no operation.
LEMMA RequestEnds ==
  ASSUME Typed, NEW c \in Clients, request' = [request EXCEPT ![c] = Idle]
  PROVE  RequestsKept
BY DEF Typed, RequestsKept, Idle

\* A request that is no retry names no operation.
LEMMA RequestBegins ==
  ASSUME Typed, NEW c \in Clients, NEW kind, kind # "RETRY", Load(c, kind)
  PROVE  RequestsKept
BY DEF Typed, RequestsKept, Load

\* A retry that is loaded names an operation.
LEMMA RetryBegins ==
  ASSUME Typed, NEW c \in Clients, NEW o \in Ops, LoadRetry(c, o)
  PROVE  RequestsKept
BY DEF Typed, RequestsKept, LoadRetry

\* No request moves.
LEMMA NoRequest ==
  ASSUME Typed, request' = request
  PROVE  RequestsKept
BY DEF Typed, RequestsKept

\* A step typed so far keeps the types.
LEMMA TypedKept ==
  ASSUME Typed, WorkersKept, RequestsKept, OpTable(op)'
  PROVE  Typed'
BY DEF Typed, WorkersKept, KeepsClaims, RequestsKept, Holds

\* What a step does to the one operation it writes.
LEMMA OpSet ==
  ASSUME Typed, NEW o \in Ops, NEW r, DOMAIN r = Columns, r.attempt \in Nat,
         op' = [op EXCEPT ![o] = r],
         op[o].status # "" => r.status # "" /\ r.attempt >= op[o].attempt,
         r.status = "QUEUED" => op[o].status \in {"", "QUEUED"} \/ r.attempt > op[o].attempt
  PROVE  OpTable(op)' /\ RaisesAttempts
<1>1. OpTable(op)' /\ op'[o] = r /\ \A q \in Ops \ {o} : op'[q] = op[q]
  BY Zenon DEF Typed, OpTable
<1>2. \A q \in Ops : op[q].attempt \in Nat /\ op[q].attempt >= op[q].attempt
  BY Order, Zenon DEF Typed, OpTable
<1> QED BY Zenon, <1>1, <1>2 DEF RaisesAttempts

\* Operations that do not change stay typed and keep their attempts.
LEMMA OpsKept ==
  ASSUME Typed, op' = op
  PROVE  OpTable(op)' /\ RaisesAttempts
<1>1. \A q \in Ops : op[q].attempt \in Nat /\ op[q].attempt >= op[q].attempt
  BY Order, Zenon DEF Typed, OpTable
<1> QED BY Zenon, <1>1 DEF Typed, OpTable, RaisesAttempts

StepKept == WorkersKept /\ RequestsKept /\ OpTable(op)' /\ RaisesAttempts

\* What an operator's request does, and its transaction.
LEMMA CommandKeeps ==
  ASSUME Typed, NEW c \in Clients, Command(c)
  PROVE  StepKept
<1>1. CASE \E kind \in {"APPROVE", "DECLINE", "APPLY", "REMEDIATE", "REPLAN", "WITHDRAW"} :
             Load(c, kind)
  <2>1. worker' = worker /\ op' = op
    BY <1>1 DEF Load
  <2> QED BY <1>1, <2>1, RequestBegins, NobodyMoves, OpsKept DEF StepKept
<1>2. CASE \E o \in Ops : LoadRetry(c, o)
  <2>1. worker' = worker /\ op' = op
    BY <1>2 DEF LoadRetry
  <2> QED BY <1>2, <2>1, RetryBegins, NobodyMoves, OpsKept DEF StepKept
<1>3. CASE \/ \E kind, value \in {"APPROVE", "DECLINE", "APPROVED", "DECLINED"} :
             RecordPlanDecision(c, kind, value)
           \/ Refused(c) \/ Replan(c) \/ Withdraw(c)
  <2>1. worker' = worker /\ op' = op /\ request' = [request EXCEPT ![c] = Idle]
    BY Zenon, <1>3 DEF RecordPlanDecision, Refused, Replan, Withdraw, Locked
  <2> QED BY Zenon, <2>1, RequestEnds, NobodyMoves, OpsKept DEF StepKept
<1>4. CASE \E kind \in {"APPLY", "REMEDIATE"}, state \in {row.state, "REMEDIATING"} :
             AcceptOperation(c, kind, state)
  <2> DEFINE r == [status |-> "QUEUED", attempt |-> 1, retryable |-> FALSE, lapsed |-> FALSE,
                   plan |-> plan.version]
  <2>1. worker' = worker /\ request' = [request EXCEPT ![c] = Idle]
    BY Zenon, <1>4 DEF AcceptOperation, Locked
  <2>2. PICK o \in Ops : op[o].status = "" /\ op' = [op EXCEPT ![o] = r]
    BY Zenon, <1>4 DEF AcceptOperation
  <2>3. DOMAIN r = Columns /\ r.attempt \in Nat
    BY DEF Columns
  <2> HIDE DEF r
  <2>4. OpTable(op)' /\ RaisesAttempts
    BY Zenon, <2>2, <2>3, OpSet
  <2> QED BY Zenon, <2>1, <2>4, RequestEnds, NobodyMoves DEF StepKept
<1>5. CASE RetryOperation(c)
  <2> DEFINE o == request[c].op
             r == [op[o] EXCEPT !.status = "QUEUED", !.attempt = @ + 1, !.retryable = FALSE,
                                !.lapsed = FALSE]
  <2>1. worker' = worker /\ request' = [request EXCEPT ![c] = Idle]
    BY <1>5 DEF RetryOperation
  <2>2. o \in Ops /\ op[o].attempt \in Nat /\ DOMAIN op[o] = Columns
    BY <1>5 DEF RetryOperation, Typed, OpTable
  <2>3. op' = [op EXCEPT ![o] = r]
    BY <1>5, <2>2 DEF RetryOperation, Typed, OpTable, Columns
  <2> HIDE DEF o
  <2>4. DOMAIN r = Columns /\ r.attempt = op[o].attempt + 1 /\ r.status = "QUEUED"
    BY <2>2 DEF Columns
  <2> HIDE DEF r
  <2>5. r.attempt \in Nat /\ r.attempt >= op[o].attempt /\ r.attempt > op[o].attempt
    BY <2>2, <2>4
  <2>6. OpTable(op)' /\ RaisesAttempts
    BY Zenon, <2>2, <2>3, <2>4, <2>5, OpSet
  <2> QED BY Zenon, <2>1, <2>6, RequestEnds, NobodyMoves DEF StepKept
<1> QED BY <1>1, <1>2, <1>3, <1>4, <1>5 DEF Command

-----------------------------------------------------------------------------
(* The other steps that write operations *)

\* A step that changes the status or the lease of an operation, and not its
\* attempt.
LEMMA OpMarked ==
  ASSUME Typed, NEW o \in Ops, op[o].status # "", NEW s, s # "",
         s = "QUEUED" => op[o].status = "QUEUED", NEW r,
         r.status = s, r.attempt = op[o].attempt, DOMAIN r = Columns,
         op' = [op EXCEPT ![o] = r]
  PROVE  OpTable(op)' /\ RaisesAttempts
<1>1. op[o].attempt \in Nat /\ op[o].attempt >= op[o].attempt
  BY Zenon, Order DEF Typed, OpTable
<1> QED BY Zenon, <1>1, OpSet

\* Lapses and cancellations keep the attempts and who holds them.
LEMMA OpStepKeeps ==
  ASSUME Typed, NEW o \in Ops, LeaseLapses(o) \/ CancelQueued(o) \/ CancelRunning(o)
  PROVE  StepKept
<1>1. worker' = worker /\ request' = request
  BY DEF LeaseLapses, CancelQueued, CancelRunning
<1>2. OpTable(op)' /\ RaisesAttempts
  <2>1. CASE LeaseLapses(o)
    <3> DEFINE r == [op[o] EXCEPT !.lapsed = TRUE]
    <3>1. op' = [op EXCEPT ![o] = r] /\ op[o].status \in {"RUNNING", "CANCEL_REQUESTED"}
      BY <2>1 DEF LeaseLapses, Typed, OpTable
    <3>2. r.status = op[o].status /\ r.attempt = op[o].attempt /\ DOMAIN r = Columns
      BY DEF Typed, OpTable, Columns
    <3> HIDE DEF r
    <3> QED BY Zenon, <3>1, <3>2, OpMarked
  <2>2. CASE CancelQueued(o)
    <3> DEFINE r == [op[o] EXCEPT !.status = "CANCELLED", !.retryable = FALSE]
    <3>1. op' = [op EXCEPT ![o] = r] /\ op[o].status = "QUEUED"
      BY Zenon, <2>2 DEF CancelQueued, Typed, OpTable, Columns
    <3>2. r.status = "CANCELLED" /\ r.attempt = op[o].attempt /\ DOMAIN r = Columns
      BY DEF Typed, OpTable, Columns
    <3> HIDE DEF r
    <3> QED BY Zenon, <3>1, <3>2, OpMarked
  <2>3. CASE CancelRunning(o)
    <3> DEFINE r == [op[o] EXCEPT !.status = "CANCEL_REQUESTED"]
    <3>1. op' = [op EXCEPT ![o] = r] /\ op[o].status = "RUNNING"
      BY <2>3 DEF CancelRunning, Typed, OpTable, Columns
    <3>2. r.status = "CANCEL_REQUESTED" /\ r.attempt = op[o].attempt /\ DOMAIN r = Columns
      BY DEF Typed, OpTable, Columns
    <3> HIDE DEF r
    <3> QED BY Zenon, <3>1, <3>2, OpMarked
  <2> QED BY <2>1, <2>2, <2>3
<1> QED BY <1>1, <1>2, NobodyMoves, NoRequest DEF StepKept

\* Finishing an abandoned cancellation keeps the attempts and who holds them.
LEMMA FinishKeeps ==
  ASSUME Typed, NEW w \in Workers, FinishAbandonedCancellations(w)
  PROVE  StepKept
<1>1. WorkersKept /\ RequestsKept
  BY Zenon, LetsGo, NoRequest DEF FinishAbandonedCancellations
<1>2. \A o \in Ops : /\ DOMAIN op[o] = Columns /\ op[o].attempt \in Nat
                     /\ op[o].attempt >= op[o].attempt
  BY Order, Zenon DEF Typed, OpTable
<1>3. \A o \in Ops :
        op'[o] = IF o \in Abandoned
                   THEN [op[o] EXCEPT !.status = "CANCELLED", !.retryable = FALSE, !.lapsed = FALSE]
                   ELSE op[o]
  BY ZenonT(30) DEF FinishAbandonedCancellations
<1>4. \A o \in Ops :
        /\ DOMAIN op'[o] = Columns /\ op'[o].attempt = op[o].attempt
        /\ op'[o].status \in {op[o].status, "CANCELLED"}
  BY ZenonT(30), <1>2, <1>3 DEF Columns
<1>5. DOMAIN op' = Ops
  BY Zenon DEF FinishAbandonedCancellations
<1>6. OpTable(op)'
  BY <1>2, <1>4, <1>5 DEF OpTable
<1>7. RaisesAttempts
  BY Zenon, <1>2, <1>4 DEF RaisesAttempts
<1> QED BY <1>1, <1>6, <1>7 DEF StepKept

\* Recording an outcome keeps the attempts and who holds them.
LEMMA CompleteKeeps ==
  ASSUME Typed, NEW w \in Workers, CompleteOperation(w)
  PROVE  StepKept
<1> DEFINE me == worker[w]
           o == me.op
           asked == op[o].status = "CANCEL_REQUESTED"
           recorded == IF asked /\ me.outcome # "SUCCEEDED" THEN "CANCELLED" ELSE me.outcome
           r == [op[o] EXCEPT !.status = recorded, !.lapsed = FALSE,
                              !.retryable = me.retryable /\ ~asked]
<1>1. Holds(w) /\ request' = request
  BY DEF CompleteOperation, Holds
<1>2. o \in Ops /\ DOMAIN op[o] = Columns /\ op[o].attempt \in Nat
  BY <1>1 DEF Typed, OpTable
<1>3. recorded \in {"SUCCEEDED", "FAILED", "BLOCKED", "CANCELLED"}
  BY DEF CompleteOperation, Typed, Outcomes
<1>4. WorkersKept
  <2>1. CASE worker' = [worker EXCEPT ![w] = Idle]
    BY Zenon, <2>1, LetsGo
  <2>2. CASE worker' = [worker EXCEPT ![w] =
                          [pc |-> "mark", op |-> o, attempt |-> me.attempt, outcome |-> recorded,
                           retryable |-> me.retryable]]
    <3> DEFINE m == [pc |-> "mark", op |-> o, attempt |-> me.attempt, outcome |-> recorded,
                     retryable |-> me.retryable]
    <3>1. m.pc # "complete" /\ m.op = worker[w].op /\ m.attempt = worker[w].attempt
      OBVIOUS
    <3>2. worker' = [worker EXCEPT ![w] = m]
      BY <2>2
    <3> HIDE DEF m
    <3> QED BY Zenon, <3>1, <3>2, <1>1, MovesOn
  <2> QED BY Zenon, <2>1, <2>2 DEF CompleteOperation
<1>5. OpTable(op)' /\ RaisesAttempts
  <2>1. CASE op' = op
    BY <2>1, OpsKept
  <2>2. CASE Held(w) /\ op' = [op EXCEPT ![o].status = recorded, ![o].lapsed = FALSE,
                                        ![o].retryable = me.retryable /\ ~asked]
    <3>1. op[o].status # ""
      BY Zenon, <2>2 DEF Held
    <3>2. op' = [op EXCEPT ![o] = r]
      BY Zenon, <2>2, <1>2 DEF Typed, OpTable, Columns
    <3> HIDE DEF recorded, asked
    <3>3. r.status = recorded /\ r.attempt = op[o].attempt /\ DOMAIN r = Columns
      BY <1>2 DEF Columns
    <3> HIDE DEF r
    <3> QED BY Zenon, <3>1, <3>2, <3>3, <1>2, <1>3, OpMarked
  <2> QED BY <2>1, <2>2 DEF CompleteOperation
<1> QED BY <1>1, <1>4, <1>5, NoRequest DEF StepKept

-----------------------------------------------------------------------------
(* The theorem *)

\* Every step but a claim keeps the claims.
LEMMA StepKeeps ==
  ASSUME Typed, [Next]_vars
  PROVE  StepKept \/ \E w \in Workers, o \in Ops : Claim(w, o)
<1>1. CASE WorldChanges \/ PlanExpires \/ UNCHANGED vars
  <2>1. worker' = worker /\ op' = op /\ request' = request
    BY <1>1 DEF WorldChanges, PlanExpires, vars
  <2> QED BY <2>1, NobodyMoves, OpsKept, NoRequest DEF StepKept
<1>2. CASE \E o \in Ops : LeaseLapses(o) \/ CancelQueued(o) \/ CancelRunning(o)
  BY <1>2, OpStepKeeps
<1>3. CASE \E c \in Clients : Command(c)
  BY <1>3, CommandKeeps
<1>4. ASSUME NEW w \in Workers, Execute(w) \/ Crash(w)
      PROVE  StepKept \/ \E v \in Workers, o \in Ops : Claim(v, o)
  <2>1. CASE FinishAbandonedCancellations(w) \/ CompleteOperation(w)
    BY <2>1, FinishKeeps, CompleteKeeps
  <2>3. CASE EnterProviderProvisioning(w)
    <3>1. worker' = worker /\ op' = op /\ request' = request
      BY <2>3 DEF EnterProviderProvisioning
    <3> QED BY <3>1, NobodyMoves, OpsKept, NoRequest DEF StepKept
  <2>2. CASE NothingToClaim(w) \/ LoadExecuted(w) \/ PlanNotExecutable(w) \/ Unavailable(w)
               \/ Retry(w) \/ Run(w) \/ Save(w) \/ Advance(w) \/ VersionConflict(w)
               \/ Block(w) \/ Mark(w) \/ Crash(w)
    <3>1. WorkersKept /\ op' = op /\ request' = request
      BY <2>2, ExecutorKeeps
    <3> QED BY <3>1, OpsKept, NoRequest DEF StepKept
  <2> QED BY <1>4, <2>1, <2>2, <2>3 DEF Execute
<1> QED BY <1>1, <1>2, <1>3, <1>4 DEF Next

\* Every step keeps the claim invariant.
LEMMA ClaimNext == ClaimInv /\ [Next]_vars => ClaimInv'
<1> SUFFICES ASSUME ClaimInv, [Next]_vars PROVE ClaimInv'
  OBVIOUS
<1>1. CASE StepKept
  <2>1. Typed'
    BY <1>1, TypedKept DEF StepKept, ClaimInv
  <2> QED BY <1>1, <2>1, ClaimsKept DEF StepKept, WorkersKept
<1>2. CASE \E w \in Workers, o \in Ops : Claim(w, o)
  BY <1>2, ClaimStep
<1> QED BY <1>1, <1>2, StepKeeps DEF ClaimInv

\* No two executors work on one attempt of one operation, for any number of
\* executors and operations: claimOperation numbers every resumption, and a
\* retry the next attempt.
THEOREM OneExecutor == Spec => []OneExecutorPerAttempt
<1>1. ClaimInv => OneExecutorPerAttempt
  BY DEF ClaimInv
<1> QED BY <1>1, ClaimInit, ClaimNext, PTL DEF Spec

-----------------------------------------------------------------------------
(* Outcomes, status and plans *)

Final == {"SUCCEEDED", "CANCELLED", "FAILED", "BLOCKED"}

OutcomeKept(o) ==
  op[o].status \in Final /\ op'[o] # op[o] =>
    /\ op[o].retryable /\ op[o].status \in {"FAILED", "BLOCKED"}
    /\ op'[o].status = "QUEUED" /\ op'[o].attempt = op[o].attempt + 1

StopKept(o) ==
  op[o].status = "CANCEL_REQUESTED" =>
    op'[o].status \in {"CANCEL_REQUESTED", "CANCELLED", "SUCCEEDED"}

\* What a step may do to an operation that is finished or asked to stop.
OpKept(o) == OutcomeKept(o) /\ StopKept(o)

\* An operation that does not change keeps its outcome.
LEMMA SameKept == ASSUME NEW o, op'[o] = op[o] PROVE OpKept(o)
BY DEF OpKept, OutcomeKept, StopKept

\* A step that changes one operation, neither finished nor asked to stop.
LEMMA LiveChanged ==
  ASSUME Typed, NEW o \in Ops, op[o].status \in {"", "QUEUED", "RUNNING"}, NEW r,
         op' = [op EXCEPT ![o] = r], NEW q \in Ops
  PROVE  OpKept(q)
<1>1. CASE q # o
  <2>1. op'[q] = op[q]
    BY Zenon, <1>1 DEF Typed, OpTable
  <2> QED BY Zenon, <2>1, SameKept
<1>2. CASE q = o
  BY Zenon, <1>2 DEF OpKept, OutcomeKept, StopKept, Final
<1> QED BY Zenon, <1>1, <1>2

\* An operation asked to stop may only end CANCELLED or SUCCEEDED.
LEMMA StopChanged ==
  ASSUME Typed, NEW o \in Ops, op[o].status = "CANCEL_REQUESTED", NEW r,
         op' = [op EXCEPT ![o] = r],
         r.status \in {"CANCEL_REQUESTED", "CANCELLED", "SUCCEEDED"}, NEW q \in Ops
  PROVE  OpKept(q)
<1>1. CASE q # o
  <2>1. op'[q] = op[q]
    BY <1>1 DEF Typed, OpTable
  <2> QED BY <2>1, SameKept
<1>2. CASE q = o
  <2>1. op'[q] = r
    BY <1>2 DEF Typed, OpTable
  <2> QED BY <1>2, <2>1 DEF OpKept, OutcomeKept, StopKept, Final
<1> QED BY <1>1, <1>2

\* No command changes a recorded outcome but a retry.
LEMMA CommandOutcome ==
  ASSUME Typed, NEW c \in Clients, Command(c), NEW q \in Ops
  PROVE  OpKept(q)
<1>1. CASE op' = op
  BY <1>1, SameKept
<1>2. CASE \E kind \in {"APPLY", "REMEDIATE"}, state \in {row.state, "REMEDIATING"} :
             AcceptOperation(c, kind, state)
  <2> DEFINE r == [status |-> "QUEUED", attempt |-> 1, retryable |-> FALSE, lapsed |-> FALSE,
                   plan |-> plan.version]
  <2>1. PICK o \in Ops : op[o].status = "" /\ op' = [op EXCEPT ![o] = r]
    BY Zenon, <1>2 DEF AcceptOperation
  <2> HIDE DEF r
  <2> QED BY Zenon, <2>1, LiveChanged
<1>3. CASE RetryOperation(c)
  <2> DEFINE o == request[c].op
             r == [op[o] EXCEPT !.status = "QUEUED", !.attempt = @ + 1, !.retryable = FALSE,
                                !.lapsed = FALSE]
  <2>1. /\ o \in Ops /\ op[o].attempt \in Nat /\ DOMAIN op[o] = Columns
        /\ op[o].retryable /\ op[o].status \in {"FAILED", "BLOCKED"}
    BY <1>3 DEF RetryOperation, Typed, OpTable
  <2>2. op' = [op EXCEPT ![o] = r]
    BY <1>3, <2>1 DEF RetryOperation, Typed, OpTable, Columns
  <2> HIDE DEF o
  <2>3. r.attempt = op[o].attempt + 1 /\ r.status = "QUEUED"
    BY <2>1 DEF Columns
  <2> HIDE DEF r
  <2>4. CASE q # o
    <3>1. op'[q] = op[q]
      BY <2>2, <2>4 DEF Typed, OpTable
    <3> QED BY <3>1, SameKept
  <2>5. CASE q = o
    <3>1. op'[q] = r
      BY <2>2, <2>5 DEF Typed, OpTable
    <3> QED BY <2>5, <3>1, <2>1, <2>3 DEF OpKept, OutcomeKept, StopKept
  <2> QED BY <2>4, <2>5
<1> QED BY Zenon, <1>1, <1>2, <1>3
    DEF Command, Load, LoadRetry, Refused, RecordPlanDecision, Replan, Withdraw

\* Lapses and cancellations change no recorded outcome.
LEMMA OpStepOutcome ==
  ASSUME Typed, NEW o \in Ops, LeaseLapses(o) \/ CancelQueued(o) \/ CancelRunning(o),
         NEW q \in Ops
  PROVE  OpKept(q)
<1>1. CASE LeaseLapses(o)
  <2> DEFINE r == [op[o] EXCEPT !.lapsed = TRUE]
  <2>1. op' = [op EXCEPT ![o] = r] /\ op[o].status \in {"RUNNING", "CANCEL_REQUESTED"}
    BY <1>1 DEF LeaseLapses, Typed, OpTable
  <2>2. r.status = op[o].status
    BY DEF Typed, OpTable, Columns
  <2> HIDE DEF r
  <2> QED BY Zenon, <2>1, <2>2, LiveChanged, StopChanged
<1>2. CASE CancelQueued(o)
  <2> DEFINE r == [op[o] EXCEPT !.status = "CANCELLED", !.retryable = FALSE]
  <2>1. op' = [op EXCEPT ![o] = r] /\ op[o].status = "QUEUED"
    BY Zenon, <1>2 DEF CancelQueued, Typed, OpTable, Columns
  <2> HIDE DEF r
  <2> QED BY Zenon, <2>1, LiveChanged
<1>3. CASE CancelRunning(o)
  <2> DEFINE r == [op[o] EXCEPT !.status = "CANCEL_REQUESTED"]
  <2>1. op' = [op EXCEPT ![o] = r] /\ op[o].status = "RUNNING"
    BY <1>3 DEF CancelRunning, Typed, OpTable, Columns
  <2> HIDE DEF r
  <2> QED BY Zenon, <2>1, LiveChanged
<1> QED BY <1>1, <1>2, <1>3

\* Finishing an abandoned cancellation changes no recorded outcome.
LEMMA FinishOutcome ==
  ASSUME Typed, NEW w \in Workers, FinishAbandonedCancellations(w), NEW q \in Ops
  PROVE  OpKept(q)
<1>1. CASE q \in Abandoned
  <2>1. op[q].status = "CANCEL_REQUESTED" /\ op'[q].status = "CANCELLED"
    BY Zenon, <1>1 DEF Abandoned, FinishAbandonedCancellations, Typed, OpTable, Columns
  <2> QED BY <2>1 DEF OpKept, OutcomeKept, StopKept, Final
<1>2. CASE q \notin Abandoned
  <2>1. op'[q] = op[q]
    BY Zenon, <1>2 DEF FinishAbandonedCancellations
  <2> QED BY <2>1, SameKept
<1> QED BY <1>1, <1>2

\* A claim takes no operation that has an outcome.
LEMMA ClaimOutcome ==
  ASSUME Typed, NEW w \in Workers, NEW o \in Ops, Claim(w, o), NEW q \in Ops
  PROVE  OpKept(q)
<1> DEFINE r == [op[o] EXCEPT !.status = "RUNNING", !.attempt = ClaimedAttempt(o),
                              !.lapsed = FALSE]
<1>1. op[o].status \in {"QUEUED", "RUNNING"}
  BY DEF Claim, Claimable
<1>2. op' = [op EXCEPT ![o] = r]
  BY Zenon DEF Claim, Typed, OpTable, Columns
<1> HIDE DEF r
<1> QED BY Zenon, <1>1, <1>2, LiveChanged

\* An executor records an outcome only where there is none.
LEMMA CompleteOutcome ==
  ASSUME Typed, NEW w \in Workers, CompleteOperation(w), NEW q \in Ops
  PROVE  OpKept(q)
<1> DEFINE me == worker[w]
           o == me.op
           asked == op[o].status = "CANCEL_REQUESTED"
           recorded == IF asked /\ me.outcome # "SUCCEEDED" THEN "CANCELLED" ELSE me.outcome
           r == [op[o] EXCEPT !.status = recorded, !.lapsed = FALSE,
                              !.retryable = me.retryable /\ ~asked]
<1>1. o \in Ops /\ DOMAIN op[o] = Columns
  BY DEF CompleteOperation, Holds, Typed, OpTable
<1>2. CASE op' = op
  BY <1>2, SameKept
<1>3. CASE Held(w) /\ op' = [op EXCEPT ![o].status = recorded, ![o].lapsed = FALSE,
                                      ![o].retryable = me.retryable /\ ~asked]
  <2>1. op[o].status = "RUNNING" \/ (asked /\ recorded \in {"CANCELLED", "SUCCEEDED"})
    BY <1>3 DEF Held
  <2>2. op' = [op EXCEPT ![o] = r]
    BY Zenon, <1>3, <1>1 DEF Typed, OpTable, Columns
  <2>3. asked => op[o].status = "CANCEL_REQUESTED"
    OBVIOUS
  <2> HIDE DEF recorded, asked
  <2>4. r.status = recorded
    BY <1>1 DEF Columns
  <2> HIDE DEF r
  <2> QED BY Zenon, <1>1, <2>1, <2>2, <2>3, <2>4, LiveChanged, StopChanged
<1> QED BY <1>2, <1>3 DEF CompleteOperation

\* No step changes a recorded outcome but a retry.
LEMMA StepOutcome ==
  ASSUME Typed, [Next]_vars, NEW q \in Ops
  PROVE  OpKept(q)
<1>1. CASE WorldChanges \/ PlanExpires \/ UNCHANGED vars
  BY <1>1, SameKept DEF WorldChanges, PlanExpires, vars
<1>2. CASE \E o \in Ops : LeaseLapses(o) \/ CancelQueued(o) \/ CancelRunning(o)
  BY <1>2, OpStepOutcome
<1>3. CASE \E c \in Clients : Command(c)
  BY <1>3, CommandOutcome
<1>4. ASSUME NEW w \in Workers, Execute(w) \/ Crash(w) PROVE OpKept(q)
  <2>1. CASE FinishAbandonedCancellations(w) \/ CompleteOperation(w)
               \/ \E o \in Ops : Claim(w, o)
    BY <2>1, FinishOutcome, CompleteOutcome, ClaimOutcome
  <2>2. CASE op' = op
    BY <2>2, SameKept
  <2> QED BY Zenon, <1>4, <2>1, <2>2
      DEF Execute, Crash, NothingToClaim, LoadExecuted, PlanNotExecutable, Unavailable, Retry,
          Run, EnterProviderProvisioning, Save, Advance, VersionConflict, Block, Mark
<1> QED BY <1>1, <1>2, <1>3, <1>4 DEF Next

\* The types the arguments need hold in every state.
LEMMA AlwaysTyped == Spec => []Typed
<1>1. ClaimInv => Typed
  BY DEF ClaimInv
<1> QED BY <1>1, ClaimInit, ClaimNext, PTL DEF Spec

\* A recorded outcome is final (OutcomeIsFinal), whatever executors of resumed
\* or cancelled attempts come back to record.
THEOREM OutcomesFinal == Spec => OutcomeIsFinal
<1>1. Typed /\ [Next]_vars =>
        [\A o \in Ops :
           op[o].status \in {"SUCCEEDED", "CANCELLED", "FAILED", "BLOCKED"} /\ op'[o] # op[o] =>
             /\ op[o].retryable /\ op[o].status \in {"FAILED", "BLOCKED"}
             /\ op'[o].status = "QUEUED" /\ op'[o].attempt = op[o].attempt + 1]_vars
  BY StepOutcome DEF OpKept, OutcomeKept, Final
<1> QED BY <1>1, AlwaysTyped, PTL DEF Spec, OutcomeIsFinal

\* An operation asked to stop ends CANCELLED, unless its work was done
\* (AskedToStopStops).
THEOREM StopsWhenAsked == Spec => AskedToStopStops
<1>1. Typed /\ [Next]_vars =>
        [\A o \in Ops :
           op[o].status = "CANCEL_REQUESTED" =>
             op'[o].status \in {"CANCEL_REQUESTED", "CANCELLED", "SUCCEEDED"}]_vars
  BY StepOutcome DEF OpKept, StopKept
<1> QED BY <1>1, AlwaysTyped, PTL DEF Spec, AskedToStopStops

-----------------------------------------------------------------------------
(* The provisioning row *)

Writing(w) == worker[w].pc \in {"save", "advance"}

\* A pending write that will still find its version was read from the row as
\* it is, and moves it legally.
WriteSound(w) ==
  LET me == worker[w]
  IN Writing(w) =>
       /\ me.version \in Nat /\ me.version <= row.version
       /\ me.version = row.version => me.status = row.status
       /\ \/ TransitionProvisioning(me.status, me.to)
          \/ me.pc = "save" /\ me.to = me.status

RowTyped == DOMAIN row = {"status", "state", "version"} /\ row.version \in Nat

RowInv == RowTyped /\ \A w \in Workers : WriteSound(w)

\* What a step does to the row under other executors' pending writes.
RowRaised ==
  /\ RowTyped'
  /\ row'.version >= row.version
  /\ row'.version = row.version => row'.status = row.status

Unwritten(w) == worker'[w] = worker[w] \/ worker'[w].pc \notin {"save", "advance"}

\* A write that is pending stays sound while the row only moves on.
LEMMA WritesStaySound ==
  ASSUME RowInv, RowRaised, NEW w \in Workers, Unwritten(w)
  PROVE  WriteSound(w)'
<1>1. CASE worker'[w] = worker[w] /\ Writing(w)
  <2> DEFINE v == worker[w].version
  <2>1. /\ v \in Nat /\ row.version \in Nat /\ row'.version \in Nat
        /\ v <= row.version /\ row'.version >= row.version
        /\ v = row.version => worker[w].status = row.status
        /\ row'.version = row.version => row'.status = row.status
        /\ \/ TransitionProvisioning(worker[w].status, worker[w].to)
           \/ worker[w].pc = "save" /\ worker[w].to = worker[w].status
    BY <1>1 DEF RowInv, WriteSound, RowRaised, RowTyped
  <2> HIDE DEF v
  <2>2. v <= row'.version /\ (v = row'.version => v = row.version /\ row'.version = row.version)
    BY <2>1
  <2>3. v = row'.version => worker[w].status = row'.status
    BY <2>1, <2>2
  <2> QED BY <1>1, <2>1, <2>2, <2>3 DEF WriteSound, Writing, v
<1>2. CASE ~Writing(w)'
  BY <1>2 DEF WriteSound
<1> QED BY <1>1, <1>2 DEF Unwritten, Writing

\* A row that does not change has not gone back.
LEMMA RowSame == ASSUME RowTyped, row' = row PROVE RowRaised
BY DEF RowTyped, RowRaised

\* Every write of the row raises its version.
LEMMA RowBumped ==
  ASSUME RowTyped, RowTyped', row'.version = row.version + 1
  PROVE  RowRaised
BY DEF RowTyped, RowRaised

\* No executor moves, so no write begins.
LEMMA NobodyWrites ==
  ASSUME worker' = worker
  PROVE  \A v \in Workers : Unwritten(v)
BY DEF Unwritten

\* An executor that goes anywhere but to a write begins none.
LEMMA NoWriteBegins ==
  ASSUME Typed, NEW w \in Workers, NEW r, worker' = [worker EXCEPT ![w] = r],
         r.pc \notin {"save", "advance"}
  PROVE  \A v \in Workers : Unwritten(v)
BY DEF Typed, Unwritten

\* Coming to an outcome begins no write.
LEMMA EndsWritesNothing ==
  ASSUME Typed, NEW w \in Workers, NEW outcome, NEW retryable, Ends(w, outcome, retryable)
  PROVE  \A v \in Workers : Unwritten(v)
BY Zenon, NoWriteBegins DEF Ends

\* Coming back from the pipeline begins no write.
LEMMA ReturnedWritesNothing ==
  ASSUME Typed, NEW w \in Workers, NEW status, Returned(w, status)
  PROVE  \A v \in Workers : Unwritten(v)
<1>1. (\E outcome, retryable : Ends(w, outcome, retryable)) \/ Goto(w, "block")
  BY Zenon DEF Returned
<1>2. CASE Goto(w, "block")
  BY Zenon, <1>2, NoWriteBegins DEF Goto
<1> QED BY <1>1, <1>2, EndsWritesNothing

\* Entering the pipeline begins no write.
LEMMA RunsWritesNothing ==
  ASSUME Typed, NEW w \in Workers, NEW pc \in {"retry", "run"}, NEW p, Runs(w, pc, p)
  PROVE  \A v \in Workers : Unwritten(v)
BY Zenon, NoWriteBegins DEF Runs

\* A write read from the row as it now is.
LEMMA WriteBegins ==
  ASSUME Typed, RowTyped', NEW w \in Workers, NEW pc \in {"save", "advance"}, NEW to,
         Writes(w, pc, row'.status, row'.version, to),
         TransitionProvisioning(row'.status, to) \/ (pc = "save" /\ to = row'.status)
  PROVE  WriteSound(w)' /\ \A v \in Workers \ {w} : Unwritten(v)
<1>1. /\ worker'[w].pc = pc /\ worker'[w].status = row'.status
      /\ worker'[w].version = row'.version /\ worker'[w].to = to
      /\ \A v \in Workers \ {w} : worker'[v] = worker[v]
  BY DEF Writes, Typed
<1>2. row'.version \in Nat /\ row'.version <= row'.version
  BY DEF RowTyped
<1> QED BY <1>1, <1>2 DEF WriteSound, Unwritten

-----------------------------------------------------------------------------
(* Each step, and the row *)

Followed ==
  row'.status # row.status =>
    row'.status = "CANCELLED" \/ TransitionProvisioning(row.status, row'.status)

RowKept == RowInv' /\ Followed

\* A step that begins no write.
LEMMA RowPassed ==
  ASSUME RowInv, RowRaised, \A v \in Workers : Unwritten(v), Followed
  PROVE  RowKept
<1>1. \A v \in Workers : WriteSound(v)'
  BY WritesStaySound
<1> QED BY <1>1 DEF RowInv, RowRaised, RowKept

\* A step that writes the row and not its status.
LEMMA RowTouched ==
  ASSUME RowInv, NEW state, \A v \in Workers : Unwritten(v),
         row' = [row EXCEPT !.state = state, !.version = @ + 1]
  PROVE  RowKept
<1>1. RowTyped' /\ row'.version = row.version + 1 /\ row'.status = row.status
  BY DEF RowInv, RowTyped
<1> QED BY <1>1, RowBumped, RowPassed DEF RowInv, Followed

\* A step that leaves the row and begins no write keeps the row invariant.
LEMMA RowUntouched ==
  ASSUME RowInv, row' = row, \A v \in Workers : Unwritten(v)
  PROVE  RowKept
BY RowSame, RowPassed DEF RowInv, Followed

\* Every command keeps the row invariant and moves the row along its table.
LEMMA CommandRow ==
  ASSUME RowInv, NEW c \in Clients, Command(c)
  PROVE  RowKept
<1>1. worker' = worker
  BY Zenon DEF Command, Load, LoadRetry, Refused, RecordPlanDecision, AcceptOperation, Replan, Withdraw,
         RetryOperation
<1>2. \A v \in Workers : Unwritten(v)
  BY <1>1, NobodyWrites
<1>3. CASE row' = row
  BY <1>2, <1>3, RowUntouched
<1>4. CASE row' = [row EXCEPT !.version = @ + 1]
  <2>1. row' = [row EXCEPT !.state = row.state, !.version = @ + 1]
    BY Zenon, <1>4 DEF RowInv, RowTyped
  <2> QED BY Zenon, <2>1, <1>2, RowTouched
<1>5. CASE \E state : row' = [row EXCEPT !.state = state, !.version = @ + 1]
  BY Zenon, <1>2, <1>5, RowTouched
<1>6. CASE row' = [status |-> "CANCELLED", state |-> "CANCELLED", version |-> row.version + 1]
  <2>1. RowTyped' /\ row'.version = row.version + 1 /\ row'.status = "CANCELLED"
    BY <1>6 DEF RowInv, RowTyped
  <2> QED BY <2>1, <1>2, RowBumped, RowPassed DEF RowInv, Followed
<1> QED BY ZenonT(30), <1>3, <1>4, <1>5, <1>6
    DEF Command, Load, LoadRetry, Refused, RecordPlanDecision, AcceptOperation, Replan, Withdraw,
        RetryOperation

\* Finishing an abandoned cancellation keeps the row invariant and the status.
LEMMA FinishRow ==
  ASSUME Typed, RowInv, NEW w \in Workers, FinishAbandonedCancellations(w)
  PROVE  RowKept
<1> DEFINE n == Cardinality(Abandoned)
           state == IF Abandoned = {} THEN row.state ELSE "BLOCKED"
<1>1. n \in Nat
  BY ExecutionAssumption DEF Abandoned
<1>2. row' = [row EXCEPT !.state = state, !.version = @ + n]
  BY Zenon DEF FinishAbandonedCancellations, RowInv, RowTyped
<1> HIDE DEF n, state
<1>3. RowTyped' /\ row'.version = row.version + n /\ row'.status = row.status
  BY <1>1, <1>2 DEF RowInv, RowTyped
<1>4. RowRaised
  BY <1>1, <1>3 DEF RowInv, RowTyped, RowRaised
<1>5. worker' = [worker EXCEPT ![w] = [pc |-> "claim"]]
  BY Zenon DEF FinishAbandonedCancellations
<1>6. \A v \in Workers : Unwritten(v)
  BY <1>5 DEF Typed, Unwritten
<1> QED BY <1>3, <1>4, <1>6, RowPassed DEF Followed

\* A step of an executor that begins a write of the row it reads.
LEMMA BeginRow ==
  ASSUME Typed, RowInv, row' = row, NEW w \in Workers, NEW pc \in {"save", "advance"}, NEW to,
         Writes(w, pc, row.status, row.version, to),
         TransitionProvisioning(row.status, to) \/ (pc = "save" /\ to = row.status)
  PROVE  RowKept
<1>1. RowTyped' /\ RowRaised /\ Followed
  BY RowSame DEF RowInv, RowTyped, Followed
<1>2. WriteSound(w)' /\ \A v \in Workers \ {w} : Unwritten(v)
  BY <1>1, WriteBegins
<1>3. \A v \in Workers : WriteSound(v)'
  BY <1>1, <1>2, WritesStaySound
<1> QED BY <1>1, <1>3 DEF RowInv, RowKept

\* A save takes effect only at the version it was computed from.
LEMMA SaveRow ==
  ASSUME Typed, RowInv, NEW w \in Workers, Save(w)
  PROVE  RowKept
<1> DEFINE me == worker[w]
<1>1. /\ me.version = row.version /\ me.status = row.status
      /\ TransitionProvisioning(me.status, me.to) \/ me.to = me.status
  BY DEF Save, AtVersion, RowInv, WriteSound, Writing
<1>2. row' = [row EXCEPT !.version = @ + 1]
  BY DEF Save
<1>3. RowTyped' /\ row'.version = row.version + 1 /\ row'.status = row.status
  BY <1>2 DEF RowInv, RowTyped
<1>4. RowRaised /\ Followed
  BY <1>3, RowBumped DEF RowInv, Followed
<1>5. CASE me.to = me.status
  <2>1. Returned(w, me.status)
    BY <1>5 DEF Save
  <2> QED BY <2>1, <1>4, ReturnedWritesNothing, RowPassed
<1>6. CASE me.to # me.status
  <2>1. Writes(w, "advance", me.status, me.version + 1, me.to)
    BY <1>6 DEF Save
  <2>2. Writes(w, "advance", row'.status, row'.version, me.to)
    BY <2>1, <1>1, <1>3
  <2>3. TransitionProvisioning(row'.status, me.to)
    BY <1>1, <1>3, <1>6
  <2>4. WriteSound(w)' /\ \A v \in Workers \ {w} : Unwritten(v)
    BY <2>2, <2>3, <1>3, WriteBegins
  <2>5. \A v \in Workers : WriteSound(v)'
    BY <1>4, <2>4, WritesStaySound
  <2> QED BY <1>3, <1>4, <2>5 DEF RowInv, RowKept
<1> QED BY <1>5, <1>6

\* An advance takes effect only at the version it was computed from.
LEMMA AdvanceRow ==
  ASSUME Typed, RowInv, NEW w \in Workers, Advance(w)
  PROVE  RowKept
<1> DEFINE me == worker[w]
<1>1. me.status = row.status /\ TransitionProvisioning(me.status, me.to)
  BY DEF Advance, AtVersion, RowInv, WriteSound, Writing
<1>2. row' = [status |-> me.to, state |-> Canonical(me.to), version |-> row.version + 1]
  BY DEF Advance
<1>3. RowTyped' /\ row'.version = row.version + 1 /\ row'.status = me.to
  BY <1>2 DEF RowInv, RowTyped
<1>4. RowRaised /\ Followed
  BY <1>1, <1>3, RowBumped DEF RowInv, Followed
<1>5. Returned(w, me.to) \/ Runs(w, "run", me.plan)
  BY DEF Advance
<1>6. \A v \in Workers : Unwritten(v)
  BY <1>5, ReturnedWritesNothing, RunsWritesNothing
<1> QED BY <1>4, <1>6, RowPassed

\* A step of the pipeline keeps the row invariant.
LEMMA RunRow ==
  ASSUME Typed, RowInv, NEW w \in Workers, Run(w)
  PROVE  RowKept
<1>1. row' = row
  BY DEF Run
<1>2. CASE Returned(w, row.status)
  BY <1>1, <1>2, ReturnedWritesNothing, RowUntouched
<1>3. CASE \E r \in PhaseResults(row.status) : Writes(w, r[1], row.status, row.version, r[2])
  <2>1. PICK r \in PhaseResults(row.status) : Writes(w, r[1], row.status, row.version, r[2])
    BY <1>3
  <2>2. /\ r[1] \in {"save", "advance"}
        /\ TransitionProvisioning(row.status, r[2]) \/ (r[1] = "save" /\ r[2] = row.status)
    BY PhaseSteps
  <2> QED BY <1>1, <2>1, <2>2, BeginRow
<1> QED BY <1>2, <1>3 DEF Run

\* A retry keeps the row invariant and moves the row along its table.
LEMMA RetryRow ==
  ASSUME Typed, RowInv, NEW w \in Workers, Retry(w)
  PROVE  RowKept
<1>1. row' = row
  BY DEF Retry
<1>2. \/ row.status = "FAILED" /\ Writes(w, "advance", row.status, row.version, "APPLY")
      \/ \E outcome, retryable : Ends(w, outcome, retryable)
  BY Zenon DEF Retry
<1>3. TransitionProvisioning("FAILED", "APPLY")
  BY DEF TransitionProvisioning
<1> QED BY <1>1, <1>2, <1>3, BeginRow, EndsWritesNothing, RowUntouched

\* A change of state alone leaves every pending write as sound as it was.
LEMMA EnterRow ==
  ASSUME RowInv, NEW w \in Workers, EnterProviderProvisioning(w)
  PROVE  RowKept
<1>1. row' = [row EXCEPT !.state = "PROVISIONING_PROVIDERS"] /\ worker' = worker
  BY DEF EnterProviderProvisioning
<1>2. RowTyped' /\ row'.version = row.version /\ row'.status = row.status
  BY <1>1 DEF RowInv, RowTyped
<1>3. RowRaised /\ Followed
  BY <1>2 DEF RowInv, RowTyped, RowRaised, Followed
<1> QED BY <1>1, <1>3, NobodyWrites, RowPassed

\* The other steps of an executor.
LEMMA OtherRow ==
  ASSUME Typed, RowInv, NEW w \in Workers,
         \/ \E o \in Ops : Claim(w, o)
         \/ NothingToClaim(w) \/ LoadExecuted(w) \/ PlanNotExecutable(w) \/ Unavailable(w)
         \/ VersionConflict(w) \/ Block(w) \/ CompleteOperation(w) \/ Mark(w) \/ Crash(w)
  PROVE  RowKept
<1>1. \A v \in Workers : Unwritten(v)
  <2>1. CASE PlanNotExecutable(w) \/ Unavailable(w) \/ VersionConflict(w) \/ Block(w)
    BY Zenon, <2>1, EndsWritesNothing DEF PlanNotExecutable, Unavailable, VersionConflict, Block
  <2>2. CASE LoadExecuted(w)
    <3>1. \/ \E b \in BOOLEAN : Ends(w, "FAILED", b)
          \/ \E pc \in {"retry", "run"} : Runs(w, pc, plan.version)
      BY Zenon, <2>2 DEF LoadExecuted
    <3> QED BY <3>1, EndsWritesNothing, RunsWritesNothing
  <2>3. CASE NothingToClaim(w) \/ Mark(w) \/ Crash(w)
    <3>1. worker' = [worker EXCEPT ![w] = Idle]
      BY <2>3 DEF NothingToClaim, Mark, Crash
    <3> QED BY <3>1 DEF Idle, Typed, Unwritten
  <2>5. CASE \E o \in Ops : Claim(w, o)
    <3>1. PICK o, a : worker' = [worker EXCEPT ![w] = [pc |-> "load", op |-> o, attempt |-> a]]
      BY Zenon, <2>5 DEF Claim
    <3> QED BY <3>1 DEF Typed, Unwritten
  <2>4. CASE CompleteOperation(w)
    BY <2>4 DEF CompleteOperation, Idle, Typed, Unwritten
  <2> QED BY <2>1, <2>2, <2>3, <2>4, <2>5
<1>2. CASE row' = row
  BY <1>1, <1>2, RowUntouched
<1>3. CASE \E state : row' = [row EXCEPT !.state = state, !.version = @ + 1]
  BY ZenonT(30), <1>1, <1>3, RowTouched
<1>4. CASE Block(w) \/ Mark(w)
  <2>1. row' = row \/ \E state : row' = [row EXCEPT !.state = state, !.version = @ + 1]
    BY Zenon, <1>4 DEF Block, Mark, BlockedRow
  <2> QED BY ZenonT(30), <2>1, <1>2, <1>3
<1> QED BY Zenon, <1>2, <1>4
    DEF Claim, NothingToClaim, LoadExecuted, PlanNotExecutable, Unavailable, VersionConflict,
        CompleteOperation, Crash

\* Every step keeps the row invariant and moves the row along its table.
LEMMA StepRow ==
  ASSUME Typed, RowInv, [Next]_vars
  PROVE  RowKept
<1>1. CASE WorldChanges \/ PlanExpires \/ UNCHANGED vars
  BY <1>1, NobodyWrites, RowUntouched DEF WorldChanges, PlanExpires, vars
<1>2. ASSUME NEW o \in Ops, LeaseLapses(o) \/ CancelQueued(o) \/ CancelRunning(o)
      PROVE  RowKept
  <2>1. worker' = worker
    BY <1>2 DEF LeaseLapses, CancelQueued, CancelRunning
  <2>2. row' = row \/ row' = BlockedRow
    BY <1>2 DEF LeaseLapses, CancelQueued, CancelRunning
  <2> QED BY Zenon, <2>1, <2>2, NobodyWrites, RowUntouched, RowTouched DEF BlockedRow
<1>3. CASE \E c \in Clients : Command(c)
  BY <1>3, CommandRow
<1>4. ASSUME NEW w \in Workers, Execute(w) \/ Crash(w) PROVE RowKept
  BY <1>4, FinishRow, SaveRow, AdvanceRow, RunRow, RetryRow, EnterRow, OtherRow DEF Execute
<1> QED BY <1>1, <1>2, <1>3, <1>4 DEF Next

\* The row invariant holds in every state.
LEMMA AlwaysRow == Spec => []RowInv
<1>1. Init => RowInv
  <2> SUFFICES ASSUME Init PROVE RowInv
    OBVIOUS
  <2>1. RowTyped
    BY Zenon DEF Init, RowTyped
  <2>2. \A w \in Workers : ~Writing(w)
    BY Zenon DEF Init, Writing, Idle
  <2> QED BY <2>1, <2>2 DEF RowInv, WriteSound
<1>2. Typed /\ RowInv /\ [Next]_vars => RowInv'
  BY StepRow DEF RowKept
<1> QED BY <1>1, <1>2, AlwaysTyped, PTL DEF Spec

\* The status moves along provisioningTransitions, or to CANCELLED when an
\* operator withdraws (StatusFollowsTransitions), although executors of lapsed
\* leases go on writing: UpdateTenantProvisioning finds the version they read
\* only while the status they read is the row's.
THEOREM StatusFollows == Spec => StatusFollowsTransitions
<1>1. Typed /\ RowInv /\ [Next]_vars =>
        [row'.status # row.status =>
           row'.status = "CANCELLED" \/ TransitionProvisioning(row.status, row'.status)]_vars
  BY StepRow DEF RowKept, Followed
<1> QED BY <1>1, AlwaysTyped, AlwaysRow, PTL DEF Spec, StatusFollowsTransitions

-----------------------------------------------------------------------------
(* The plan an executor runs *)

PlanRow == [version : 1..MaxPlans, world : Worlds, expired : BOOLEAN]

\* A manifest in execution came from a plan somebody approved, superseded since
\* or not; an outcome to record says whether it may be retried.
WorkSound(me) ==
  /\ me.pc \in {"retry", "run", "save", "advance"} => me.plan \in approved
  /\ me.pc = "complete" => me.retryable \in BOOLEAN

\* The decision APPROVED is about the current plan.
PlanInv ==
  /\ plan \in PlanRow /\ world \in Worlds /\ decision \in {"", "APPROVED", "DECLINED"}
  /\ decision = "APPROVED" => plan.version \in approved
  /\ \A w \in Workers : WorkSound(worker[w])
  /\ \A c \in Clients : request[c].pc = "REPLAN" => request[c].world \in Worlds

\* Executors only ever work on plans that were approved.
LEMMA ExecutorPlans ==
  ASSUME Typed, PlanInv, NEW w \in Workers, Execute(w) \/ Crash(w)
  PROVE  \A v \in Workers : WorkSound(worker'[v])
<1> DEFINE Sound == \A v \in Workers : WorkSound(worker'[v])
<1> HIDE DEF Sound
<1> SUFFICES Sound
  BY DEF Sound
<1>1. ASSUME NEW r, worker' = [worker EXCEPT ![w] = r], WorkSound(r) PROVE Sound
  BY Zenon, <1>1 DEF Typed, PlanInv, Sound
<1>2. ASSUME NEW outcome, NEW retryable \in BOOLEAN, Ends(w, outcome, retryable) PROVE Sound
  BY Zenon, <1>1, <1>2 DEF Ends, WorkSound
<1>3. ASSUME NEW pc \in {"retry", "run"}, NEW p \in approved, Runs(w, pc, p) PROVE Sound
  BY Zenon, <1>1, <1>3 DEF Runs, WorkSound
<1>4. ASSUME Executing(w), NEW pc \in {"save", "advance"}, NEW status, NEW version, NEW to,
             Writes(w, pc, status, version, to)
      PROVE  Sound
  <2>1. worker[w].plan \in approved
    BY Zenon, <1>4 DEF PlanInv, WorkSound, Executing
  <2> QED BY Zenon, <1>1, <1>4, <2>1 DEF Writes, WorkSound
<1>5. ASSUME NEW status, Returned(w, status) PROVE Sound
  <2>1. (\E outcome : \E b \in BOOLEAN : Ends(w, outcome, b)) \/ Goto(w, "block")
    BY Zenon, <1>5 DEF Returned
  <2>2. CASE Goto(w, "block")
    BY Zenon, <1>1, <2>2 DEF Goto, WorkSound
  <2> QED BY <2>1, <2>2, <1>2
<1>6. CASE FinishAbandonedCancellations(w) \/ NothingToClaim(w) \/ Mark(w) \/ Crash(w)
  <2>1. worker' = [worker EXCEPT ![w] = Idle] \/ worker' = [worker EXCEPT ![w] = [pc |-> "claim"]]
    BY Zenon, <1>6 DEF FinishAbandonedCancellations, NothingToClaim, Mark, Crash
  <2>2. WorkSound(Idle) /\ WorkSound([pc |-> "claim"])
    BY DEF Idle, WorkSound
  <2> QED BY <1>1, <2>1, <2>2
<1>7. CASE \E o \in Ops : Claim(w, o)
  <2>1. PICK o, a : worker' = [worker EXCEPT ![w] = [pc |-> "load", op |-> o, attempt |-> a]]
    BY Zenon, <1>7 DEF Claim
  <2>2. WorkSound([pc |-> "load", op |-> o, attempt |-> a])
    BY DEF WorkSound
  <2> QED BY Zenon, <1>1, <2>1, <2>2
<1>8. CASE PlanNotExecutable(w) \/ Unavailable(w) \/ VersionConflict(w) \/ Block(w)
  BY Zenon, <1>2, <1>8 DEF PlanNotExecutable, Unavailable, VersionConflict, Block
<1>9. CASE LoadExecuted(w)
  <2>1. \/ \E b \in BOOLEAN : Ends(w, "FAILED", b)
        \/ Bound(w) /\ \E pc \in {"retry", "run"} : Runs(w, pc, plan.version)
    BY Zenon, <1>9 DEF LoadExecuted
  <2>2. Bound(w) => plan.version \in approved
    BY DEF Bound, PlanInv
  <2> QED BY <1>2, <1>3, <2>1, <2>2
<1>10. CASE Retry(w)
  <2>1. Executing(w)
    BY <1>10 DEF Retry, Executing
  <2>2. \/ \E outcome : \E b \in BOOLEAN : Ends(w, outcome, b)
        \/ Writes(w, "advance", row.status, row.version, "APPLY")
    BY Zenon, <1>10 DEF Retry
  <2> QED BY <1>2, <1>4, <2>1, <2>2
<1>11. CASE Run(w)
  <2>1. Executing(w)
    BY <1>11 DEF Run, Executing
  <2>2. \/ \E r \in PhaseResults(row.status) : Writes(w, r[1], row.status, row.version, r[2])
        \/ Returned(w, row.status)
    BY <1>11 DEF Run
  <2>3. \A r \in PhaseResults(row.status) : r[1] \in {"save", "advance"}
    BY PhaseSteps
  <2> QED BY <1>4, <1>5, <2>1, <2>2, <2>3
<1>12. CASE Save(w)
  <2>1. Executing(w)
    BY <1>12 DEF Save, Executing
  <2>2. \/ Returned(w, worker[w].status)
        \/ Writes(w, "advance", worker[w].status, worker[w].version + 1, worker[w].to)
    BY <1>12 DEF Save
  <2> QED BY <1>4, <1>5, <2>1, <2>2
<1>13. CASE Advance(w)
  <2>1. worker[w].plan \in approved
    BY Zenon, <1>13 DEF Advance, WorkSound, PlanInv
  <2>2. Returned(w, worker[w].to) \/ Runs(w, "run", worker[w].plan)
    BY <1>13 DEF Advance
  <2> QED BY <1>3, <1>5, <2>1, <2>2
<1>14. CASE EnterProviderProvisioning(w)
  BY Zenon, <1>14 DEF EnterProviderProvisioning, PlanInv, Sound
<1>15. CASE CompleteOperation(w)
  <2>1. PICK r : worker' = [worker EXCEPT ![w] = r] /\ r.pc \in {"mark", "idle"}
    <3> DEFINE me == worker[w]
               marked(v) == [pc |-> "mark", op |-> me.op, attempt |-> me.attempt,
                             outcome |-> v, retryable |-> me.retryable]
    <3>1. \/ worker' = [worker EXCEPT ![w] = Idle]
          \/ \E v : worker' = [worker EXCEPT ![w] = marked(v)]
      BY <1>15, Zenon DEF CompleteOperation
    <3>2. Idle.pc = "idle" /\ \A v : marked(v).pc = "mark"
      BY DEF Idle
    <3> HIDE DEF marked
    <3> QED BY <3>1, <3>2
  <2> QED BY Zenon, <1>1, <2>1 DEF WorkSound
<1> QED BY <1>6, <1>7, <1>8, <1>9, <1>10, <1>11, <1>12, <1>13, <1>14, <1>15 DEF Execute

\* Executors leave plans, decisions, the world and requests alone.
LEMMA ExecutorPlanUnchanged ==
  ASSUME PlanInv, NEW w \in Workers, Execute(w) \/ Crash(w)
  PROVE  UNCHANGED <<plan, decision, world, request, approved>>
<1>1. CASE Execute(w)
  BY Zenon, <1>1 DEF Execute, FinishAbandonedCancellations, Claim, NothingToClaim, LoadExecuted, PlanNotExecutable,
     Unavailable, Retry, Run, EnterProviderProvisioning, Save, Advance, VersionConflict, Block,
     CompleteOperation, Mark
<1>2. CASE Crash(w)
  BY <1>2 DEF Crash
<1> QED BY <1>1, <1>2

\* Every command keeps the plan invariant.
LEMMA CommandPlans ==
  ASSUME Typed, PlanInv, NEW c \in Clients, Command(c)
  PROVE  PlanInv'
<1>1. worker' = worker /\ approved \subseteq approved' /\ world' = world
  BY Zenon DEF Command, Load, LoadRetry, Refused, RecordPlanDecision, AcceptOperation, Replan, Withdraw,
         RetryOperation
<1>2. \A w \in Workers : WorkSound(worker[w])'
  BY Zenon, <1>1 DEF PlanInv, WorkSound
<1>3. \A d \in Clients : request'[d].pc = "REPLAN" => request'[d].world \in Worlds
  <2>1. \/ request' = [request EXCEPT ![c] = Idle]
        \/ \E o : request' = [request EXCEPT ![c] = [pc |-> "RETRY", op |-> o]]
        \/ \E kind, version : request' =
             [request EXCEPT ![c] = [pc |-> kind, version |-> version, world |-> world]]
    BY Zenon DEF Command, Load, LoadRetry, Refused, RecordPlanDecision, AcceptOperation, Replan, Withdraw,
           RetryOperation, Locked
  <2>2. \A d \in Clients \ {c} : request'[d] = request[d]
    BY <2>1 DEF Typed
  <2>3. request'[c].pc = "REPLAN" => request'[c].world = world
    BY <2>1 DEF Typed, Idle
  <2> QED BY ZenonT(30), <2>2, <2>3 DEF PlanInv
<1>4. /\ plan' \in PlanRow /\ decision' \in {"", "APPROVED", "DECLINED"}
      /\ decision' = "APPROVED" => plan'.version \in approved'
  <2>1. CASE UNCHANGED <<plan, decision, approved>>
    BY Zenon, <2>1 DEF PlanInv
  <2>2. CASE Replan(c)
    <3>1. /\ plan' = [version |-> plan.version + 1, world |-> request[c].world, expired |-> FALSE]
          /\ decision' = "" /\ plan.version < MaxPlans /\ request[c].pc = "REPLAN"
      BY Zenon, <2>2 DEF Replan, Locked
    <3>2. plan.version \in 1..MaxPlans /\ plan.version < MaxPlans
      BY Zenon, <3>1 DEF PlanInv, PlanRow
    <3>3. plan.version + 1 \in 1..MaxPlans
      BY <3>2, ExecutionAssumption
    <3> QED BY Zenon, <3>1, <3>3 DEF PlanInv, PlanRow
  <2>3. CASE RecordPlanDecision(c, "APPROVE", "APPROVED") \/ RecordPlanDecision(c, "DECLINE", "DECLINED")
    BY Zenon, <2>3 DEF RecordPlanDecision, PlanInv
  <2> QED BY Zenon, <2>1, <2>2, <2>3
      DEF Command, Load, LoadRetry, Refused, AcceptOperation, Withdraw, RetryOperation
<1> QED BY ZenonT(30), <1>1, <1>2, <1>3, <1>4 DEF PlanInv

\* Every step keeps the plan invariant.
LEMMA StepPlans ==
  ASSUME Typed, PlanInv, [Next]_vars
  PROVE  PlanInv'
<1>1. CASE UNCHANGED vars
  BY Zenon, <1>1 DEF vars, PlanInv, WorkSound
<1>2. CASE WorldChanges
  BY Zenon, <1>2 DEF WorldChanges, PlanInv, WorkSound
<1>3. CASE PlanExpires
  <2>1. plan' \in PlanRow /\ plan'.version = plan.version
    BY Zenon, <1>3 DEF PlanExpires, PlanInv, PlanRow
  <2>2. UNCHANGED <<decision, world, worker, request, approved>>
    BY <1>3 DEF PlanExpires
  <2> QED BY Zenon, <2>1, <2>2 DEF PlanInv, WorkSound
<1>4. CASE \E o \in Ops : LeaseLapses(o) \/ CancelQueued(o) \/ CancelRunning(o)
  BY Zenon, <1>4 DEF LeaseLapses, CancelQueued, CancelRunning, PlanInv, WorkSound
<1>5. CASE \E c \in Clients : Command(c)
  BY <1>5, CommandPlans
<1>6. ASSUME NEW w \in Workers, Execute(w) \/ Crash(w) PROVE PlanInv'
  <2>1. (\A v \in Workers : WorkSound(worker'[v])) /\ UNCHANGED <<plan, decision, world, request, approved>>
    BY <1>6, ExecutorPlans, ExecutorPlanUnchanged
  <2> QED BY Zenon, <2>1 DEF PlanInv, WorkSound
<1> QED BY <1>1, <1>2, <1>3, <1>4, <1>5, <1>6 DEF Next

\* The plan invariant holds in every state.
LEMMA AlwaysPlans == Spec => []PlanInv
<1>1. Init => PlanInv
  <2> SUFFICES ASSUME Init PROVE PlanInv
    OBVIOUS
  <2>1. plan \in PlanRow
    <3>1. 1 \in 1..MaxPlans
      BY ExecutionAssumption
    <3>2. plan = [version |-> 1, world |-> world, expired |-> FALSE] /\ world \in Worlds
      BY Zenon DEF Init
    <3> QED BY <3>1, <3>2 DEF PlanRow
  <2>2. (\A w \in Workers : WorkSound(worker[w])) /\ \A c \in Clients : request[c].pc # "REPLAN"
    BY Zenon DEF Init, WorkSound, Idle
  <2> QED BY Zenon, <2>1, <2>2 DEF Init, PlanInv
<1>2. Typed /\ PlanInv /\ [Next]_vars => PlanInv'
  BY StepPlans
<1> QED BY <1>1, <1>2, AlwaysTyped, PTL DEF Spec

\* The pipeline runs only manifests of plans that were approved
\* (ExecutesOnlyApprovedPlans), for any number of executors, requests and plans:
\* execute checks the binding again, whatever the accepting command checked.
THEOREM OnlyApprovedExecuted == Spec => []ExecutesOnlyApprovedPlans
<1>1. PlanInv => ExecutesOnlyApprovedPlans
  BY Zenon DEF PlanInv, WorkSound, Executing, ExecutesOnlyApprovedPlans
<1> QED BY <1>1, AlwaysPlans, PTL

-----------------------------------------------------------------------------
(* Types *)

OpRow == [status : OpStatuses, attempt : Nat, retryable : BOOLEAN, lapsed : BOOLEAN, plan : Nat]

OpsTyped == op \in [Ops -> OpRow]

StateTyped == row.status \in Statuses /\ row.state \in States

\* Writing an operation row keeps the operations typed.
LEMMA OpWritten ==
  ASSUME OpsTyped, NEW o \in Ops, NEW r \in OpRow, op' = [op EXCEPT ![o] = r]
  PROVE  OpsTyped'
BY DEF OpsTyped

\* Every command keeps the operations typed.
LEMMA CommandOps ==
  ASSUME Typed, PlanInv, OpsTyped, NEW c \in Clients, Command(c)
  PROVE  OpsTyped'
<1>1. CASE op' = op
  BY <1>1 DEF OpsTyped
<1>2. CASE \E kind, state : AcceptOperation(c, kind, state)
  <2> DEFINE r == [status |-> "QUEUED", attempt |-> 1, retryable |-> FALSE, lapsed |-> FALSE,
                   plan |-> plan.version]
  <2>1. PICK o \in Ops : op' = [op EXCEPT ![o] = r]
    BY Zenon, <1>2 DEF AcceptOperation
  <2>2. plan.version \in Nat
    <3>1. plan.version \in 1..MaxPlans
      BY Zenon DEF PlanInv, PlanRow
    <3> QED BY <3>1, ExecutionAssumption
  <2>3. r \in OpRow
    BY <2>2 DEF OpRow, OpStatuses, ActiveStatuses
  <2> HIDE DEF r
  <2> QED BY Zenon, <2>1, <2>3, OpWritten
<1>3. CASE RetryOperation(c)
  <2> DEFINE o == request[c].op
             r == [op[o] EXCEPT !.status = "QUEUED", !.attempt = @ + 1, !.retryable = FALSE,
                                !.lapsed = FALSE]
  <2>1. o \in Ops /\ op[o] \in OpRow
    BY <1>3 DEF RetryOperation, Typed, OpsTyped
  <2>2. r \in OpRow
    <3>1. op[o].attempt \in Nat /\ "QUEUED" \in OpStatuses
      BY Zenon, <2>1 DEF OpRow, OpStatuses, ActiveStatuses
    <3> DEFINE n == op[o].attempt + 1
    <3>2. n \in Nat
      BY <3>1
    <3> HIDE DEF n
    <3>3. [op[o] EXCEPT !.status = "QUEUED", !.attempt = n, !.retryable = FALSE, !.lapsed = FALSE] \in OpRow
      BY Zenon, <2>1, <3>1, <3>2 DEF OpRow
    <3> QED BY <3>3 DEF n
  <2>3. op' = [op EXCEPT ![o] = r]
    BY <1>3, <2>1 DEF RetryOperation, OpsTyped, OpRow
  <2> QED BY Zenon, <2>1, <2>2, <2>3, OpWritten
<1> QED BY Zenon, <1>1, <1>2, <1>3
    DEF Command, Load, LoadRetry, Refused, RecordPlanDecision, Replan, Withdraw

\* Lapses and cancellations keep the operations typed.
LEMMA OpStepOps ==
  ASSUME OpsTyped, NEW o \in Ops, LeaseLapses(o) \/ CancelQueued(o) \/ CancelRunning(o)
  PROVE  OpsTyped'
<1>1. op[o] \in OpRow
  BY DEF OpsTyped
<1>2. CASE LeaseLapses(o)
  <2>1. op' = [op EXCEPT ![o] = [op[o] EXCEPT !.lapsed = TRUE]]
    BY <1>2 DEF LeaseLapses, OpsTyped, OpRow
  <2>2. [op[o] EXCEPT !.lapsed = TRUE] \in OpRow
    BY Zenon, <1>1 DEF OpRow
  <2> QED BY Zenon, <2>1, <2>2, OpWritten
<1>3. CASE CancelQueued(o)
  <2>1. op' = [op EXCEPT ![o] = [op[o] EXCEPT !.status = "CANCELLED", !.retryable = FALSE]]
    BY Zenon, <1>3 DEF CancelQueued, OpsTyped, OpRow
  <2>2. [op[o] EXCEPT !.status = "CANCELLED", !.retryable = FALSE] \in OpRow
    BY Zenon, <1>1 DEF OpRow, OpStatuses
  <2> QED BY Zenon, <2>1, <2>2, OpWritten
<1>4. CASE CancelRunning(o)
  <2>1. op' = [op EXCEPT ![o] = [op[o] EXCEPT !.status = "CANCEL_REQUESTED"]]
    BY <1>4 DEF CancelRunning, OpsTyped, OpRow
  <2>2. [op[o] EXCEPT !.status = "CANCEL_REQUESTED"] \in OpRow
    BY Zenon, <1>1 DEF OpRow, OpStatuses, ActiveStatuses
  <2> QED BY Zenon, <2>1, <2>2, OpWritten
<1> QED BY <1>2, <1>3, <1>4

\* Every step of an executor keeps the operations typed.
LEMMA ExecutorOps ==
  ASSUME Typed, PlanInv, OpsTyped, NEW w \in Workers, Execute(w) \/ Crash(w)
  PROVE  OpsTyped'
<1>1. CASE op' = op
  BY <1>1 DEF OpsTyped
<1>2. CASE FinishAbandonedCancellations(w)
  <2> DEFINE r(o) == [op[o] EXCEPT !.status = "CANCELLED", !.retryable = FALSE, !.lapsed = FALSE]
  <2>1. op' = [o \in Ops |-> IF o \in Abandoned THEN r(o) ELSE op[o]]
    BY Zenon, <1>2 DEF FinishAbandonedCancellations
  <2>2. \A o \in Ops : op[o] \in OpRow
    BY DEF OpsTyped
  <2>3. \A o \in Ops : r(o) \in OpRow
    BY Zenon, <2>2 DEF OpRow, OpStatuses
  <2> HIDE DEF r
  <2> QED BY <2>1, <2>2, <2>3 DEF OpsTyped
<1>3. CASE \E o \in Ops : Claim(w, o)
  <2>1. PICK o \in Ops : Claim(w, o)
    BY <1>3
  <2> DEFINE a == ClaimedAttempt(o)
             r == [op[o] EXCEPT !.status = "RUNNING", !.attempt = a, !.lapsed = FALSE]
  <2>2. op[o] \in OpRow /\ op[o].attempt \in Nat
    BY DEF OpsTyped, OpRow
  <2>3. a \in Nat
    BY <2>2 DEF ClaimedAttempt
  <2>4. op' = [op EXCEPT ![o] = r]
    BY Zenon, <2>1 DEF Claim, OpsTyped, OpRow
  <2> HIDE DEF a
  <2>5. r \in OpRow
    BY Zenon, <2>2, <2>3 DEF OpRow, OpStatuses, ActiveStatuses
  <2> QED BY Zenon, <2>4, <2>5, OpWritten
<1>4. CASE CompleteOperation(w) /\ Held(w)
  <2> DEFINE me == worker[w]
             o == me.op
             asked == op[o].status = "CANCEL_REQUESTED"
             recorded == IF asked /\ me.outcome # "SUCCEEDED" THEN "CANCELLED" ELSE me.outcome
             again == me.retryable /\ ~asked
             r == [op[o] EXCEPT !.status = recorded, !.lapsed = FALSE, !.retryable = again]
  <2>1. Holds(w) /\ me.pc = "complete"
    BY <1>4 DEF CompleteOperation, Holds
  <2>2. o \in Ops /\ op[o] \in OpRow /\ me.outcome \in Outcomes
    BY <2>1 DEF Typed, OpsTyped
  <2>3. recorded \in OpStatuses
    BY Zenon, <2>2 DEF Outcomes, OpStatuses
  <2>4. again \in BOOLEAN
    OBVIOUS
  <2>5. op' = [op EXCEPT ![o] = r]
    BY Zenon, <1>4, <2>2 DEF CompleteOperation, OpsTyped, OpRow
  <2> HIDE DEF recorded, again
  <2>6. r \in OpRow
    BY Zenon, <2>2, <2>3, <2>4 DEF OpRow
  <2> QED BY Zenon, <2>2, <2>5, <2>6, OpWritten
<1> QED BY Zenon, <1>1, <1>2, <1>3, <1>4
    DEF Execute, NothingToClaim, LoadExecuted, PlanNotExecutable, Unavailable, Retry, Run,
        EnterProviderProvisioning, Save, Advance, VersionConflict, Block, CompleteOperation, Mark, Crash

\* Every step keeps the operations typed.
LEMMA StepOps ==
  ASSUME Typed, PlanInv, OpsTyped, [Next]_vars
  PROVE  OpsTyped'
<1>1. CASE WorldChanges \/ PlanExpires \/ UNCHANGED vars
  BY <1>1 DEF WorldChanges, PlanExpires, vars, OpsTyped
<1> QED BY <1>1, OpStepOps, CommandOps, ExecutorOps DEF Next

-----------------------------------------------------------------------------

\* A transition of the table leads to a status.
LEMMA TransitionTyped ==
  ASSUME NEW from, NEW to, TransitionProvisioning(from, to)
  PROVE  to \in Statuses
BY DEF TransitionProvisioning, Statuses

\* Every status stands for a state.
LEMMA CanonicalTyped == \A s \in Statuses : Canonical(s) \in States
BY DEF Canonical, Statuses, States

\* Every write of the row gives it a canonical state.
LEMMA StepState ==
  ASSUME RowInv, StateTyped, [Next]_vars
  PROVE  row'.state \in States
<1> DEFINE Good == row'.state \in States
<1> HIDE DEF Good
<1> SUFFICES Good
  BY DEF Good
<1>1. CASE row' = row
  BY <1>1 DEF StateTyped, Good
<1>2. CASE row' = [row EXCEPT !.version = @ + 1]
  BY <1>2 DEF RowInv, RowTyped, StateTyped, Good
<1>3. ASSUME NEW s \in States, NEW v, row' = [row EXCEPT !.state = s, !.version = v] PROVE Good
  BY <1>3 DEF RowInv, RowTyped, Good
<1>4. ASSUME NEW s \in States, row' = [row EXCEPT !.state = s, !.version = @ + 1] PROVE Good
  BY <1>4 DEF RowInv, RowTyped, Good
<1>5. CASE row' = BlockedRow
  <2>1. "BLOCKED" \in States
    BY DEF States
  <2> QED BY Zenon, <1>4, <1>5, <2>1 DEF BlockedRow
<1>6. CASE \E c \in Clients : Command(c)
  <2>1. PICK c \in Clients : Command(c)
    BY <1>6
  <2>2. CASE \E kind : AcceptOperation(c, kind, row.state) \/ AcceptOperation(c, kind, "REMEDIATING")
    <3>1. row.state \in States /\ "REMEDIATING" \in States
      BY DEF StateTyped, States
    <3> QED BY Zenon, <1>4, <2>2, <3>1 DEF AcceptOperation
  <2>3. CASE Replan(c)
    <3>1. (IF Blockers(plan') THEN "BLOCKED" ELSE "PLANNED") \in States
      BY DEF States
    <3> QED BY Zenon, <1>4, <2>3, <3>1 DEF Replan
  <2>4. CASE Withdraw(c)
    BY <2>4 DEF Withdraw, States, Good
  <2> QED BY Zenon, <1>1, <1>2, <2>1, <2>2, <2>3, <2>4
      DEF Command, Load, LoadRetry, Refused, RecordPlanDecision, RetryOperation
<1>7. ASSUME NEW w \in Workers, FinishAbandonedCancellations(w) PROVE Good
  <2> DEFINE s == IF Abandoned = {} THEN row.state ELSE "BLOCKED"
             v == row.version + Cardinality(Abandoned)
  <2>1. row' = [row EXCEPT !.state = s, !.version = v]
    BY Zenon, <1>7 DEF FinishAbandonedCancellations, RowInv, RowTyped
  <2>2. s \in States
    BY DEF StateTyped, States
  <2> HIDE DEF s, v
  <2> QED BY ZenonT(30), <1>3, <2>1, <2>2
<1>8. ASSUME NEW w \in Workers, EnterProviderProvisioning(w) PROVE Good
  BY <1>8 DEF EnterProviderProvisioning, RowInv, RowTyped, States, Good
<1>9. ASSUME NEW w \in Workers, Advance(w) PROVE Good
  <2>1. worker[w].to \in Statuses
    BY <1>9, TransitionTyped DEF Advance, RowInv, WriteSound, Writing
  <2>2. row'.state = Canonical(worker[w].to)
    BY <1>9 DEF Advance
  <2> QED BY <2>1, <2>2, CanonicalTyped DEF Good
<1>10. ASSUME NEW w \in Workers, Mark(w) PROVE Good
  <2> DEFINE s == IF worker[w].retryable THEN "FAILED" ELSE "BLOCKED"
  <2>1. row' \in {row, BlockedRow, [row EXCEPT !.state = s, !.version = @ + 1]}
    BY <1>10 DEF Mark
  <2>2. s \in States
    BY DEF States
  <2> HIDE DEF s
  <2> QED BY Zenon, <1>1, <1>4, <1>5, <2>1, <2>2
<1>11. ASSUME NEW w \in Workers, Execute(w) \/ Crash(w) PROVE Good
  <2>1. CASE Crash(w)
    BY <1>1, <2>1 DEF Crash
  <2>2. CASE Execute(w)
    BY Zenon, <1>1, <1>2, <1>5, <1>7, <1>8, <1>9, <1>10, <2>2
       DEF Execute, Claim, NothingToClaim, LoadExecuted, PlanNotExecutable, Unavailable, Retry, Run,
           Save, VersionConflict, Block, CompleteOperation
  <2> QED BY <1>11, <2>1, <2>2
<1>12. CASE WorldChanges \/ PlanExpires \/ UNCHANGED vars
  BY <1>1, <1>12 DEF WorldChanges, PlanExpires, vars
<1>13. CASE \E o \in Ops : LeaseLapses(o) \/ CancelQueued(o) \/ CancelRunning(o)
  BY <1>1, <1>5, <1>13 DEF LeaseLapses, CancelQueued, CancelRunning
<1> QED BY <1>6, <1>11, <1>12, <1>13 DEF Next

\* Every step keeps the row's status and state typed.
LEMMA StepStates ==
  ASSUME Typed, RowInv, StateTyped, [Next]_vars
  PROVE  StateTyped'
<1>1. Followed
  BY StepRow DEF RowKept
<1>2. row'.status \in Statuses
  BY <1>1, TransitionTyped DEF Followed, StateTyped, Statuses
<1> QED BY <1>2, StepState DEF StateTyped

\* Rows, plans and operations stay well-formed (TypeOK): an executor that writes
\* on after its lease lapsed writes statuses and states the columns allow.
THEOREM ExecutionTyped == Spec => []TypeOK
<1>1. Init => StateTyped /\ OpsTyped
  <2> SUFFICES ASSUME Init PROVE StateTyped /\ OpsTyped
    OBVIOUS
  <2>1. StateTyped
    BY Zenon DEF Init, StateTyped, Statuses, States
  <2>2. NoOp \in OpRow
    BY DEF NoOp, OpRow, OpStatuses
  <2> QED BY Zenon, <2>1, <2>2 DEF Init, OpsTyped
<1>2. Typed /\ RowInv /\ PlanInv /\ StateTyped /\ OpsTyped /\ [Next]_vars => StateTyped' /\ OpsTyped'
  BY StepStates, StepOps
<1>3. Typed /\ RowInv /\ PlanInv /\ StateTyped /\ OpsTyped => TypeOK
  BY Zenon DEF Typed, RowInv, RowTyped, PlanInv, PlanRow, StateTyped, OpsTyped, OpRow, TypeOK
<1> QED BY <1>1, <1>2, <1>3, AlwaysTyped, AlwaysRow, AlwaysPlans, PTL DEF Spec

\* The provisioning and its operations keep what they promise (ExecutionPromises)
\* for any number of executors, requests, plans and attempts.
THEOREM ExecutionKeepsPromises == Spec => ExecutionPromises
BY ExecutionTyped, OutcomesFinal, StopsWhenAsked, StatusFollows, PTL DEF ExecutionPromises

=============================================================================
