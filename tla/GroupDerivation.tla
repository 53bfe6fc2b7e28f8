--------------------------- MODULE GroupDerivation ---------------------------
(***************************************************************************)
(* Corporate group membership, derived from the graph of verified control  *)
(* (internal/service/organisation/corporate_group.go and                   *)
(* group_derivation_worker.go, internal/domain/corporate_group.go), and    *)
(* the queue that keeps it current (repository/                            *)
(* postgres_corporate_group_derivation.go and the triggers of migration    *)
(* 000055).  One group.  Every write of a derivation is a transaction of   *)
(* its own; a worker whose lease ran out keeps going.                      *)
(***************************************************************************)
EXTENDS Naturals, FiniteSets, FiniteSetsExt

CONSTANTS
  GroupRoot,     \* the group's root organisation
  ControlEdges,  \* <<source, target>>: control edges that may qualify
  MaxDepth,      \* MaxCorporateControlDepth
  GroupWorkers,  \* control plane replicas, each with one derivation worker
  MaxGraphMoves, \* bound: graph changes
  MaxOverruns,   \* bound: leases that run out while their holder works
  MaxDeriveErrors \* bound: transactions that fail

VARIABLES
  graph,    \* the edges that qualify now
  rows,     \* organisation -> its live membership row
  queue,    \* the group's corporate_group_derivation row
  workers,  \* what each worker is doing
  spent     \* bounds used: graph moves, unseen moves, overruns, errors

groupVars == <<graph, rows, queue, workers, spent>>

Organisations == {GroupRoot} \union {e[1] : e \in ControlEdges} \union {e[2] : e \in ControlEdges}

-----------------------------------------------------------------------------
(* DeriveGroupMembership *)

\* the members found after d levels, and all of them
MembersAt(g) ==
  [d \in 0..MaxDepth |->
     LET level[n \in 0..MaxDepth] ==
           IF n = 0 THEN {GroupRoot}
           ELSE level[n - 1] \union {e[2] : e \in {e \in g : e[1] \in level[n - 1]}}
     IN level[d]]

\* a member's lineage is every qualifying edge that leads to it from a member
\* that was followed; the root's is the edges it holds over members
Lineage(g, o) ==
  IF o = GroupRoot THEN {e \in g : e[1] = GroupRoot /\ e[2] # GroupRoot}
  ELSE {e \in g : e[2] = o /\ e[1] \in MembersAt(g)[MaxDepth - 1]}

NoRow == [live |-> FALSE]
DerivedRow(basis) == [live |-> TRUE, manual |-> FALSE, basis |-> basis]
ManualRow == [live |-> TRUE, manual |-> TRUE, basis |-> {}]

\* wanted[o]: whether o is derived to be a member, and on which basis
DeriveGroupMembership(g) ==
  [o \in Organisations |-> [member |-> o \in MembersAt(g)[MaxDepth], basis |-> Lineage(g, o)]]

-----------------------------------------------------------------------------
IdleWorker == [at |-> "idle"]

GroupInit ==
  /\ graph = {}
  /\ rows \in {[o \in Organisations |-> NoRow]} \union
       {[o \in Organisations |-> IF o = m THEN ManualRow ELSE NoRow] : m \in Organisations \ {GroupRoot}}
  /\ queue = [requested |-> TRUE, due |-> TRUE, leased |-> FALSE]
  /\ workers = [w \in GroupWorkers |-> IdleWorker]
  /\ spent = [moves |-> 0, unseen |-> 0, overruns |-> 0, errors |-> 0]

\* registry.request_corporate_group_derivation: a group being derived stays
\* leased; request_seq moves on, so the derivations under way see a newer request
RequestsDerivation ==
  /\ queue' = [queue EXCEPT !.requested = TRUE, !.due = TRUE]
  /\ workers' = [w \in GroupWorkers |->
       IF workers[w] = IdleWorker THEN IdleWorker ELSE [workers[w] EXCEPT !.newer = TRUE]]

\* a corporate relationship changes, and its trigger requests the derivation
GraphMoves(e) ==
  /\ spent.moves + spent.unseen < MaxGraphMoves
  /\ graph' = IF e \in graph THEN graph \ {e} ELSE graph \union {e}
  /\ RequestsDerivation
  /\ spent' = [spent EXCEPT !.moves = @ + 1]
  /\ UNCHANGED rows

\* a relationship passes its effective_to: nothing is written
EdgeLapses(e) ==
  /\ spent.moves + spent.unseen < MaxGraphMoves
  /\ e \in graph
  /\ graph' = graph \ {e}
  /\ spent' = [spent EXCEPT !.unseen = @ + 1]
  /\ UNCHANGED <<rows, queue, workers>>

Sweep ==
  /\ RequestsDerivation
  /\ UNCHANGED <<graph, rows, spent>>

-----------------------------------------------------------------------------
(* RunOnce *)

ClaimCorporateGroupDerivations(w) ==
  /\ workers[w] = IdleWorker
  /\ queue.requested /\ queue.due /\ ~queue.leased
  /\ queue' = [queue EXCEPT !.leased = TRUE]
  /\ workers' = [workers EXCEPT ![w] = [at |-> "claimed", newer |-> FALSE, held |-> TRUE]]
  /\ UNCHANGED <<graph, rows, spent>>

\* the lease runs out: of a worker that is gone, or of one that is slow
LeaseRunsOut ==
  /\ queue.leased
  /\ LET slow == {w \in GroupWorkers : workers[w] # IdleWorker /\ workers[w].held} IN
     /\ slow # {} => spent.overruns < MaxOverruns
     /\ spent' = [spent EXCEPT !.overruns = IF slow # {} THEN @ + 1 ELSE @]
     /\ workers' = [w \in GroupWorkers |->
          IF w \in slow THEN [workers[w] EXCEPT !.held = FALSE] ELSE workers[w]]
  /\ queue' = [queue EXCEPT !.leased = FALSE]
  /\ UNCHANGED <<graph, rows>>

\* the backoff of a failed derivation passes
BackoffPasses ==
  /\ queue.requested /\ ~queue.due
  /\ queue' = [queue EXCEPT !.due = TRUE]
  /\ UNCHANGED <<graph, rows, workers, spent>>

ReadsGraph(w) ==
  /\ workers[w].at = "claimed"
  /\ workers' = [workers EXCEPT ![w] =
       [at |-> "derived", newer |-> @.newer, held |-> @.held, wanted |-> DeriveGroupMembership(graph)]]
  /\ UNCHANGED <<graph, rows, queue, spent>>

\* Mutant: derivation ends governed manual rows too.
StaleOrManual(want, row) == row.live /\ ~(want.member /\ row.basis = want.basis)

\* a live row derivation ends: not a governed manual one, and no longer derived
\* or derived on another basis
Stale(want, row) == row.live /\ ~row.manual /\ ~(want.member /\ row.basis = want.basis)

Unmade(want, row) == want.member /\ ~(row.live /\ (row.manual \/ row.basis = want.basis))

ReadsMembers(w) ==
  /\ workers[w].at = "derived"
  /\ LET wanted == workers[w].wanted IN
     workers' = [workers EXCEPT ![w] =
       [at |-> "writing", newer |-> @.newer, held |-> @.held, wanted |-> wanted,
        ends |-> {o \in Organisations : Stale(wanted[o], rows[o])}, gone |-> {},
        adds |-> {o \in Organisations : Unmade(wanted[o], rows[o])}]]
  /\ UNCHANGED <<graph, rows, queue, spent>>

\* EndCorporateGroupMembership, of a row that is still live; another worker
\* that means to end the same row will find it gone
EndsOne(w) ==
  /\ workers[w].at = "writing"
  /\ \E o \in workers[w].ends \ workers[w].gone :
       /\ rows' = [rows EXCEPT ![o] = NoRow]
       /\ workers' = [v \in GroupWorkers |->
            IF v = w THEN [workers[w] EXCEPT !.ends = @ \ {o}]
            ELSE IF workers[v].at = "writing" /\ o \in workers[v].ends
            THEN [workers[v] EXCEPT !.gone = @ \union {o}] ELSE workers[v]]
  /\ UNCHANGED <<graph, queue, spent>>

\* EnsureCorporateGroupMembership, in the order of the members; a live row
\* of the organisation is left as it is
AddsOne(w) ==
  /\ workers[w].at = "writing" /\ workers[w].ends = {} /\ workers[w].adds # {}
  /\ LET o == Min(workers[w].adds) IN
     /\ rows' = IF rows[o].live THEN rows
                ELSE [rows EXCEPT ![o] = DerivedRow(workers[w].wanted[o].basis)]
     /\ workers' = [workers EXCEPT ![w].adds = @ \ {o}]
  /\ UNCHANGED <<graph, queue, spent>>

\* the request is cleared unless a newer one came; the lease is dropped,
\* whoever holds it
DerivedResult(newer) ==
  IF newer THEN [queue EXCEPT !.due = TRUE, !.leased = FALSE]
  ELSE [queue EXCEPT !.requested = FALSE, !.due = FALSE, !.leased = FALSE]

\* corporate_group_derivation's CHECK: next_attempt_at only with requested_at
RowAllowed(q) == q.due => q.requested

\* a row the CHECK refuses fails the statement, and with it the pass
RecordCorporateGroupDerived(w) ==
  /\ workers[w].at = "writing" /\ workers[w].ends = {} /\ workers[w].adds = {}
  /\ LET result == DerivedResult(workers[w].newer) IN
     queue' = IF RowAllowed(result) THEN result ELSE queue
  /\ workers' = [workers EXCEPT ![w] = IdleWorker]
  /\ UNCHANGED <<graph, rows, spent>>

\* a transaction of the derivation fails, or a row it meant to end is gone
Failing(w) ==
  /\ workers[w] # IdleWorker
  /\ \/ spent.errors < MaxDeriveErrors /\ spent' = [spent EXCEPT !.errors = @ + 1]
     \/ /\ workers[w].at = "writing"
        /\ workers[w].gone # {}
        /\ UNCHANGED spent

RecordCorporateGroupDerivationFailure(w) ==
  /\ Failing(w)
  /\ queue' = IF queue.requested
              THEN [queue EXCEPT !.leased = FALSE, !.due = workers[w].newer]
              ELSE queue
  /\ workers' = [workers EXCEPT ![w] = IdleWorker]
  /\ UNCHANGED <<graph, rows>>

\* the process stops in the middle: its lease stays
WorkerStops(w) ==
  /\ workers[w] # IdleWorker
  /\ spent.errors < MaxDeriveErrors
  /\ spent' = [spent EXCEPT !.errors = @ + 1]
  /\ workers' = [workers EXCEPT ![w] = IdleWorker]
  /\ UNCHANGED <<graph, rows, queue>>

RunOnce(w) ==
  \/ ClaimCorporateGroupDerivations(w)
  \/ ReadsGraph(w)
  \/ ReadsMembers(w)
  \/ EndsOne(w)
  \/ AddsOne(w)
  \/ RecordCorporateGroupDerived(w)
  \/ RecordCorporateGroupDerivationFailure(w)

GroupNext ==
  \/ \E e \in ControlEdges : GraphMoves(e) \/ EdgeLapses(e)
  \/ Sweep
  \/ LeaseRunsOut
  \/ BackoffPasses
  \/ \E w \in GroupWorkers : RunOnce(w) \/ WorkerStops(w)

GroupSpec == GroupInit /\ [][GroupNext]_groupVars

\* the sweep and the passes are timers of every replica; leases and backoffs
\* run out with time
GroupFairness ==
  /\ WF_groupVars(Sweep)
  /\ WF_groupVars(LeaseRunsOut)
  /\ WF_groupVars(BackoffPasses)
  /\ \A w \in GroupWorkers : WF_groupVars(RunOnce(w))

-----------------------------------------------------------------------------
(* Properties *)

\* An organisation is a member exactly when a chain of qualifying edges leads
\* to it from the root, unless a person decided otherwise; its row names the
\* edges it rests on.
MembershipMatches ==
  \A o \in Organisations :
    LET chain == o = GroupRoot \/ \E e \in graph :
                   e[2] = o /\ (e[1] = GroupRoot \/ \E f \in graph : f[1] = GroupRoot /\ f[2] = e[1]) IN
    (rows[o].live => rows[o].manual) \/ (chain /\ rows[o].basis = {e \in graph : IF o = GroupRoot THEN e[1] = o ELSE e[2] = o})

\* Whatever changes, fails, stops or runs past its lease, membership ends up
\* as derived from the graph, and stays so once the graph rests
\* (group_derivation_worker.go:19-32).
MembershipConverges == <>[](MembershipMatches /\ \A o \in Organisations :
  o \in MembersAt(graph)[MaxDepth] => rows[o].live)

\* As long as no lease runs out under a working holder, a group that owes no
\* derivation and is not being derived is derived from the present graph: a
\* derivation never clears a request it did not see
\* (postgres_corporate_group_derivation.go:106-120).
CurrentIsDerived ==
  (/\ spent.overruns = 0 /\ spent.unseen = 0
   /\ ~queue.requested
   /\ \A w \in GroupWorkers : workers[w] = IdleWorker) =>
     /\ MembershipMatches
     /\ \A e \in graph : e[1] = GroupRoot => rows[e[2]].live

\* A governed manual membership is a human decision: no derivation ends or
\* replaces it (corporate_group.go:107-112).
ManualMembershipKept ==
  [][\A o \in Organisations : (rows[o].live /\ rows[o].manual) => rows'[o] = rows[o]]_groupVars

\* Says the comment of RecordCorporateGroupDerived: a derivation that finds a
\* newer request leaves the group due.  A group that is current, at rest and
\* not as derived contradicts it; a worker past its lease gets there.
NoStaleCurrentGroup ==
  (/\ spent.unseen = 0
   /\ ~queue.requested
   /\ \A w \in GroupWorkers : workers[w] = IdleWorker) => MembershipMatches

\* Corporate group derivation: a group that owes nothing is derived from the
\* present graph, decisions made by hand are kept, and membership converges
\* in the end.
GroupPromises ==
  /\ []CurrentIsDerived
  /\ ManualMembershipKept
  /\ MembershipConverges
==============================================================================
