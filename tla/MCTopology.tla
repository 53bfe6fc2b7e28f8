---------------------------- MODULE MCTopology ----------------------------
(***************************************************************************)
(* The components that say where capabilities run: provider migrations and *)
(* their plans, engine releases, external mappings, capability decisions,  *)
(* runtime contexts and the market registry. They share no table that one  *)
(* writes while another decides on it inside a transaction, so each is run *)
(* for itself: focus names the one at work, the others stand still, and    *)
(* the state space is the sum of theirs.                                   *)
(***************************************************************************)
EXTENDS ProviderMigration, MigrationPlanning, EngineRelease, MappingRegistry,
        CapabilityDecisions, ContextAuthority, MarketRegistry, TLC

CONSTANTS k1, k2, r1, r2, r3, i1, i2  \* model values

VARIABLE focus  \* the component at work

\* Provider migrations: two stateful strategies that go back and one that
\* does not, a stateless one, and one whose plan is blocked.
MigrationRequest(m, s, w, b, p) == [mode |-> m, strategy |-> s, windowed |-> w, blocked |-> b, populated |-> p]
MCRequests ==
  {MigrationRequest("STATEFUL_CUTOVER", "REBIND_SOURCE", FALSE, FALSE, {1, 2}),
   MigrationRequest("STATEFUL_CUTOVER", "RESTORE_AND_REBIND_SOURCE", TRUE, FALSE, {1}),
   MigrationRequest("STATEFUL_CUTOVER", "FORWARD_FIX_ONLY", TRUE, FALSE, {1, 2}),
   MigrationRequest("STATELESS_REBIND", "REBIND_SOURCE", FALSE, FALSE, {1, 2}),
   MigrationRequest("STATELESS_REBIND", "REBIND_SOURCE", FALSE, TRUE, {1, 2})}

\* Planning: a request that names every binding and one with a catch-all.
MCSelection ==
  k1 :> [matches |-> [b \in PlannedBindings |-> {b}], catchAll |-> FALSE, shadow |-> FALSE, stateful |-> TRUE] @@
  k2 :> [matches |-> [b \in PlannedBindings |-> {b} \ {2}], catchAll |-> TRUE, shadow |-> FALSE, stateful |-> FALSE]
MCLocation == [i \in Instances |-> IF i = 1 THEN {1} ELSE {1, 2}]

\* Releases: two of one engine that share a digest, and one of another.
MCReleaseEngine == r1 :> "e" @@ r2 :> "e" @@ r3 :> "f"
MCRegistration == [p \in {"p"} |-> [engine |-> "e", supports |-> {1}, registered |-> TRUE, permitted |-> TRUE]]
MCContents ==
  {[digests |-> {1}, support |-> {<<"p", 1>>}, provenance |-> TRUE],
   [digests |-> {2}, support |-> {}, provenance |-> TRUE],
   [digests |-> {1, 2}, support |-> {}, provenance |-> FALSE]}
MCDeployment == i1 :> [engine |-> "e", environment |-> "production"] @@ i2 :> [engine |-> "e", environment |-> "staging"]

\* Mappings: c2 retries c1; c3 offers the same reference or a successor.
Offer(e, x, s, f, t, p, fol) ==
  [entity |-> e, ref |-> x, scope |-> s, from |-> f, to |-> t, priority |-> p, confidence |-> 1, follows |-> fol]
MCCallKey == [c1 |-> "k1", c2 |-> "k1", c3 |-> "k2"]
MCCallOffers ==
  [c1 |-> {Offer("e1", "x", "", 1, 0, 1, NoRef), Offer("e1", "x", "KE", 2, 3, 1, NoRef)},
   c2 |-> {Offer("e1", "x", "", 1, 0, 1, NoRef)},
   c3 |-> {Offer("e2", "x", "", 2, 0, 1, NoRef), Offer("e1", "y", "", 1, 0, 0, "c1"), Offer("e1", "x", "", 2, 0, 1, "c1")}]
MCProposer == [c1 |-> "ann", c2 |-> "ann", c3 |-> "bob"]

\* Capability decisions: a primary and two fallbacks that rank alike.
ServingBinding(i, m) ==
  [engine |-> "e", instance |-> i, provider |-> "p", mode |-> m, specificity |-> 1, priority |-> 0]
MCDecBindings == [b1 |-> ServingBinding("i1", "PRIMARY"), b2 |-> ServingBinding("i2", "FALLBACK"),
                  b3 |-> ServingBinding("i3", "FALLBACK")]
MCDecOrder == <<"b1", "b2", "b3">>

MCAsks == {[org |-> "", country |-> ""], [org |-> "buyer", country |-> "KE"]}

\* Markets: m1 and m2 cover the same two countries, or m2 is m1's child; k2
\* retries k1.
MarketBody(d, l, p) == [default |-> d, listed |-> l, parent |-> p]
MCMktOrder == <<"m1", "m2">>
MCMktConfigs ==
  [m1 |-> {MarketBody("KE", <<"KE", "UG">>, "none")},
   m2 |-> {MarketBody("UG", <<"KE", "UG">>, "none"), MarketBody("none", <<"KE">>, "m1")}]
MCMktCalls ==
  [k1 |-> [market |-> "m1", body |-> MarketBody("KE", <<"KE", "UG">>, "none"), by |-> "a", key |-> "i1"],
   k2 |-> [market |-> "m1", body |-> MarketBody("KE", <<"KE", "UG">>, "none"), by |-> "a", key |-> "i1"],
   k3 |-> [market |-> "m2", body |-> MarketBody("none", <<"KE">>, "m1"), by |-> "b", key |-> "i1"]]

\* The same people administer migrations and record releases.
Interchangeable == Permutations(Administrators \cup Recorders)
-----------------------------------------------------------------------------
allVars == <<focus, migrationVars, planningVars, releaseVars, mapVars, decVars, ctxVars,
            mktVars>>

FocusedInit ==
  /\ focus \in {"migration", "planning", "release", "mapping", "decision", "context", "market"}
  /\ IF focus = "migration" THEN MigrationInit
     ELSE request = (CHOOSE r \in MCRequests : r.blocked) /\ PlannedBy(NoOne)
  /\ PlanningInit /\ ReleaseInit /\ MapInit
  /\ DecisionInit /\ (focus # "decision" => decPath = "decision")
  /\ ContextInit /\ MarketInit

FocusedNext ==
  \/ /\ focus = "migration" /\ MigrationNext
     /\ UNCHANGED <<focus, planningVars, releaseVars, mapVars, decVars, ctxVars, mktVars>>
  \/ /\ focus = "planning" /\ PlanningNext
     /\ UNCHANGED <<focus, migrationVars, releaseVars, mapVars, decVars, ctxVars, mktVars>>
  \/ /\ focus = "release" /\ ReleaseNext
     /\ UNCHANGED <<focus, migrationVars, planningVars, mapVars, decVars, ctxVars, mktVars>>
  \/ /\ focus = "mapping" /\ MapNext
     /\ UNCHANGED <<focus, migrationVars, planningVars, releaseVars, decVars, ctxVars, mktVars>>
  \/ /\ focus = "decision" /\ DecisionNext
     /\ UNCHANGED <<focus, migrationVars, planningVars, releaseVars, mapVars, ctxVars, mktVars>>
  \/ /\ focus = "context" /\ ContextNext
     /\ UNCHANGED <<focus, migrationVars, planningVars, releaseVars, mapVars, decVars, mktVars>>
  \/ /\ focus = "market" /\ MarketNext
     /\ UNCHANGED <<focus, migrationVars, planningVars, releaseVars, mapVars, decVars, ctxVars>>

FocusedSpec == FocusedInit /\ [][FocusedNext]_allVars
=============================================================================
