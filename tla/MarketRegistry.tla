---------------------------- MODULE MarketRegistry ----------------------------
(***************************************************************************)
(* The market registry and the country projection derived from it.         *)
(*                                                                         *)
(* Every create and update re-evaluates the validation rules, so a market  *)
(* is DRAFT or VALIDATED; another person activates it at the revision they *)
(* reviewed.  The activation locks the market's row and then, country by   *)
(* country in the order the market lists them, takes the country's         *)
(* advisory lock, reads which available market is primary and writes the   *)
(* country's participation row.  All locks are kept until the commit; the  *)
(* database aborts one of two transactions that wait for each other.       *)
(***************************************************************************)
EXTENDS Naturals, FiniteSets, Sequences

CONSTANTS
  MktConfigs,      \* [market -> the configurations its makers may give it]
  MktOrder,        \* the markets in the order of their identifiers
  MktCountries,
  MktCalls,        \* [create call -> market (its canonical key), body, by, key]
  MktMakers, MktActivators,
  MaxMktRevision,
  LastMktDay

ASSUME MarketAssumption ==
  /\ MaxMktRevision \in Nat /\ LastMktDay \in Nat
  /\ \A m \in DOMAIN MktConfigs : \E i \in DOMAIN MktOrder : MktOrder[i] = m

VARIABLES
  registry,       \* [market -> row]
  participation,  \* [country -> its primary market]
  creating,       \* [create call -> how far it is and what it was answered]
  activation,     \* [activator -> the transaction in hand]
  mktDay

mktVars == <<registry, participation, creating, activation, mktDay>>

NoMarket == [status |-> "NONE"]
Resting == [step |-> "idle"]

MarketInit ==
  /\ registry = [m \in DOMAIN MktConfigs |-> NoMarket]
  /\ participation = [c \in MktCountries |-> "none"]
  /\ creating = [k \in DOMAIN MktCalls |-> "idle"]
  /\ activation = [t \in MktActivators |-> Resting]
  /\ mktDay = 1

-----------------------------------------------------------------------------
Registered(m) == registry[m] # NoMarket

\* the default country first, then the listed ones, each once
Countries(config) ==
  (IF config.default = "none" THEN <<>> ELSE <<config.default>>)
    \o SelectSeq(config.listed, LAMBDA c : c # config.default)

Validate(m, config) ==
  /\ Countries(config) # <<>>
  /\ config.default # "none" /\ config.listed # <<>> =>
       \E i \in DOMAIN config.listed : config.listed[i] = config.default
  /\ config.parent # "none" => config.parent # m /\ Registered(config.parent)

StatusOf(m, config) == IF Validate(m, config) THEN "VALIDATED" ELSE "DRAFT"

\* an activation that holds the row makes every other writer wait
RowHeld(m) == \E t \in MktActivators : activation[t].step = "projecting" /\ activation[t].market = m

\* the row this creator made under this Idempotency-Key
GetRegistryMarketByIdempotencyKey(k) ==
  {m \in DOMAIN MktConfigs : Registered(m) /\ registry[m].creator = MktCalls[k].by /\ registry[m].key = MktCalls[k].key}

\* a key used for another body is refused
replay(k) ==
  IF \A m \in GetRegistryMarketByIdempotencyKey(k) : m = MktCalls[k].market /\ registry[m].body = MktCalls[k].body
  THEN "answered" ELSE "reused"

\* the key is looked up before the transaction that inserts the row
LookUpCreate(k) ==
  /\ creating[k] = "idle"
  /\ creating' = [creating EXCEPT ![k] = IF GetRegistryMarketByIdempotencyKey(k) = {} THEN "looked" ELSE replay(k)]
  /\ UNCHANGED <<registry, participation, activation, mktDay>>

\* the unique canonical_key is checked before the unique idempotency key, so
\* the row of a concurrent retry is found by its canonical key
insertRegistryMarket(k) ==
  CASE Registered(MktCalls[k].market) -> "taken"
    [] GetRegistryMarketByIdempotencyKey(k) # {} -> replay(k)
    [] OTHER -> "answered"

Inserts(k) == ~Registered(MktCalls[k].market) /\ GetRegistryMarketByIdempotencyKey(k) = {}

CreateRegistryMarket(k) ==
  /\ creating[k] = "looked"
  /\ LET call == MktCalls[k]
     IN registry' = IF Inserts(k)
                    THEN [registry EXCEPT ![call.market] =
                           [status |-> StatusOf(call.market, call.body), config |-> call.body, body |-> call.body, revision |-> 1,
                            creator |-> call.by, editor |-> call.by, key |-> call.key, activatedAt |-> 0]]
                    ELSE registry
  /\ creating' = [creating EXCEPT ![k] = insertRegistryMarket(k)]
  /\ UNCHANGED <<participation, activation, mktDay>>

Editable(m) == registry[m].status \in {"DRAFT", "VALIDATED"}

UpdateRegistryMarket(m) ==
  /\ Registered(m) /\ ~RowHeld(m) /\ Editable(m)
  /\ registry[m].revision < MaxMktRevision
  /\ \E config \in MktConfigs[m], who \in MktMakers :
       registry' = [registry EXCEPT ![m].status = StatusOf(m, config), ![m].config = config,
                                    ![m].revision = @ + 1, ![m].editor = who]
  /\ UNCHANGED <<participation, creating, activation, mktDay>>

-----------------------------------------------------------------------------
(* Activation                                                              *)

\* the activator reviews the market and sends its revision
ReviewMarket(t, m) ==
  /\ activation[t] = Resting
  /\ Registered(m) /\ registry[m].status = "VALIDATED"
  /\ activation' = [activation EXCEPT ![t] =
       [step |-> "reviewed", market |-> m, revision |-> registry[m].revision, config |-> registry[m].config]]
  /\ UNCHANGED <<registry, participation, creating, mktDay>>

\* Mutant: an activation takes whatever the market has become since its review.
RevisionOfAny(m, revision) == revision <= registry[m].revision

RevisionMatches(m, revision) == revision = registry[m].revision

SelfActivation(m, t) == t \in {registry[m].creator, registry[m].editor}

MayActivate(t, m, revision) ==
  /\ RevisionMatches(m, revision)
  /\ registry[m].status = "VALIDATED"
  /\ ~SelfActivation(m, t)
  /\ Validate(m, registry[m].config)

activateLockedRegistryMarket(t) ==
  /\ activation[t].step = "reviewed"
  /\ LET m == activation[t].market
     IN /\ ~RowHeld(m)
        /\ activation' = [activation EXCEPT ![t] =
             IF MayActivate(t, m, @.revision)
             THEN [step |-> "projecting", market |-> m, reviewed |-> @.config, at |-> mktDay,
                   todo |-> Countries(registry[m].config), locks |-> {},
                   staged |-> [c \in {} |-> "none"]]
             ELSE Resting]
  /\ UNCHANGED <<registry, participation, creating, mktDay>>

IdOf(m) == CHOOSE i \in DOMAIN MktOrder : MktOrder[i] = m

Listed(m, c) == \E i \in DOMAIN Countries(registry[m].config) : Countries(registry[m].config)[i] = c

\* the available markets covering the country that the transaction sees: the
\* committed ones and its own
Available(c, own) == {m \in DOMAIN MktConfigs : Registered(m) /\ Listed(m, c) /\ (registry[m].status = "ACTIVE" \/ m = own)}

\* default_country first, then the earliest activation, then the identifier
Precedes(x, y, c, at) ==
  LET rank(m) == IF registry[m].config.default = c THEN 0 ELSE 1
      time(m) == IF registry[m].status = "ACTIVE" THEN registry[m].activatedAt ELSE at
  IN \/ rank(x) < rank(y)
     \/ rank(x) = rank(y) /\ time(x) < time(y)
     \/ rank(x) = rank(y) /\ time(x) = time(y) /\ IdOf(x) <= IdOf(y)

PrimaryAmong(ms, c, at) == CHOOSE x \in ms : \A y \in ms : Precedes(x, y, c, at)

LockFree(t, c) == \A u \in MktActivators \ {t} : activation[u].step = "projecting" => c \notin activation[u].locks

projectCountryParticipation(t) ==
  /\ activation[t].step = "projecting" /\ activation[t].todo # <<>>
  /\ LET tx == activation[t]
         c == Head(tx.todo)
         primary == PrimaryAmong(Available(c, tx.market), c, tx.at)
     IN /\ LockFree(t, c)
        /\ activation' = [activation EXCEPT
             ![t].locks = @ \cup {c}, ![t].todo = Tail(@),
             ![t].staged = [d \in DOMAIN @ \cup {c} |-> IF d = c THEN primary ELSE @[d]]]
  /\ UNCHANGED <<registry, participation, creating, mktDay>>

ActivateRegistryMarket(t) ==
  /\ activation[t].step = "projecting" /\ activation[t].todo = <<>>
  /\ LET tx == activation[t]
     IN /\ registry' = [registry EXCEPT ![tx.market].status = "ACTIVE", ![tx.market].revision = @ + 1,
                                        ![tx.market].editor = t, ![tx.market].activatedAt = tx.at]
        /\ participation' = [c \in MktCountries |-> IF c \in DOMAIN tx.staged THEN tx.staged[c] ELSE participation[c]]
  /\ activation' = [activation EXCEPT ![t] = Resting]
  /\ UNCHANGED <<creating, mktDay>>

\* two transactions wait for each other's country: the database aborts one
Waits(t, u) ==
  /\ activation[t].step = "projecting" /\ activation[t].todo # <<>>
  /\ activation[u].step = "projecting" /\ Head(activation[t].todo) \in activation[u].locks

DeadlockAborted(t) ==
  /\ \E u \in MktActivators \ {t} : Waits(t, u) /\ Waits(u, t)
  /\ activation' = [activation EXCEPT ![t] = Resting]
  /\ UNCHANGED <<registry, participation, creating, mktDay>>

MktTick ==
  /\ mktDay < LastMktDay
  /\ mktDay' = mktDay + 1
  /\ UNCHANGED <<registry, participation, creating, activation>>

MarketNext ==
  \/ \E k \in DOMAIN MktCalls : LookUpCreate(k) \/ CreateRegistryMarket(k)
  \/ \E m \in DOMAIN MktConfigs :
       \/ UpdateRegistryMarket(m)
       \/ \E t \in MktActivators : ReviewMarket(t, m)
  \/ \E t \in MktActivators :
       \/ activateLockedRegistryMarket(t) \/ projectCountryParticipation(t)
       \/ ActivateRegistryMarket(t) \/ DeadlockAborted(t)
  \/ MktTick

MarketSpec == MarketInit /\ [][MarketNext]_mktVars

-----------------------------------------------------------------------------
(* Properties                                                              *)

(* What the country rows say is what the registry says, at every moment:   *)
(* a country is carried by the primary one of the ACTIVE markets covering  *)
(* it, however activations covering the same countries interleave, and by  *)
(* none while no ACTIVE market covers it (projectCountryParticipation).    *)
ProjectionFollowsRegistry ==
  \A c \in MktCountries :
    LET live == {m \in DOMAIN MktConfigs : registry[m].status = "ACTIVE" /\ Listed(m, c)}
    IN participation[c] = IF live = {} THEN "none" ELSE PrimaryAmong(live, c, 0)

(* A market becomes ACTIVE with the configuration its activator reviewed,  *)
(* though others edited markets meanwhile, and the activator neither       *)
(* created nor last edited it (lockRegistryMarket and                      *)
(* activateLockedRegistryMarket).                                          *)
ActivatedAsReviewed ==
  [][ \A m \in DOMAIN MktConfigs :
        registry'[m].status = "ACTIVE" /\ registry[m].status # "ACTIVE" =>
          \E t \in MktActivators :
            /\ activation[t].step = "projecting" /\ activation[t].market = m
            /\ activation[t].reviewed = registry'[m].config
            /\ t \notin {registry[m].creator, registry[m].editor} ]_mktVars

(* A create sent twice, its retry arriving before the first is done, is    *)
(* answered with the one market both times: a creator's Idempotency-Key    *)
(* replays (create, replay and the unique index of migration 000070).      *)
RetriedCreateIsAnswered ==
  \A k, l \in DOMAIN MktCalls :
    MktCalls[k] = MktCalls[l] /\ creating[k] = "answered" => creating[l] # "taken"

\* The market registry: the participation projection follows the registry,
\* and a market is activated as it was reviewed.
MarketPromises ==
  /\ []ProjectionFollowsRegistry
  /\ ActivatedAsReviewed
=============================================================================
