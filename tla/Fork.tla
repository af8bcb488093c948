--------------------------------- MODULE Fork ---------------------------------
(***************************************************************************)
(* What a bite writes into the state it forks (overrides.rs), and what the *)
(* forked chains then do with it: the cores of the parachains, the         *)
(* validator groups and dev validators that follow from them, and what     *)
(* keeps the dev validators from being replaced by elected ones.           *)
(*                                                                         *)
(* The encoding of the values is left out; of the storage items only those *)
(* are kept that decide who the validators are.  Outside src/, modelled    *)
(* from what overrides.rs says of them: the session pallet, the relay      *)
(* chain's staking pallet, its client for a staking on Asset Hub           *)
(* (StakingAhClient), and Asset Hub's elections.                           *)
(***************************************************************************)
EXTENDS Integers, FiniteSets

CONSTANTS
  NParas,      \* the parachains are 1 .. NParas, in the order of the bite
  MaxCores     \* bound: the most cores of one parachain

ASSUME CoresAssumption == NParas \in Nat /\ MaxCores \in Nat

ParaPlaces == 1 .. NParas
Slots == ParaPlaces \X (1 .. MaxCores)

\* The relay chain's storage items, and the modes of its staking client.
Items == {"Validators", "ForceEra", "Mode"}
Modes == {"Passive", "Buffered", "Active"}

VARIABLES
  has,          \* the items the relay chain's runtime has
  hook,         \* does it know :UsePreviousValidators: ?
  mode,         \* StakingAhClient::Mode, the live one and then the fork's; Passive without a client
  ahub,         \* Asset Hub in this bite: not there, known as such, or as a custom parachain
  pc,           \* "resolve", "relay", "import", "fork" or "failed"
  cores,        \* per parachain
  meta,         \* has the bite the relay chain's metadata?
  seen,         \* the mode it read
  written,      \* the items it overrides or injects
  groups,       \* ParaScheduler::ValidatorGroups
  authorities,  \* the names of the dev validators in the state
  nodes,        \* and of the validators that are spawned
  validators,   \* the fork's session: "dev" or not
  staged,       \* has the client a validator set for the next session?
  electing,     \* is there an election under way on Asset Hub?
  sent,         \* is there a validator set on its way to the relay chain?
  inFlight      \* history: was there any of these three when it was bitten?

source == <<has, hook, ahub>>
plan == <<cores, meta, seen, written, groups, authorities, nodes>>
fork == <<validators, staged, electing, sent, inFlight>>
vars == <<source, mode, pc, plan, fork>>

Init ==
  /\ has \in {h \in SUBSET Items : "Validators" \in h} /\ hook \in BOOLEAN
  /\ mode \in Modes /\ ("Mode" \notin has => mode = "Passive")
  /\ ahub \in {"none", "known", "custom"}
  /\ pc = "resolve"
  /\ cores = [p \in ParaPlaces |-> 0] /\ groups = [c \in {} |-> {}]
  /\ meta = FALSE /\ seen = "Passive" /\ written = {}
  /\ authorities = {} /\ nodes = {}
  /\ validators = "live"
  /\ staged = FALSE /\ electing = FALSE /\ sent = FALSE /\ inFlight = FALSE

-----------------------------------------------------------------------------
(* The cores.                                                              *)

\* A core of one parachain, and the cores that are counted before it.
CoreSlots(cs) == {x \in Slots : x[2] <= cs[x[1]]}
Before(cs, x) == {y \in CoreSlots(cs) : y[1] < x[1] \/ (y[1] = x[1] /\ y[2] < x[2])}

\* The sum of the parachains' cores, and core_plan.
ReqCores(cs) == Cardinality(CoreSlots(cs))
CorePlan(cs) == {<<Cardinality(Before(cs, x)), x[1]>> : x \in CoreSlots(cs)}

\* One validator per core and a spare, among the dev accounts.
NumValidators(c) == IF 1 + c < 2 THEN 2 ELSE IF 1 + c > 7 THEN 7 ELSE 1 + c

\* Variant: a core may go without a validator of its own.
AnyCores(c) == TRUE

\* Every core needs a validator group.
Enough(c) == c <= NumValidators(c)

\* One group per core, and one at least.
NumGroups(c) == IF c > 1 THEN c ELSE 1

\* Round-robin.
Groups(c) ==
  [k \in 0 .. NumGroups(c) - 1 |-> {v \in 0 .. NumValidators(c) - 1 : v % NumGroups(c) = k}]

\* get_validator_keys: the first n accounts.
ValidatorKeys(n) == {k \in 1 .. 7 : k <= n}

\* Variant: a node per core besides alice and bob.
ExtraNodesPerCore(c) == c

\* What the spawner takes of its five names besides alice and bob.
ExtraNodes(c) == NumValidators(c) - 2

\* The nodes' names, numbered as the keys; variant: a name without keys.
NodeNamesAndOneMore(c) == {1, 2} \cup {k \in 3 .. 8 : k - 3 <= ExtraNodes(c)}
NodeNames(c) == {1, 2} \cup {k \in 3 .. 7 : k - 2 <= ExtraNodes(c)}

-----------------------------------------------------------------------------
(* The bite.                                                               *)

\* --para-cores refuses 0, a config file and custom%...%0 do not.
Resolve ==
  /\ pc = "resolve"
  /\ pc' = "relay"
  /\ cores' \in [ParaPlaces -> 0 .. MaxCores]
  /\ UNCHANGED <<source, mode, meta, seen, written, groups, authorities, nodes, fork>>

\* The migration of staking to Asset Hub goes on while the chain is bitten.
Migrate ==
  /\ "Mode" \in has
  /\ pc \in {"resolve", "relay", "import"}
  /\ \/ mode = "Passive" /\ mode' = "Buffered"
     \/ mode = "Buffered" /\ mode' = "Active"
  /\ UNCHANGED <<source, pc, plan, fork>>

\* OverrideSet: with metadata, an item the runtime does not have is skipped.
Checked(m, items) == IF m THEN items \cap has ELSE items

\* Variant: the client is left in the mode it is in.
LeaveClient(m) == {}

\* freeze_ah_client: only Active is switched, to Buffered.
FreezeClient(m) == IF m /\ mode = "Active" THEN {"Mode"} ELSE {}

\* What generate_rc_overrides writes of the items that matter here.
ValidatorItems == {"Validators", "ForceEra"}

\* generate_default_overrides_for_rc.
RelayOverrides ==
  LET c == ReqCores(cores) IN
  /\ pc = "relay" /\ Enough(c)
  /\ pc' = "import"
  /\ meta' \in BOOLEAN /\ seen' = mode
  /\ written' = Checked(meta', ValidatorItems) \cup FreezeClient(meta')
  /\ groups' = Groups(c)
  /\ authorities' = ValidatorKeys(NumValidators(c))
  /\ UNCHANGED <<source, mode, cores, nodes, fork>>

\* More cores than dev validators, an explicit entry the runtime does not
\* have, a value of another type or a live one that can't be read.
Fail ==
  /\ pc \in {"resolve", "relay", "import"}
  /\ pc' = "failed"
  /\ UNCHANGED <<source, mode, plan, fork>>

\* The states are imported, the overrides put on top of them, and the
\* network is spawned from them (generate_config).
Import ==
  /\ pc = "import"
  /\ pc' = "fork"
  /\ nodes' = NodeNames(ReqCores(cores))
  /\ validators' = IF "Validators" \in written \cap has THEN "dev" ELSE "live"
  /\ mode' = IF "Mode" \in written THEN "Buffered" ELSE mode
  /\ staged' \in BOOLEAN /\ (staged' => mode = "Active")
  /\ electing' \in BOOLEAN /\ sent' \in BOOLEAN
  /\ (electing' \/ sent' => ahub # "none")
  /\ inFlight' = (staged' \/ electing' \/ sent')
  /\ UNCHANGED <<source, cores, meta, seen, written, groups, authorities>>

-----------------------------------------------------------------------------
(* The fork.                                                               *)

\* Variant: Asset Hub's eras go on.
NeverForced == FALSE

\* Staking::ForceEra is injected for the known Asset Hub alone.
ForcedNone == ahub = "known"

\* Asset Hub plans an era and starts an election.
PlanEra ==
  /\ pc = "fork" /\ ahub # "none" /\ ~ForcedNone
  /\ electing' = TRUE
  /\ UNCHANGED <<source, mode, pc, plan, validators, staged, sent, inFlight>>

Elected ==
  /\ pc = "fork" /\ electing
  /\ electing' = FALSE /\ sent' = TRUE
  /\ UNCHANGED <<source, mode, pc, plan, validators, staged, inFlight>>

\* Only an Active client takes the set it is sent.
Deliver ==
  /\ pc = "fork" /\ sent
  /\ sent' = FALSE
  /\ staged' = (staged \/ mode = "Active")
  /\ UNCHANGED <<source, mode, pc, plan, validators, electing, inFlight>>

\* Who decides on the next session's validators: a client that is not Passive,
\* otherwise the relay chain's own staking.
ClientRules == mode # "Passive"
Replaced ==
  IF ClientRules THEN mode = "Active" /\ staged
  ELSE "ForceEra" \in has /\ "ForceEra" \notin written

RotateSession ==
  /\ pc = "fork"
  /\ validators' = IF ~hook /\ Replaced THEN "live" ELSE validators
  /\ staged' = (staged /\ ~(ClientRules /\ mode = "Active"))
  /\ UNCHANGED <<source, mode, pc, plan, electing, sent, inFlight>>

Over == pc = "failed" /\ UNCHANGED vars

-----------------------------------------------------------------------------
Next ==
  \/ Resolve \/ Migrate \/ RelayOverrides \/ Fail \/ Import
  \/ PlanEra \/ Elected \/ Deliver \/ RotateSession \/ Over

Spec == Init /\ [][Next]_vars

-----------------------------------------------------------------------------
TypeOK ==
  /\ has \in SUBSET Items /\ hook \in BOOLEAN
  /\ mode \in Modes /\ ahub \in {"none", "known", "custom"}
  /\ pc \in {"resolve", "relay", "import", "fork", "failed"}
  /\ cores \in [ParaPlaces -> 0 .. MaxCores]
  /\ meta \in BOOLEAN /\ seen \in Modes /\ written \in SUBSET Items
  /\ DOMAIN groups \subseteq Nat
  /\ authorities \in SUBSET (1 .. 7) /\ nodes \in SUBSET (1 .. 7)
  /\ validators \in {"dev", "live"}
  /\ staged \in BOOLEAN /\ electing \in BOOLEAN /\ sent \in BOOLEAN /\ inFlight \in BOOLEAN

\* Has the migration gone on between the read of the mode and the import?
MigratedSince == "Mode" \notin written /\ mode # seen

\* "A fork of a relay chain whose staking runs on Asset Hub no longer swaps out
\* its dev validators" (CHANGELOG.md:17), and neither does one that has staking
\* itself: whatever set the client had staged and whatever Asset Hub elects and
\* sends, however often the session rotates, the dev validators stay.
DevSetStays ==
  pc = "fork" /\ meta /\ ~MigratedSince => validators = "dev"

\* Without the relay chain's metadata the client stays Active, and Asset Hub's
\* ForceEra alone keeps the dev validators, if nothing was on its way.
StaysWithoutMetadata ==
  pc = "fork" /\ ahub # "custom" /\ ~inFlight => validators = "dev"

\* "every core needs a validator group" (overrides.rs:579): every core of the
\* plan has a group with a validator in it, every validator is in one group.
EveryCoreIsServed ==
  pc = "fork" =>
    /\ \A s \in CorePlan(cores) : s[1] \in DOMAIN groups /\ groups[s[1]] # {}
    /\ \A v \in 0 .. Cardinality(authorities) - 1 :
         \E k \in DOMAIN groups : \A l \in DOMAIN groups : v \in groups[l] <=> l = k

\* "the validator set in state always matches the nodes running" (config.rs:167).
AuthoritiesAreTheNodes == pc = "fork" => authorities = nodes

=============================================================================
