# Verification of zombie-bite

zombie-bite takes a live Polkadot-like network (a relay chain and some of its
parachains), *bites* it, that is downloads its state with storage overrides that
hand it to development keys, and *spawns* a local network from the result. The
code is in `src/crates/zombie-bite-core/src/` (the library) and
`src/crates/zombie-bite/src/` (the command line); file names below are relative
to these. This directory holds TLA+ modules that model the code, TLC
configurations that check them on small instances, and proofs for every instance
that TLAPS checks.

Run a check with `tlc -config MCBite.cfg MCBite`, a proof with
`tlapm BiteProofs.tla`.

## Contents

1. [The system](#the-system): its parts, their state, how they interact
2. [The modules](#the-modules): what models what
3. [The runs](#the-runs): what each one shows, and the bounds
4. [Fairness](#fairness)
5. [The proofs](#the-proofs)
6. [Findings](#findings)
7. [What is not modelled](#what-is-not-modelled)
8. [The plan](#the-plan)

## The system

One process, one command at a time. `bite` and `spawn` start child processes
(nodes) and talk to them over HTTP; everything a later command needs passes
through files under the *base path*. There is no lock and no daemon: what makes
the code hard is that nodes, source networks, the user and the file system go on
between any two of its steps, that it may die in any of them, and that the next
command meets what was left.

| Component | Code | State it keeps | Operations |
|---|---|---|---|
| Bite orchestration, sync nodes | `doppelganger.rs` (`bite`), `sync.rs` | futures, sync nodes, databases, head and header files, `para_heads_env` | prepare a parachain (read metadata, write overrides and a target header), spawn a sync node, wait for its metric, pack, read the head, the same for the relay chain |
| Storage overrides | `overrides.rs`, `metadata.rs` | the override and inject maps, skipped and failed entries | build them for the relay chain and for a parachain, check keys and values against the runtime's metadata, switch the staking client, seed a carried upgrade |
| Network of the fork | `doppelganger.rs` (`generate_config`), `config.rs` | `config.toml` | count validators from cores, name nodes, name specs, snapshots and overrides |
| Step directories | `doppelganger.rs`, `network.rs`, `utils.rs`, `main.rs` | `bite/`, `spawn/`, `post/`, `after/`, their `-debug` and numbered copies, `ready.json`, `stop.txt` | fill, move aside, localize, load, generate artifacts, clean up |
| Startup checks, verification | `network.rs`, `verify.rs` | the wait under way | wait for finalized blocks, prime finality on every chain, compare a block hash with the source network's |
| Authorized upgrade | `upgrade.rs` | the version read before the submission | submit, wait for the version |
| Progress monitor | `monit.rs` | a checkpoint per watched node, a counter, `alice_was_restarted` | read two metrics, restart a node, look for `stop.txt` |
| Teardown | `network.rs` (`tear_down_and_generate`) | was the run signalled? | destroy, generate, clean up, publish bootnodes, remove `stop.txt` |
| Bootnodes | `bootnodes.rs` | addresses collected before the teardown | rewrite the `bootNodes` of the published specs |
| Bundle | `bundle.rs` | one archive | pack a step and `ready.json`, unpack them over a base path |
| Manifest | `manifest.rs` | `manifest.json` | written at the end of a bite |
| Configuration | `resolve.rs`, `config.rs` | none | merge command line, config file and environment, and refuse what makes no sense |
| Command line | `cli.rs`, `main.rs` | none | dispatch |
| Helpers | `utils.rs`, `lib.rs` | none | keys, ports, files, `localize_config` |

How they interact, in the order of a run:

* `main` resolves the options and calls **bite**. It asks each source chain for
  its metadata and live values, has **overrides** made from them, and starts a
  doppelganger node per parachain. These run at the same time, write each
  chain's head to a file when their import is complete, and stop there. `bite`
  waits for all of them, packs the databases, and gives the heads to the relay
  chain's node through its environment. **generate_config** then names
  every file in `bite/config.toml`; `ready.json` and the manifest are written
  next to the step directories, and a clean-up moves what is not needed to
  `bite-debug/`.
* `spawn` of a step moves the step's directory aside if there is one, re-points
  the paths in the config of the step before it (`localize_config`), and starts
  the network. The **startup checks**, the **verification** (which reads
  `ready.json`) and the **upgrade** (which reads `ready.json` and the blob next
  to it) follow, each able to end the process.
* The **monitor**, or a plain loop, then runs until `stop.txt` appears. The
  **teardown** destroys the nodes; if the file is there it packs their data as
  the next step's artifacts, cleans up, publishes bootnodes and removes the file,
  which tells the user that the artifacts are complete.
* The next step does the same from the directory of the step before it.

Hard behaviours, and where the properties aim:

* *Interleaving.* Metric reads with blocks (monitor); hash reads with reorgs, a
  user's own upgrade with ours (startup); futures that resolve in any order
  (bite); the source chains that go on while values read from them wait (bite,
  fork).
* *Failure.* A process that dies between a rename and a write, or in a write,
  or halfway through an archive; a request that fails and is taken for an answer;
  a node that dies.
* *Ordering.* The stop file's removal after the artifacts, debug directories
  removed before they are filled again, finality before comparison.
* *Timeouts.* Three waits with a timeout, several without one.
* *Long sequences.* Sessions and elections on the fork that replace the
  development validators long after the start; commands that run over what
  earlier ones left.

What makes each component correct:

* bite: what the relay chain is told of its parachains is what was packed, and
  overrides are made from the state they are put on;
* overrides and network: the development validators stay in power, every core
  has validators, every authority has a node;
* step directories: no completed artifact is lost and the bite stays usable, but
  for a death in the rewriting of a config; a network never starts from two
  different states, a removed stop file means complete artifacts, and what
  `ready.json` announces exists; together they make a *depot* of completed runs,
  whatever the order and the deaths of the commands;
* bundle: a step that could start a network can start one where it is unpacked;
* configuration: the command line wins over the file, the file over the default,
  and what was accepted is what is done;
* startup: a fork that follows its source is not called a fork, upgrades are
  enacted and in order, the checks end;
* monitor: stalled nodes are acted on in bounded time, once a check, and the stop
  file ends it.

## The modules

Every module's header says what it models and what it takes from outside the
code. `PROJECT.json` maps each definition to the lines it stands for. A comment
that begins with "Variant" marks an operator that the specification does not
use: a plausible slip in the code, kept to show that some property notices it.

### Monitor (`monit.rs`, started from `network.rs`)

One task, and the nodes and the user beside it. `pc` is where the task is:
`readBest` and `readFinalized` are the two awaited requests of `progress()`,
`loop` the test for the stop file, `asleep` the minute of sleep. `node`,
`checkpoint`, `aliceRestarted`, `counter` are the locals of `monit_progress` and
its closure. `ReadFinalized` and `ReadFails` end in `Advance` (the next node, or
back to the loop) or `NoProgress` (a restart, or a panic in the checks before the
loop). `Wake` counts minutes as the code does, so checks are `CheckEvery + 1`
minutes apart. `stalledFor` and `restarts` are history variables. Outside the
code: nodes import, finalize, stall; a restarted node comes back anywhere between
its finalized and its best block.

### StepDirs (`network.rs`, `doppelganger.rs`, `utils.rs`, `main.rs`)

A directory is a record of files (each holding the number of the command whose
state it has, or `Absent`, or `Torn`), a config (a set of file names, since
paths are re-pointed whenever they are read), the renamed original config, and
whose bootnodes each spec advertises. A torn config keeps no path, or the first
of them: nothing tells the other remainders apart. `live`, `debug` and `moved` are the
directories themselves, their `-debug` copies and the numbered ones. A command is
a sequence of effects, one action each: `BiteFile` ... `BiteReady`, then the
clean-up; `Resolve`, `Localize`, `Repoint`, `Load`, `Startup`, `LoopEnds`,
`Teardown`, `GenConfigRead`, `GenFile`, `GenConfig`, `RemoveDebug`, `RenameDir`,
`CreateDir`, `MoveConfig`, `MoveFile`, `Publish`, `Finish`. `Die` ends any
command before any effect, or in the middle of a write (`TornWrite`). The panics
of the code (a config or a file that is not there, a list of snapshots that has
run out) are the state `panicked`, from which the next command may start.

`localize_config` decides by lines, not by parsing: every path it meets counts as
one to be re-pointed, also one that is local already (the value it compares still
has its quotes), so that `Localize` renames whatever `config.toml` is there, torn
or whole, over the original, and a config without any path is left alone. Only
`config.toml` starts a network; no code reads `original-config.toml`. Between the
rename and the end of the write the whole config is in the memory of the process
only: `Seen(s)` is the directory with it, `Rewriting(s)` says that this is so. A
death there costs the directory its config, of which `BiteLeftUntouched` and the
depot say that it is the only such loss, and `steps_respawn` what the next spawn
makes of it.

`ready` is `ready.json` alone. Its write may fail without a word
(`doppelganger.rs:476`), and so `BiteReady` may leave it torn. The manifest, which
follows it, is read by no command.

Two history variables say what the user was promised: `acked` holds the runs
whose stop file was removed, `announced` the bite `ready.json` was written for.
A helper command run by hand on a directory takes it out of the promise, and so
does a death in the rewriting of its config; for `announced` the next bite does,
and an unpacking over `bite/`. `Reuse` says whether a bite is made over a `bite/`
that has a config: the code does not refuse it (`doppelganger.rs:100-107` creates
the directory or takes it as it is, although README:30 of the repository says that
a directory in use is moved aside), and the properties about `bite/` are those of
a user who does not.

### Depot, which StepDirs implements

The abstract specification of the step directories: each of `spawn/`, `post/` and
`after/` holds one completed run at most (`held`), the others were moved aside
(`attic`), and all that were promised are in one of the two (`AllKept`). `Aside`,
`Complete`, `Restore`, `TakeOver`, `Spoil` and `Leave` are single steps: nobody
sees a run that is half moved or half packed. `DepotSpec` in `StepDirs` is the
refinement: `held[s]` is the run whose snapshot is in the directory, as it is
`Seen`, if that run was promised and the directory has its spec and `config.toml`;
`attic` are the promised runs in numbered directories; `promised` is `acked`.
`Resolve` is `Aside`, `Finish` is `Complete`, the helpers are `TakeOver`, a death
in the rewriting of a config is `Spoil`; every other effect, death and panic
changes nothing in the depot: `Localize` and `Repoint` are invisible to it because
the config they move is seen all along. With bundles, unpacking is `Restore` and
going on in another base path `Leave`.

### Bundle (`bundle.rs`), on top of StepDirs

`bundle` is the archive: a step's directory, the `ready` it was packed with, and
whether all of it is in the file. `Pack` may be cut short; `UnpackAndSpawn` and
`UnpackFails` write the entries over whatever is in `live`. What is left of a cut
unpacking is any set of `Groups` (the entries of a chain, or the two configs,
together) and one entry in part: entries of one chain come in any order in the
code, but no command tells the orders apart. `ready.json` comes after the step's
directory and before the ports and the blobs (`bundle.rs:50-64`), so an unpacking
that fails after the directory may have replaced it, or torn it. Over the files
that `ready.json` announces an unpacking ends the announcement. An archive that was cut is unpacked
only where there is no directory, and, unless `Reuse`, a bundle is unpacked over
nothing but what an unpacking of it left: both are what a user does, the code
checks neither. `Elsewhere` is a second base path, where only the bundle is.

### Options (`resolve.rs`, `config.rs`, `cli.rs`, `main.rs`)

The value of an option is where it came from: the command line, the file, the
environment, the name of the network, or the default. `Init` chooses what is given
where; `Resolve` is `resolve()` with all that is refused; `Bite` and `Spawn` are
what `main` makes of the result. Upgrades and cores are tables by parachain,
merged by entry; the list of parachains is replaced as a whole; the relay chain's
values depend on each other, which is the finding of `options_file`. A bite block
without an endpoint is accepted and then panics (`BitePanics`).

### Bite (`doppelganger.rs` `bite`, `sync.rs`, `metadata.rs`)

`pc` walks through `bite()`; `task[c]` is the future of a chain (not polled yet,
waiting, over), since Rust futures do nothing before `try_join_all` polls them.
The sync nodes are external: they come up, import a target or the head of that
moment, write a head file, or die. `source` moves on at any time. `metaAt` is the
block the overrides were made from (`Unverified` when the metadata could not be
had), `header` what the node's target header file says, `snap` what was packed,
`heads` what the relay chain's node is given, `info` the block in the file a node
writes for `ready.json` (`rc_info.txt`, `para-N.txt`): `ReadInfos`, after the relay
chain's database is packed, panics when one is missing (`doppelganger.rs:385-398`).
`Init` allows the files of a bite that died. `faulted` is a history variable.

### Fork (`overrides.rs`, `metadata.rs`, `config.rs`, `resolve.rs`, `doppelganger.rs` `generate_config`)

What the bite writes of the items that decide who the validators are, and what
the forked chains do with them. `Resolve` chooses the cores a command line or a
config file may give; `RelayOverrides` is `generate_default_overrides_for_rc`;
`Import` puts the overrides on the state and spawns the nodes. After it only the
chains act: elections on Asset Hub, validator sets on their way, session
rotations. These are external and are modelled from what `overrides.rs` says of
them. The core plan, validator groups, authorities and node names are operators.

### Startup (`network.rs`, `verify.rs`, `upgrade.rs`)

`pc` and `at` walk through the checks, chain by chain: `blocks`, `primeFrom` and
`prime`, `ready`, `forkHash` and `sourceHash`, `verified`, `version`, `submit`
and `upgrade`. A poll in vain is `KeepWaiting`, which counts up to a timeout.
Heights are counted from the block of the spawn. Outside the code: a chain
produces and finalizes, never gives up a finalized block, and may reach its
source network as long as it has finalized nothing of its own; the user may apply
an upgrade whenever it is authorized.

How they compose: each module stands for one stage and leaves the others as one
step (`StepDirs` has the whole of `Startup` as one action, `Fork` the sync as
one, `Bite` the override as one). They share no state but the files, and
`StepDirs` is the module of the files, which `Bundle` extends with the archives
and `Depot` abstracts from.

## The runs

Every passing run checks a type invariant and the properties named here; each
property has a mutant of the code's model that it catches.

| Run | Instance | Shows |
|---|---|---|
| `monitor` | alice, bob, a collator; a check every 2 minutes; heights 1..2 | A watched node that stalled is acted on within two periods (`StallCaughtInTwoPeriods`), at most once per check (`OneRestartPerCheck`), the collator with alice (`CollatorFollowsAlice`), the stop file ends the task (`StopIsHonoured`) |
| `steps` (1.8 million states, about three minutes) | `Bundle` and `StepDirs`: one parachain, 2 validators, 4 commands (2 bites at most, one pack), helper commands | `RunsOnOneState`, `NoArtifactLost`, `ReadyHasArtifacts`, `AckMeansArtifacts`, `BiteLeftUntouched`, `ContentMovedAside`, `TeardownNeverPanics`, `UnpackedStepLoads`, `SignalEndsTheRun`, and that the effects implement `Depot` (`DepotSpec`) |
| `steps_post` | no parachain, 2 commands | violation: `SignalledArtifactsLoad` |
| `steps_validators` | 4 validators, 2 commands | violation: `TeardownNeverPanics` |
| `steps_respawn` | no parachain, a bite and two spawns | violation: `WholeConfigLeft` |
| `bite` | two parachains, one pinned to a block; heights 1..3; faults | `RelayKnowsTheHeads`, `OverridesMatchTheState`, `ReadyTellsTheBlocks`, `BiteEnds` |
| `bite_synced` | heights 1..2, faults | violation: `OnlySyncedIsPacked` |
| `bite_pinned` | both parachains pinned | violation: `OverridesMatchTheState` |
| `fork` | two parachains of 0..4 cores, any runtime, mode and Asset Hub | `DevSetStays`, `StaysWithoutMetadata`, `EveryCoreIsServed`, `AuthoritiesAreTheNodes` |
| `startup` | one parachain; compared 2 blocks after the bite; waits of one poll; fresh and later steps | `FollowerIsCaught`, `RelayUpgradedFirst`, `UpgradesEnacted`, `StartupEnds` |
| `options` | one parachain, 3 options given in all, bite and spawn | `CommandLineWins`, `AskedIsDone` |
| `options_file` | the same | violation: `FileFillsIn` |

Why the bounds are enough:

* *monitor.* Two checks back to back decide a node's fate, and with heights 1..2
  a node can progress, stall, be restarted below its best block and stall again;
  the counter only stretches time. The proofs lift both bounds.
* *steps.* Four commands make a bite, a spawn, its artifacts packed by hand and a
  post step (after a signalled teardown the next step does not load,
  `steps_post`), or a step three times over (two numbered copies), or a bite, its
  pack, a cut unpacking and a spawn from the bundle, with a death anywhere. One
  parachain makes every list of files longer than the relay chain's own. What the
  proofs establish holds for any number of commands.
* *options.* Two options that affect each other and one they need make three, and
  a value has two origins, so every pair of them meets. Options of two parachains
  do not meet in the code.
* *bite.* Two parachains finish, die and are packed in either order; three
  blocks let a source move on between the read of its metadata, the start of its
  node and the end of its import. One pinned and one at the head covers both
  kinds; two pinned is the run `bite_pinned`.
* *fork.* Cores 0..4 for two parachains give 0 to 8 cores, from none through the
  seven accounts and the spare to more than the accounts allow.
* *startup.* Two chains are a round over more than one; a comparison block two
  above the bite is reached after finality may have begun, or before; one poll
  in vain and the next one late are the two outcomes of a wait. Real constants
  (5, 3, 300 s, 600 s, 900 s) only stretch it; the proofs lift all of them.

Deadlock is checked in every run. Where the code stops, a specification has a
step that changes nothing (`Done`, `Rest`, `Over`), so any other end is an error.

## Fairness

* `Monitor`: `WF(Task)`. The task is an async function that the runtime keeps
  polling; every await in it is a request with an outcome or a sleep. Nothing is
  assumed of nodes or of the user. The task's test for the stop file is exact, so
  `Sleep` is impossible once the file exists.
* `StepDirs` and `Bundle`: `WF(Process)`. A command runs on by itself. Deaths, the
  stop file and commands are not fair, and neither is an error that ends the loop.
* `Bite`: `WF(Process)`, and weak fairness of each chain's future: `try_join_all`
  polls every one of them, and each asks for the metric again and again. Nothing is
  fair about the nodes and the source chains: a node need not come up, finish or
  die, and a request for its metric need not fail. So a bite may wait for ever,
  since neither `wait_ws_ready` nor `wait_sync` (`sync.rs:257`) has a timeout, and
  the code itself tells of syncs that freeze silently (`sync.rs:54-57`). `BiteEnds`
  says that nothing else keeps it: it ends, or some node stays starting or syncing
  for ever (`KeepsWaiting`).
* `Startup`: `WF(Task)`. No chain has to produce, finalize or enact anything: the
  timeouts end the waits. The wait for the first finalized blocks has none, which
  is why `StartupEnds` begins after it.
* `Fork` and `Options` have safety properties only, and no fairness.

## The proofs

Eight proof modules. Each has an inductive invariant, the proof that the initial
states satisfy it and every action preserves it, and the theorems that follow.
`StepDirsProofs`, `ReadyProofs` and `DepotProofs` are one development in three
files, each on top of the one before: how far the running command is and what it
has written, what a network is started from, and whose state is where. The last
two have the theorems twice, first for the commands of `StepDirs` (`Spec`), then
with bundles as well (`BundleSpec`). Every safety property that a passing run
checks is stated by a theorem.

**Assumptions.** `Monitor`: alice, bob and the collator are different nodes; the
period, and the block of the bite, are positive. `StepDirs`: the relay chain is
none of the parachains, `NoDir` is no directory, and there are 2 to 7
validators. `Options`: the relay chain is no parachain. `Bite`: a
non-empty sequence of parachains without repetitions, none of them the relay
chain; blocks are positive numbers and `AtHead` is not one;
`OverridesMatch` is stated for one pinned parachain at most, and `bite_pinned` is
the counterexample for two. `Fork`: natural numbers of parachains and cores.
`Startup`: natural numbers, and a comparison at least one block after the bite.

**Hypotheses of single theorems.** Two things the code does not refuse and which
break what the theorems say stand in their statements:

* `~Reuse`: no bite over a `bite/` that can start a network, and a bundle unpacked
  only over what is left of its own unpacking (`OneStateRuns`, `EarlierFilesStay`,
  and those of `BundleSpec` but for `BundleTypes`, `BundleAcks`, `BundleTearsDown`
  and `UnpackedLoads`). A bite over another replaces its files one by one, and
  one that dies in between leaves two states under one config. `AnnouncedExists`, `ImplementsDepot`
  and `NothingLost`, without bundles, hold for `Reuse` too.
* `Validators = 2` (`TwoValidatorsTearDown`, `BundleTearsDown`): the default, and
  all that `generate_artifacts` has snapshots for; `steps_validators` is the
  counterexample for four.

| Module | Theorems | The invariant, and why it is needed |
|---|---|---|
| `MonitorProofs` | `TypeCorrect`, `StallsAreCaught`, `RestartsOncePerCheck`, `CollatorRestartsWithAlice` | The age of a stall depends on where the task is. A node that stalled may pass one more check with its last blocks, after which its checkpoint equals its heights and it can't pass another; so the age is bounded by the counter plus one or two periods, depending on whether the node's heights are above its checkpoint. Restarts are counted per check: nodes after the current one have none, except the collator when alice was restarted |
| `StepDirsProofs` | `TypeCorrect`, `AcksMeanArtifacts`, `TwoValidatorsTearDown` | `IInv` follows a running teardown: what the files generated so far, the config, the debug directory and the new directory hold at each place, so that what is moved back is of this run. The acknowledgement is one step at the end of a dozen others. The specs a teardown copies are where the network was started from, since every config on disk names its spec and no command takes it away meanwhile; with two validators that is all it needs |
| `ReadyProofs`, of `Spec` | `AnnouncedExists`, `OneStateRuns`, `EarlierFilesStay` | `AInv` follows the announced files: all in one directory, then all in the other, then those not moved yet in the other. `OInv`: a step's directory always holds one state (snapshots are made of the data that is there), `bite/` does whenever it has a config, and a clean-up never mixes two because it starts by emptying the other side. `CInv`: what a config of `bite/` may look like, and that a command that copies files copies those its config names; a file that is still to be moved back is not yet in the new directory, so that a clean-up writes over nothing |
| `ReadyProofs`, of `BundleSpec` | `BundleTypes`, `UnpackedLoads`, `BundleAcks`, `BundleTearsDown`, `BundleOneState`, `BundleAnnounced`, `BiteStaysWhole`, `BundleFilesStay` | Unpacking happens between commands, so `IInv` needs only that the bundle is a directory that could have been on disk (`BundleInv`). The rest needs what was in it: `PackedInv` (one state, like the directory it was packed from, also after that directory is gone). `BiteStaysWhole` follows the config of `bite/` into the memory of a spawn and back: `localize_config` only moves it, so that nothing but a death in between takes it, and takes nothing else |
| `DepotProofs`, of `Spec` | `StatesKnown`, `ImplementsDepot`, `NothingLost` | `RInv`, whose state is where: nothing on disk is newer than the running command, its own state is in its own directory only, and no promised run has its data in a directory or is where a command works. A step that keeps to the running command's directory (`Tame`) then leaves the depot as it is, which covers all effects but four and the death in the rewriting of a config. That one (`SpoilDepot`) strikes off the run of its directory, and by `GapInv` no config was left there. A depot loses nothing (`DepotKeeps`), and `NothingLost` is that, read through the refinement |
| `DepotProofs`, of `BundleSpec` | `BundleImplementsDepot`, `BundleNothingLost` | An unpacking must be `Restore`: the run it brings back was promised, so it is in the attic or in a directory, and the latter must be excluded. `LoneInv` (no promised run is in two directories), which packing turns into `CargoInv` (nor in a directory other than the one it was packed from), and what no command undoes, since a promised run never enters a directory but by its own teardown (`Settled`) |
| `BiteProofs` | `TypeCorrect`, `RelayKnowsHeads`, `ReadyIsTrue`, `OverridesMatch` | A future that is over has, as long as nothing failed, a node that is complete and paused, so its database and its head file are of one block; parachains before `at` have been packed from it. Leftovers do not matter because a node's import replaces them, the file with its block included. Overrides: a chain is prepared before its node starts, and without a second pinned parachain nothing rewrites its header |
| `ForkProofs` | `TypeCorrect`, `DevValidatorsStay`, `DevValidatorsStayBlindly`, `CoresAreServed`, `AuthoritiesRun` | What was written follows from the mode that was read; a live client only moves from Passive to Buffered to Active, so one that was Active is frozen in Buffered, and one that was not stays out of power unless it moved on between read and import. Cores: the numbers of the plan are below their count, and the round-robin gives each group a validator, for which the finiteness and the count of the slots are needed |
| `StartupProofs` | `TypeCorrect`, `VerdictsStand`, `RelayIsFirst`, `UpgradesAreEnacted` | A chain whose finality was waited for has finalized a block; if it does not follow its source then, it never will. The code primes every chain before it compares the first, so the hash that is compared, and the verdict, stand. The same fact keeps enacted upgrades from being undone |
| `OptionsProofs` | `CommandLineTakesOver`, `AcceptedIsDone` | What was accepted is the merge of inputs that no step changes and was not to be refused, and what a command that is over did follows from it. The two theorems are then a case for each way an option is merged, and the refusals that make a monitor or an upgrade need a spawn |

The inductive invariants were also checked by TLC, on the instances of the passing
runs.

Only model-checked:

* liveness (`StopIsHonoured`, `SignalEndsTheRun`, `BiteEnds`, `StartupEnds`):
  these rest on fairness, whose `ENABLED` no installed prover decides;
* the properties of the violation runs, which do not hold.

## Findings

Each is the counterexample of one violation run; `PROJECT.json` quotes the line
that says otherwise.

1. `steps_post`: a signalled teardown hands the clean-up an empty list of
   parachains and keeps alice's snapshot only, while the config it keeps names
   bob's and every parachain's files. The next step panics while loading.
2. `steps_validators`: `generate_artifacts` removes one snapshot per node name
   from a list that has two plus one per parachain; a third validator, which two
   cores ask for, empties it and the teardown panics.
3. `steps_respawn`: a spawn that dies while it writes the re-pointed
   `config.toml` leaves it torn beside the full original; the next spawn renames
   the torn one over the original, and the only whole config is gone.
4. `bite_synced`: a metric request that fails reads as "not syncing", so a node
   that died, or did not answer once, counts as synced and a partial database is
   packed.
5. `bite_pinned`: every pinned parachain's target header goes to one file that
   the nodes read after the loop; the last one wins.
6. `options_file`: as soon as one of `--rc-override`, `--rc-sync-url` and
   `--rc-bite-at` is given, the file's other two are dropped without a word: a
   config with a block to bite at and `--rc-override` bites at the head.

Noticed while reading, with no run of their own:

* a second bite works in the directory of the first and replaces its files
  (`doppelganger.rs:100-107`), where README:30 says that a directory in use is
  moved aside;
* the monitor watches alice, bob and one collator only, every 16 minutes and not
  15 (`monit.rs:127`);
* of a spawn, the config file's `with_monitor` wins over the command line
  (`resolve.rs:420`), unlike every other option; a bite with `--and-spawn` always
  monitors;
* a config file may give a parachain no cores, which the command line refuses;
* an upgrade for a parachain that is not bitten is accepted and carries nothing,
  and `--apply-upgrade` then applies nothing;
* a custom relay ignores the file's `runtime_override` and `bite_at`, and
  `--rc-sync-url`; README:187 says that an unknown relay is taken for a custom
  one, it is refused;
* a parachain's `bite_at` without an endpoint panics, after README:198 spoke of a
  default one; a parachain given twice is not refused;
* the `-debug` directory of `after` is the literal `{AFTER}-{DEBUG}`
  (`config.rs:54`);
* a second bite that dies before its `ready.json` leaves the first one's beside
  its own files; errors of these writes are not looked at;
* a `stop.txt` left by a run that died ends the next one;
* published bootnodes reach the relay chain's spec only, as no parachain's spec
  survives the clean-up;
* the first wait of a startup has no timeout, so on a fork that never finalizes
  the 300 seconds of the verification never begin;
* generating artifacts in a directory that was cleaned truncates its snapshot, and
  run by hand after another bite copies that bite's spec;
* a carried blob is read once for its hash before the syncs and once more for the
  copy after them.

## What is not modelled

* *The encoding of storage values, keys and chain specs*: pure functions of their
  inputs. The overrides' values are represented by what they decide.
* *Messaging state, sudo, wasm overrides and collator keys* in the overrides:
  entries that are written or not, each on its own; no later step of this code
  depends on them. Required entries are in the plan.
* *Ports, node arguments, logging, images*: configuration without state.
* *Inside a node* (sync, consensus, the migration of staking): external, reduced
  to what this code relies on and says of it.
* *The CI path* (`ZOMBIE_BITE_CI_PATH`), which puts artifacts elsewhere.
* *Command-line parsing, examples, workflows*: no state of the program.

## The plan

In order of importance; 1 to 9 are done.

1. `Monitor`: the concurrent loop, with its proofs.
2. `StepDirs`: the files between the steps under crashes, the core of the system.
3. `Bite`: futures, sync nodes, heads.
4. `Fork`: validators and cores.
5. `Startup`: verification and upgrade.
6. `Depot` and the refinement, for any number of commands; `Bundle` on top.
7. `Options`: the precedence of command line, config file and environment, what
   is refused, and what is done with the rest.
8. Proofs of every invariant of 1 to 5 that the runs check.
9. Proofs of every safety property that the runs check, also for `Options`, and of
   the theorems of `StepDirs` for `Bundle`.
10. Which properties of `bite/` survive a bite over another (`Reuse`), as theorems
    without the hypothesis.
11. `Overrides`: required and skipped entries, so that what a user asked for is
   never dropped without an error; collator and session keys.
12. The upgrade's blob, read twice by a bite.

Modules are written to be proved about: parameters are constants with named
assumptions, an operation is an action, invariants are conjunctions of named
parts, and no operator is recursive.
