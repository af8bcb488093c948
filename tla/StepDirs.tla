------------------------------- MODULE StepDirs -------------------------------
(***************************************************************************)
(* The step directories of a base path: bite/, spawn/, post/ and after/,   *)
(* their -debug and numbered copies, and the commands that fill them,      *)
(* start a network from them and pack them (main.rs, network.rs,           *)
(* doppelganger.rs, utils.rs).                                             *)
(*                                                                         *)
(* One command runs at a time and is a sequence of file-system effects;    *)
(* every effect is an action.  Between any two of them, and inside a       *)
(* write, the process may die (a kill, an I/O error, a panic of a          *)
(* dependency), and the next command meets what it left.  The user may     *)
(* place stop.txt at any moment.                                           *)
(*                                                                         *)
(* A file is the number of the command whose state or spec it holds.  The  *)
(* localised paths of a config are names: localize_config re-points every  *)
(* path to the directory of the config it reads, so the name is all that   *)
(* is left of them when a network starts.                                  *)
(***************************************************************************)
EXTENDS Integers, Sequences, FiniteSets

CONSTANTS
  Paras,       \* the bitten parachains, in the order of the command line
  RC,          \* the relay chain
  NoDir,       \* there is no such directory
  Validators,  \* relay chain nodes of the bitten config
  Helpers,     \* are the generate-artifacts and clean-up-dir commands used?
  Reuse,       \* is a bite made over a bite/ that has a config?
  MaxBites,    \* bound: bite commands
  MaxRuns      \* bound: commands of any kind

Step == {"bite", "spawn", "post", "after"}

\* dir_from()
DirFrom(s) == CASE s = "post" -> "spawn" [] s = "after" -> "post" [] OTHER -> "bite"

ParaSet == {Paras[i] : i \in DOMAIN Paras}
Chains == {RC} \cup ParaSet

\* Per chain a spec, a bite snapshot (also a collator's, at teardown) and the
\* overrides; of the relay chain also the snapshots of two validators and, while
\* a network runs in the directory, its nodes' data.
File == ({"spec", "snap", "over"} \X Chains) \cup ({"alice", "bob", "data"} \X {RC})

Absent == 0
Torn == -1      \* created or truncated, never completed
Run == 1 .. MaxRuns

Config == [state : {"none", "torn", "full"}, refs : SUBSET File]
NoConfig == [state |-> "none", refs |-> {}]

\* What a write that is cut short leaves of a config: no path line, or the first
\* one at least.
TornConfigs == {[state |-> "torn", refs |-> r] : r \in {{}, {<<"spec", RC>>}}}

\* boots: whose nodes the bootNodes of a chain's spec name (0: the list is empty).
Dir == [file : [File -> {Torn, Absent} \cup Run], boots : [Chains -> {0} \cup Run],
        config : Config, original : Config]
EmptyDir == [file |-> [f \in File |-> Absent], boots |-> [c \in Chains |-> 0],
             config |-> NoConfig, original |-> NoConfig]

ASSUME ChainsAssumption ==
  /\ Paras \in Seq(ParaSet)
  /\ RC \notin ParaSet
  /\ NoDir \notin Dir

ASSUME StepBoundsAssumption ==
  /\ Validators \in 2 .. 7       \* num_validators_for_cores
  /\ MaxRuns \in Nat /\ MaxBites \in Nat
  /\ Helpers \in BOOLEAN /\ Reuse \in BOOLEAN

VARIABLES
  live, debug,   \* <base>/<step> and <base>/<step>-debug
  moved,         \* <base>/<step>.0, <base>/<step>.1, ...
  ready,         \* ready.json: the bite it describes, Torn, or Absent
  stop,          \* stop.txt exists
  pc, cmd, step, \* the running command
  at,            \* its place in the list of files it goes through
  config,        \* the config.toml it has read
  publish,       \* --publish-bootnodes
  signalled,     \* teardown_signal
  run, bites,    \* commands, and bites, so far
  acked,         \* history: the runs whose teardown was signalled and completed,
                 \*   until their directory is worked on by hand or loses its config
  announced      \* history: the bite ready.json was written for (0: none)

dirs == <<live, debug, moved, ready>>
args == <<cmd, step, publish, run, bites>>
vars == <<dirs, stop, pc, args, at, config, signalled, acked, announced>>

Idle == pc \in {"idle", "panicked"}

Init ==
  /\ live = [s \in Step |-> NoDir] /\ debug = live
  /\ moved = [s \in Step |-> <<>>]
  /\ ready = Absent
  /\ stop = FALSE
  /\ pc = "idle" /\ cmd = "none" /\ step = "bite"
  /\ at = 1
  /\ config = NoConfig
  /\ publish = FALSE /\ signalled = FALSE
  /\ run = 0 /\ bites = 0
  /\ acked = {} /\ announced = 0

-----------------------------------------------------------------------------
(* The files a command goes through, in the order of the code.             *)

\* k[1] of the first parachain, k[2] of the first, k[1] of the second, ...
PerPara(k) == [i \in 1 .. 2 * Len(Paras) |-> <<k[1 + ((i - 1) % 2)], Paras[(i + 1) \div 2]>>]

BiteFiles ==
  [i \in 1 .. Len(Paras) |-> <<"over", Paras[i]>>]
    \o PerPara(<<"spec", "snap">>)
    \o <<<<"over", RC>>, <<"spec", RC>>, <<"snap", RC>>>>

TeardownFiles == <<<<"alice", RC>>, <<"bob", RC>>, <<"spec", RC>>>> \o PerPara(<<"snap", "spec">>)

\* Variants: the spec is forgotten; the snapshot is looked for under its name in
\* a bite.
NeededNoSpec == IF step = "bite" THEN <<<<"snap", RC>>>> ELSE <<<<"alice", RC>>>>
NeededBiteSnap == <<<<"spec", RC>>, <<"snap", RC>>>>

\* What clean_up_dir_for_step keeps besides config.toml.  Only bite() hands it
\* the parachains: the teardown and the helper pass an empty list.
Needed ==
  IF step = "bite"
  THEN IF cmd = "bite"
       THEN <<<<"spec", RC>>, <<"over", RC>>>>
              \o [i \in 1 .. 3 * Len(Paras) |->
                    <<<<"spec", "snap", "over">>[1 + ((i - 1) % 3)], Paras[(i + 2) \div 3]>>]
              \o <<<<"snap", RC>>>>
       ELSE <<<<"spec", RC>>, <<"over", RC>>, <<"snap", RC>>>>
  ELSE <<<<"spec", RC>>, <<"alice", RC>>>>

\* The config's snapshots: of the chains in a bitten one, per node afterwards.
Snapshots(refs) == {f \in refs : f[1] \in {"snap", "alice", "bob"}}

BiteRefs == {"spec", "snap"} \X Chains
NodeRefs == ({"spec"} \X Chains) \cup ({"alice", "bob"} \X {RC}) \cup ({"snap"} \X ParaSet)

-----------------------------------------------------------------------------
(* Steps of the process.                                                   *)

\* Variant: off by one.
GotoZero(p) == pc' = p /\ at' = 0

\* On to p, and to the first place of its list.
Goto(p) == pc' = p /\ at' = 1
Panic == pc' = "panicked" /\ UNCHANGED <<dirs, stop, args, at, config, signalled, acked, announced>>

SetFile(s, f, r) == [live EXCEPT ![s].file[f] = r]
SetConfig(s, c) == [live EXCEPT ![s].config = c]
Full(refs) == [state |-> "full", refs |-> refs]

\* A command of the command line.
Start(c, s, p) ==
  /\ Idle /\ run < MaxRuns
  /\ cmd' = c /\ step' = s
  /\ run' = run + 1
  /\ publish' \in IF c = "spawn" THEN BOOLEAN ELSE {FALSE}
  /\ signalled' = FALSE
  /\ Goto(p)
  /\ UNCHANGED stop

\* A directory that is created unless it is there.
Ensured(d) == IF d = NoDir THEN EmptyDir ELSE d

HasConfig(d) == d # NoDir /\ d.config.state = "full"

\* bite() works in bite/ as it is: what an earlier bite left there stays.
StartBite ==
  /\ bites < MaxBites
  /\ Reuse \/ ~HasConfig(live["bite"])
  /\ Start("bite", "bite", "biteFiles")
  /\ bites' = bites + 1
  /\ live' = [live EXCEPT !["bite"] = Ensured(@)]
  /\ announced' = 0
  /\ UNCHANGED <<debug, moved, ready, config, acked>>

\* Variant: ready.json is written before the files it announces.
ReadyFirst ==
  /\ pc = "biteFiles"
  /\ live' = SetFile("bite", BiteFiles[at], run)
  /\ IF at < Len(BiteFiles) THEN at' = at + 1 /\ UNCHANGED pc ELSE Goto("biteConfig")
  /\ ready' = run /\ announced' = run
  /\ UNCHANGED <<debug, moved, stop, args, config, signalled, acked>>

BiteFile ==
  /\ pc = "biteFiles"
  /\ live' = SetFile("bite", BiteFiles[at], run)
  /\ IF at < Len(BiteFiles) THEN at' = at + 1 /\ UNCHANGED pc ELSE Goto("biteConfig")
  /\ UNCHANGED <<debug, moved, ready, stop, args, config, signalled, acked, announced>>

BiteConfig ==
  /\ pc = "biteConfig"
  /\ live' = SetConfig("bite", Full(BiteRefs))
  /\ Goto("biteReady")
  /\ UNCHANGED <<debug, moved, ready, stop, args, config, signalled, acked, announced>>

\* ready.json comes before the clean-up.  Its write may fail unnoticed and leave
\* it as it was, or Torn, which stands for both; manifest.json, which no command
\* reads, is written next, and a failure of that ends the process (Die).
BiteReady ==
  /\ pc = "biteReady"
  /\ ready' \in {run, Torn}
  /\ announced' = IF ready' = run THEN run ELSE 0
  /\ Goto("removeDebug")
  /\ UNCHANGED <<live, debug, moved, stop, args, config, signalled, acked>>

\* The runs still to be kept when the directory of s is worked on by hand, when
\* the one it holds is the user's from then on, or has lost its config.
StillKept(s) == IF live[s] = NoDir THEN acked ELSE acked \ {live[s].file[<<"alice", RC>>]}

\* The helper commands.
StartGenerate ==
  /\ Helpers
  /\ \E s \in {"spawn", "post"} :
       Start("generate", s, "genConfigRead") /\ acked' = StillKept(s)
  /\ UNCHANGED <<dirs, config, bites, announced>>

StartCleanUp ==
  /\ Helpers
  /\ \E s \in {"bite", "spawn", "post"} :
       /\ Start("cleanup", s, "removeDebug")
       /\ acked' = StillKept(s)
       /\ announced' = IF s = "bite" THEN 0 ELSE announced
  /\ UNCHANGED <<dirs, config, bites>>

-----------------------------------------------------------------------------
(* A spawn, up to the running network.                                     *)

\* Without the directory to spawn from the command exits at once.
StartSpawn ==
  /\ \E s \in Step \ {"bite"} : live[DirFrom(s)] # NoDir /\ Start("spawn", s, "resolve")
  /\ UNCHANGED <<dirs, config, bites, acked, announced>>

\* Variants: the directory in use is used again; it is always moved to .0.
StayInPlace == UNCHANGED <<live, moved>>
MoveToFirst ==
  /\ moved' = [moved EXCEPT ![step] = <<live[step]>>]
  /\ live' = [live EXCEPT ![step] = NoDir]

\* resolve_if_dir_exist: the first free suffix is the next one.
MoveAside ==
  /\ moved' = [moved EXCEPT ![step] = Append(@, live[step])]
  /\ live' = [live EXCEPT ![step] = NoDir]

Resolve ==
  /\ pc = "resolve"
  /\ IF live[step] = NoDir THEN UNCHANGED <<live, moved>> ELSE MoveAside
  /\ Goto("localize")
  /\ UNCHANGED <<debug, ready, stop, args, config, signalled, acked, announced>>

\* localize_config: the config is renamed, over an original that is there, before
\* the re-pointed one is written.
KeepOriginal(d) == [d EXCEPT !.original = d.config, !.config = NoConfig]

\* The code goes through the lines and parses nothing, and takes every path for
\* one to be re-pointed, so that a torn config is renamed like a whole one.
Localize ==
  LET from == DirFrom(step) IN
  /\ pc = "localize"
  /\ IF live[from].config.state = "none"
     THEN Panic
     ELSE /\ config' = live[from].config
          /\ IF config'.refs = {}
             THEN Goto("load") /\ UNCHANGED live
             ELSE Goto("repoint") /\ live' = [live EXCEPT ![from] = KeepOriginal(@)]
          /\ UNCHANGED <<debug, moved, ready, stop, args, signalled, acked, announced>>

Repoint ==
  /\ pc = "repoint"
  /\ live' = SetConfig(DirFrom(step), config)
  /\ Goto("load")
  /\ UNCHANGED <<debug, moved, ready, stop, args, config, signalled, acked, announced>>

Loads(d) == d.config.state = "full" /\ \A f \in d.config.refs : d.file[f] \in Run

\* The orchestrator creates the directory and starts every node in it from its
\* snapshot; a config or a file that does not load is a panic.
Load ==
  /\ pc = "load"
  /\ IF Loads(live[DirFrom(step)])
     THEN /\ live' = [live EXCEPT ![step] =
                        [Ensured(@) EXCEPT !.file[<<"data", RC>>] = run]]
          /\ Goto("startup")
          /\ UNCHANGED <<debug, moved, ready, stop, args, config, signalled, acked, announced>>
     ELSE Panic

\* Startup checks, verify and the upgrade: a failure ends the process (Die).
Startup ==
  /\ pc = "startup"
  /\ Goto("loop")
  /\ UNCHANGED <<dirs, stop, args, config, signalled, acked, announced>>

-----------------------------------------------------------------------------
(* The teardown.                                                           *)

\* Variant: the test of the loop is turned around.
LoopEndsUnsignalled ==
  /\ pc = "loop" /\ ~stop
  /\ Goto("teardown")
  /\ UNCHANGED <<dirs, stop, args, config, signalled, acked, announced>>

\* The loop ends at the stop file, or at an error looking for it.
LoopEnds ==
  /\ pc = "loop"
  /\ Goto("teardown")
  /\ UNCHANGED <<dirs, stop, args, config, signalled, acked, announced>>

\* The nodes are destroyed, then the file is looked for again.
Teardown ==
  /\ pc = "teardown"
  /\ signalled' = stop
  /\ Goto(IF stop THEN "genConfigRead" ELSE "finish")
  /\ UNCHANGED <<dirs, stop, args, config, acked, announced>>

\* generate_artifacts, of the teardown and of the helper.
GenConfigRead ==
  LET from == live[DirFrom(step)] IN
  /\ pc = "genConfigRead"
  /\ IF from # NoDir /\ live[step] # NoDir /\ from.config.state = "full"
     THEN /\ config' = from.config
          /\ Goto("genFiles")
          /\ UNCHANGED <<dirs, stop, args, signalled, acked, announced>>
     ELSE Panic

\* A snapshot is created before the node's data is looked at; a spec is copied
\* with the bootnodes it has.
GenFile ==
  LET f == TeardownFiles[at]
      from == live[DirFrom(step)]
      source == IF f[1] = "spec" THEN from.file[f] ELSE live[step].file[<<"data", RC>>]
      missing == source = Absent
  IN
  /\ pc = "genFiles"
  /\ IF f[1] # "spec"
     THEN live' = SetFile(step, f, IF missing THEN Torn ELSE source)
     ELSE live' = IF missing THEN live
                  ELSE [SetFile(step, f, source) EXCEPT ![step].boots[f[2]] = from.boots[f[2]]]
  /\ IF missing THEN pc' = "panicked" /\ UNCHANGED at
     ELSE IF at < Len(TeardownFiles) THEN at' = at + 1 /\ UNCHANGED pc
     ELSE Goto("genConfig")
  /\ UNCHANGED <<debug, moved, ready, stop, args, config, signalled, acked, announced>>

\* Every node of a config without one snapshot per node is given one: the two
\* of the validators, then those of the collators.  There is none for a third
\* validator.
GenConfig ==
  LET insert == Cardinality(Snapshots(config.refs)) # 2 + Len(Paras) IN
  /\ pc = "genConfig"
  /\ IF insert /\ Validators > 2
     THEN Panic
     ELSE /\ live' = SetConfig(step, Full(IF insert THEN NodeRefs ELSE config.refs))
          /\ Goto(IF cmd = "spawn" THEN "removeDebug" ELSE "idle")
          /\ UNCHANGED <<debug, moved, ready, stop, args, config, signalled, acked, announced>>

-----------------------------------------------------------------------------
(* clean_up_dir_for_step: of the bite, of the teardown and of the helper.  *)

RemoveDebug ==
  /\ pc = "removeDebug"
  /\ debug' = [debug EXCEPT ![step] = NoDir]
  /\ Goto("renameDir")
  /\ UNCHANGED <<live, moved, ready, stop, args, config, signalled, acked, announced>>

RenameDir ==
  /\ pc = "renameDir"
  /\ IF live[step] = NoDir
     THEN Panic
     ELSE /\ debug' = [debug EXCEPT ![step] = live[step]]
          /\ live' = [live EXCEPT ![step] = NoDir]
          /\ Goto("createDir")
          /\ UNCHANGED <<moved, ready, stop, args, config, signalled, acked, announced>>

CreateDir ==
  /\ pc = "createDir"
  /\ live' = [live EXCEPT ![step] = EmptyDir]
  /\ Goto("moveConfig")
  /\ UNCHANGED <<debug, moved, ready, stop, args, config, signalled, acked, announced>>

MoveConfig ==
  /\ pc = "moveConfig"
  /\ IF debug[step].config.state = "none"
     THEN Panic
     ELSE /\ live' = SetConfig(step, debug[step].config)
          /\ debug' = [debug EXCEPT ![step].config = NoConfig]
          /\ Goto("moveFiles")
          /\ UNCHANGED <<moved, ready, stop, args, config, signalled, acked, announced>>

\* Overrides that were not there when the list was made are not in it.  Anything
\* else may not be missing, nor overrides that were moved already.
Missing(f) ==
  /\ debug[step].file[f] = Absent
  /\ f[1] # "over" \/ live[step].file[f] # Absent

MoveFile ==
  LET f == Needed[at]
      found == debug[step].file[f]
  IN
  /\ pc = "moveFiles"
  /\ IF Missing(f)
     THEN Panic
     ELSE /\ live' = [SetFile(step, f, found) EXCEPT
                        ![step].boots[f[2]] = IF f[1] = "spec" THEN debug[step].boots[f[2]] ELSE @]
          /\ debug' = [debug EXCEPT ![step].file[f] = Absent]
          /\ IF at < Len(Needed) THEN at' = at + 1 /\ UNCHANGED pc
             ELSE Goto(IF cmd = "spawn" THEN "publish" ELSE "idle")
          /\ UNCHANGED <<moved, ready, stop, args, config, signalled, acked, announced>>

-----------------------------------------------------------------------------
\* Variant: the bootnodes are written into the directory spawned from.
PublishedFrom(s) == DirFrom(s)

\* The directory whose specs --publish-bootnodes fills.
PublishedIn(s) == s

\* Every complete spec in the directory names the nodes of this run.
Publish ==
  LET s == PublishedIn(step) IN
  /\ pc = "publish"
  /\ live' = IF ~publish THEN live
             ELSE [live EXCEPT ![s].boots =
                     [c \in Chains |-> IF live[s].file[<<"spec", c>>] \in Run THEN run ELSE @[c]]]
  /\ Goto("finish")
  /\ UNCHANGED <<debug, moved, ready, stop, args, config, signalled, acked, announced>>

\* "signal that the teardown is completed"; with no signal, a file placed since
\* is removed all the same.
Finish ==
  /\ pc = "finish"
  /\ stop' = FALSE
  /\ acked' = IF signalled THEN acked \cup {run} ELSE acked
  /\ Goto("idle")
  /\ UNCHANGED <<dirs, args, config, signalled, announced>>

-----------------------------------------------------------------------------
(* The user, and the end of the process at any point.                      *)

TouchStop ==
  /\ ~stop
  /\ stop' = TRUE
  /\ UNCHANGED <<dirs, pc, args, at, config, signalled, acked, announced>>

\* What a write that was under way leaves.
TornWrite ==
  \/ pc = "biteFiles" /\ live' = SetFile("bite", BiteFiles[at], Torn)
  \/ pc = "genFiles" /\ live' = SetFile(step, TeardownFiles[at], Torn)
  \/ pc = "biteConfig" /\ \E c \in TornConfigs : live' = SetConfig("bite", c)
  \/ pc = "genConfig" /\ \E c \in TornConfigs : live' = SetConfig(step, c)
  \/ pc = "repoint" /\ \E c \in TornConfigs : live' = SetConfig(DirFrom(step), c)
  \/ pc = "publish" /\ publish /\ live' = SetFile(PublishedIn(step), <<"spec", RC>>, Torn)

\* A death between the rename and the end of the write of localize_config costs
\* the directory its config.toml.
Die ==
  /\ ~Idle
  /\ pc' = "idle"
  /\ live' = live \/ TornWrite
  /\ acked' = IF pc = "repoint" THEN StillKept(DirFrom(step)) ELSE acked
  /\ UNCHANGED <<debug, moved, ready, stop, args, at, config, signalled, announced>>

-----------------------------------------------------------------------------
Command == StartBite \/ StartSpawn \/ StartGenerate \/ StartCleanUp

Process ==
  \/ BiteFile \/ BiteConfig \/ BiteReady
  \/ Resolve \/ Localize \/ Repoint \/ Load \/ Startup
  \/ (LoopEnds /\ stop) \/ Teardown
  \/ GenConfigRead \/ GenFile \/ GenConfig
  \/ RemoveDebug \/ RenameDir \/ CreateDir \/ MoveConfig \/ MoveFile
  \/ Publish \/ Finish

\* No command is running.
Rest == Idle /\ UNCHANGED vars

Next == Command \/ Process \/ LoopEnds \/ TouchStop \/ Die \/ Rest

\* A command runs on by itself; nobody has to start one, place the file or die,
\* and the error that ends the loop without the file need never come.
Spec == Init /\ [][Next]_vars /\ WF_vars(Process)

-----------------------------------------------------------------------------
DirOrNone == Dir \cup {NoDir}

DirsOK ==
  /\ live \in [Step -> DirOrNone] /\ debug \in [Step -> DirOrNone]
  /\ moved \in [Step -> Seq(Dir)]
  /\ ready \in {Torn, Absent} \cup Run

FlagsOK == stop \in BOOLEAN /\ publish \in BOOLEAN /\ signalled \in BOOLEAN

CommandOK ==
  /\ pc \in {"idle", "panicked", "biteFiles", "biteConfig", "biteReady", "resolve",
             "localize", "repoint", "load", "startup", "loop", "teardown", "genConfigRead",
             "genFiles", "genConfig", "removeDebug", "renameDir", "createDir",
             "moveConfig", "moveFiles", "publish", "finish"}
  /\ cmd \in {"none", "bite", "spawn", "generate", "cleanup"}
  /\ step \in Step
  /\ at \in Nat \ {0}
  /\ config \in Config
  /\ run \in {0} \cup Run /\ bites \in Nat
  /\ acked \in SUBSET Run /\ announced \in {0} \cup Run

TypeOK == DirsOK /\ FlagsOK /\ CommandOK

\* The stop file of a signalled run is removed ("signal that the teardown is
\* completed", network.rs:135) only when its directory holds what that run
\* leaves for the next step: a config, the snapshot of its own state and the
\* relay chain's spec, with its own nodes in it when they are to be published.
AckMeansArtifacts ==
  [][acked' \ acked # {} =>
       LET d == live'[step] IN
       /\ d # NoDir
       /\ d.config.state = "full"
       /\ d.file[<<"alice", RC>>] = run
       /\ d.file[<<"spec", RC>>] \in Run
       /\ publish => d.boots[RC] = run]_vars

\* The directory of s as the running command leaves it, if it lives: between the
\* rename and the write of localize_config the config is in its memory only.
Rewriting(s) == pc = "repoint" /\ s = DirFrom(step) /\ config.state = "full"
Seen(s) == IF Rewriting(s) THEN [live[s] EXCEPT !.config = config] ELSE live[s]

\* What a completed step is to the next one: a snapshot, the relay chain's spec
\* and a config.
Holds(d, r) ==
  /\ HasConfig(d)
  /\ d.file[<<"alice", RC>>] = r
  /\ d.file[<<"spec", RC>>] \in Run

InNumbered(r) == \E s \in Step : \E i \in DOMAIN moved[s] : Holds(moved[s][i], r)

\* A step whose teardown was completed stays on disk, in its directory or in a
\* numbered one, whatever is started, dies or panics later, until a helper
\* command is run on its directory or a process dies while it rewrites the
\* config there: no other death costs the user a step.
NoArtifactLost ==
  \A r \in acked : InNumbered(r) \/ \E s \in Step \ {"bite"} : Holds(Seen(s), r)

\* The completed steps as the user knows them (Depot): the one a directory
\* holds, those that were moved aside, and all that were promised.
held == [s \in Step \ {"bite"} |->
           IF \E r \in acked : Holds(Seen(s), r) THEN Seen(s).file[<<"alice", RC>>] ELSE Absent]
attic == {r \in acked : InNumbered(r)}
D == INSTANCE Depot WITH Steps <- Step \ {"bite"}, Runs <- Run, None <- Absent, promised <- acked

\* The sequences of file-system effects, cut short anywhere, implement a depot
\* that takes in a run, moves one aside, spoils one or gives one to the user in
\* one step.
DepotSpec == D!Spec

\* The bite directory can start a network: a whole config.toml, every file it
\* names, all of one bite, advertising no node.
BiteIsWhole ==
  LET d == Seen("bite") IN
  /\ HasConfig(d)
  /\ \E r \in Run : \A f \in d.config.refs : d.file[f] = r
  /\ \A c \in Chains : d.boots[c] = 0

\* A process dies while it rewrites the config of s, and takes nothing else.
SpoilsConfig(s) ==
  /\ Rewriting(s) /\ pc' = "idle"
  /\ live' = [live EXCEPT ![s].config = live'[s].config]

\* A bite directory that could start a network can start the next one too,
\* whatever the commands on other steps do and wherever they die (a bite, and a
\* clean-up of bite/ by hand, do take it apart), but for its config when the
\* death is in the rewriting of that.
BiteKept ==
  BiteIsWhole /\ (step' # "bite" \/ pc' = "idle") => BiteIsWhole' \/ SpoilsConfig("bite")

\* The bite "generates artifacts to spawn the bited network multiple times"
\* (README.md:22): when bite/ has a whole config, as config.toml or still as
\* original-config.toml, no spawn takes it away.
WholeConfigLeft ==
  [][LET Left(d) == d # NoDir /\ "full" \in {d.config.state, d.original.state}
     IN cmd' = "spawn" /\ Left(live["bite"]) => Left(live'["bite"])]_live

\* A network starts from snapshots of one moment: those its config names come
\* from one bite or one run, never from two.
RunsOnOneState ==
  pc \in {"startup", "loop"} =>
    LET d == live[DirFrom(step)] IN
    \A f, g \in Snapshots(d.config.refs) : d.file[f] = d.file[g]

\* ready.json describes a bite whose files exist, in bite/ or in
\* bite-debug/ while (or after the process died while) they are moved, until the
\* next bite begins, clean-up-dir is run on bite/ or a bundle is unpacked there.
ReadyHasArtifacts ==
  announced # 0 =>
    /\ ready = announced
    /\ \A f \in BiteRefs : \E d \in {live["bite"], debug["bite"]} \ {NoDir} : d.file[f] = ready

\* "If this directories are already used, zombie-bite will move the content to
\* a new one" (README.md:30): a file of an earlier command is never replaced
\* by a later command's, only torn by one that dies over it, but for those of a
\* bite that has no config (it died, or a spawn's death took the config), and
\* the specs generate-artifacts copies again when it is run by hand.
ContentMovedAside ==
  [][\A s \in Step :
       /\ live[s] # NoDir /\ live'[s] # NoDir
       /\ s = "bite" => HasConfig(live[s])
       => \A f \in File :
            live[s].file[f] \in Run /\ ~(cmd = "generate" /\ f[1] = "spec")
              => live'[s].file[f] \in {live[s].file[f], Torn}]_live

\* "pack the artifacts for the post step" (README.md:24): what a completed
\* signalled teardown leaves loads in the next step.
SignalledArtifactsLoad ==
  [][acked' \ acked # {} => Loads(live'[step])]_vars

TeardownPcs == {"teardown", "genConfigRead", "genFiles", "genConfig", "removeDebug",
                "renameDir", "createDir", "moveConfig", "moveFiles", "publish", "finish"}

\* A network whose artifacts can't be generated at teardown "ends with an error
\* instead of a panic" (CHANGELOG.md:118-120).
TeardownNeverPanics ==
  [][cmd = "spawn" /\ pc \in TeardownPcs => pc' # "panicked"]_vars

\* "This will automatically teardown the network and generate the artifacts"
\* (README.md:271): a running network with the stop file in place ends.
SignalEndsTheRun == pc = "loop" /\ stop ~> Idle

=============================================================================
