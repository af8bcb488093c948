---------------------------- MODULE StepDirsProofs ----------------------------
(***************************************************************************)
(* What holds of StepDirs for any parachains and any number of commands:   *)
(* its states are well typed, the stop file of a signalled run is removed  *)
(* only when the artifacts are in place, and a teardown does not panic.    *)
(***************************************************************************)
EXTENDS StepDirs, TLAPS

Value == {Torn, Absent} \cup Run

Wrote(d) == d.file[<<"alice", RC>>] = run /\ d.file[<<"spec", RC>>] \in Run

\* Where a list is being gone through, the place is one of its own.
PlaceInv ==
  /\ pc = "biteFiles" => at \in DOMAIN BiteFiles
  /\ pc = "genFiles" => at \in DOMAIN TeardownFiles
  /\ pc = "moveFiles" => at \in DOMAIN Needed

CleanPcs == {"removeDebug", "renameDir", "createDir", "moveConfig", "moveFiles"}

\* Which command is at which place, and of which step.
CommandInv ==
  /\ ~Idle => run \in Run
  /\ pc \in {"biteFiles", "biteConfig", "biteReady"} => cmd = "bite" /\ step = "bite"
  /\ pc \in {"resolve", "localize", "repoint", "load", "startup", "loop", "teardown",
             "publish", "finish"} => cmd = "spawn" /\ step # "bite"
  /\ pc \in {"genConfigRead", "genFiles", "genConfig"} => cmd \in {"spawn", "generate"} /\ step # "bite"
  /\ pc \in CleanPcs => /\ cmd \in {"bite", "spawn", "cleanup"}
                        /\ cmd = "spawn" => step # "bite"
                        /\ cmd = "bite" => step = "bite"

\* The directories a command works in exist.
DirInv ==
  /\ pc \in {"biteFiles", "biteConfig", "genFiles", "genConfig", "moveConfig", "moveFiles", "publish"}
       => live[step] # NoDir
  /\ pc \in {"resolve", "localize", "repoint", "load", "genFiles"} => live[DirFrom(step)] # NoDir
  /\ pc \in {"createDir", "moveConfig", "moveFiles"} => debug[step] # NoDir

SpecFiles == {"spec"} \X Chains
NamesSpec(c) == c.state = "full" => SpecFiles \subseteq c.refs

\* Every complete config names every chain's spec.
ConfigInv ==
  /\ NamesSpec(config)
  /\ pc = "genConfig" => config.state = "full"
  /\ pc = "genFiles" => config.state = "full"
  /\ \A s \in Step : /\ live[s] # NoDir => NamesSpec(live[s].config)
                     /\ debug[s] # NoDir => NamesSpec(debug[s].config)

\* How far the artifacts of a running spawn are, from the start of its network
\* to the removal of the stop file.
ArtifactInv ==
  cmd = "spawn" =>
    /\ pc \in {"startup", "loop", "teardown", "genConfigRead", "genFiles"} =>
         /\ live[step] # NoDir
         /\ live[DirFrom(step)] # NoDir
         /\ live[step].file[<<"data", RC>>] = run
         /\ live[DirFrom(step)].config.state = "full"
         /\ \A f \in SpecFiles : live[DirFrom(step)].file[f] \in Run
    /\ pc = "genFiles" => /\ at > 1 => live[step].file[<<"alice", RC>>] = run
                          /\ at > 3 => live[step].file[<<"spec", RC>>] \in Run
    /\ pc = "genConfig" => Wrote(live[step])
    /\ pc \in {"removeDebug", "renameDir"} =>
         live[step] # NoDir /\ Wrote(live[step]) /\ live[step].config.state = "full"
    /\ pc \in {"createDir", "moveConfig"} =>
         debug[step] # NoDir /\ Wrote(debug[step]) /\ debug[step].config.state = "full"
    /\ pc = "moveFiles" =>
         /\ live[step].config.state = "full"
         /\ debug[step].file[<<"alice", RC>>] = run
         /\ IF at = 1 THEN debug[step].file[<<"spec", RC>>] \in Run
                      ELSE live[step].file[<<"spec", RC>>] \in Run
    /\ pc \in {"publish", "finish"} /\ (pc = "publish" \/ signalled) =>
         /\ live[step] # NoDir
         /\ Wrote(live[step])
         /\ live[step].config.state = "full"
         /\ pc = "finish" /\ publish => live[step].boots[RC] = run

IInv == TypeOK /\ PlaceInv /\ CommandInv /\ DirInv /\ ConfigInv /\ ArtifactInv

-----------------------------------------------------------------------------
(* Constants: the files, and the lists of them.                            *)

\* The files the proofs name are files.
LEMMA FileFacts ==
  /\ \A c \in Chains : \A k \in {"spec", "snap", "over"} : <<k, c>> \in File
  /\ \A k \in {"spec", "snap", "over", "alice", "bob", "data"} : <<k, RC>> \in File
  /\ \A f \in File : f[2] \in Chains
  /\ RC \in Chains /\ ParaSet \subseteq Chains
BY DEF File, Chains

\* A generated config names files, every chain's spec among them.
LEMMA RefsFacts ==
  /\ SpecFiles \subseteq File /\ <<"spec", RC>> \in SpecFiles
  /\ BiteRefs \subseteq File /\ SpecFiles \subseteq BiteRefs
  /\ NodeRefs \subseteq File /\ SpecFiles \subseteq NodeRefs
BY DEF SpecFiles, BiteRefs, NodeRefs, File, Chains

\* The list of two files per parachain holds such files.
LEMMA PerParaTyped ==
  ASSUME NEW k \in [1 .. 2 -> {"spec", "snap", "over"}]
  PROVE  PerPara(k) \in Seq({"spec", "snap", "over"} \X ParaSet)
<1>1. Len(Paras) \in Nat /\ DOMAIN Paras = 1 .. Len(Paras)
  BY ChainsAssumption
<1>2. ASSUME NEW i \in 1 .. 2 * Len(Paras)
      PROVE  <<k[1 + ((i - 1) % 2)], Paras[(i + 1) \div 2]>> \in {"spec", "snap", "over"} \X ParaSet
  <2>1. 1 + ((i - 1) % 2) \in 1 .. 2 /\ (i + 1) \div 2 \in 1 .. Len(Paras)
    BY <1>1, SMT
  <2>2. Paras[(i + 1) \div 2] \in ParaSet
    BY <2>1, <1>1 DEF ParaSet
  <2> QED BY <2>1, <2>2
<1>3. 2 * Len(Paras) \in Nat
  BY <1>1
<1> QED BY <1>2, <1>3 DEF PerPara

\* The lists a bite and a teardown go through are of files, the teardown's
\* begins with the relay chain's, and nothing after them is of the relay chain.
LEMMA ListsTyped ==
  /\ BiteFiles \in Seq(File) /\ Len(BiteFiles) \in Nat \ {0}
  /\ TeardownFiles \in Seq(File) /\ Len(TeardownFiles) >= 3
  /\ TeardownFiles[1] = <<"alice", RC>>
  /\ TeardownFiles[2] = <<"bob", RC>>
  /\ TeardownFiles[3] = <<"spec", RC>>
  /\ \A i \in DOMAIN TeardownFiles : i > 3 => TeardownFiles[i][2] # RC
<1>1. Len(Paras) \in Nat /\ DOMAIN Paras = 1 .. Len(Paras)
  BY ChainsAssumption
<1>2. [i \in 1 .. Len(Paras) |-> <<"over", Paras[i]>>] \in Seq(File)
  <2>1. ASSUME NEW i \in 1 .. Len(Paras) PROVE <<"over", Paras[i]>> \in File
    BY <1>1, FileFacts DEF ParaSet
  <2> QED BY <2>1, <1>1
<1>3. {"spec", "snap", "over"} \X ParaSet \subseteq File
  BY FileFacts DEF File
<1>4. PerPara(<<"spec", "snap">>) \in Seq(File)
  <2>1. <<"spec", "snap">> \in [1 .. 2 -> {"spec", "snap", "over"}]
    OBVIOUS
  <2> QED BY <2>1, PerParaTyped, <1>3
<1>5. PerPara(<<"snap", "spec">>) \in Seq({"spec", "snap", "over"} \X ParaSet)
  <2>1. <<"snap", "spec">> \in [1 .. 2 -> {"spec", "snap", "over"}]
    OBVIOUS
  <2> QED BY <2>1, PerParaTyped
<1>6. <<<<"over", RC>>, <<"spec", RC>>, <<"snap", RC>>>> \in Seq(File)
  BY FileFacts
<1>7. <<<<"alice", RC>>, <<"bob", RC>>, <<"spec", RC>>>> \in Seq(File)
  BY FileFacts
<1>8. BiteFiles \in Seq(File) /\ Len(BiteFiles) \in Nat \ {0}
  BY <1>2, <1>4, <1>6 DEF BiteFiles
<1>9. TeardownFiles \in Seq(File)
  BY <1>5, <1>3, <1>7 DEF TeardownFiles
<1>10. /\ Len(TeardownFiles) >= 3
       /\ TeardownFiles[1] = <<"alice", RC>>
       /\ TeardownFiles[2] = <<"bob", RC>>
       /\ TeardownFiles[3] = <<"spec", RC>>
  BY <1>5, <1>7 DEF TeardownFiles
<1>11. ASSUME NEW i \in DOMAIN TeardownFiles, i > 3
       PROVE  TeardownFiles[i][2] # RC
  <2> DEFINE p == PerPara(<<"snap", "spec">>)
  <2>1. i - 3 \in 1 .. Len(p) /\ TeardownFiles[i] = p[i - 3]
    BY <1>5, <1>7, <1>11 DEF TeardownFiles
  <2>2. p[i - 3] \in {"spec", "snap", "over"} \X ParaSet
    BY <2>1, <1>5
  <2> QED BY <2>1, <2>2, ChainsAssumption
<1> QED BY <1>8, <1>9, <1>10, <1>11

\* What a clean-up keeps are files, and of a run's step just the two.
LEMMA NeededTyped ==
  /\ Needed \in Seq(File) /\ Len(Needed) \in Nat \ {0}
  /\ step # "bite" => Needed = <<<<"spec", RC>>, <<"alice", RC>>>>
<1>1. Len(Paras) \in Nat /\ DOMAIN Paras = 1 .. Len(Paras)
  BY ChainsAssumption
<1>2. ASSUME NEW i \in 1 .. 3 * Len(Paras)
      PROVE  <<<<"spec", "snap", "over">>[1 + ((i - 1) % 3)], Paras[(i + 2) \div 3]>> \in File
  <2>1. 1 + ((i - 1) % 3) \in {1, 2, 3} /\ (i + 2) \div 3 \in 1 .. Len(Paras)
    BY <1>1, SMT
  <2>2. Paras[(i + 2) \div 3] \in Chains
    BY <2>1, <1>1, FileFacts DEF ParaSet
  <2>3. <<"spec", "snap", "over">>[1 + ((i - 1) % 3)] \in {"spec", "snap", "over"}
    BY <2>1
  <2> QED BY <2>2, <2>3, FileFacts
<1>3. [i \in 1 .. 3 * Len(Paras) |->
         <<<<"spec", "snap", "over">>[1 + ((i - 1) % 3)], Paras[(i + 2) \div 3]>>] \in Seq(File)
  <2>1. 3 * Len(Paras) \in Nat
    BY <1>1
  <2> QED BY <1>2, <2>1
<1>4. /\ <<<<"spec", RC>>, <<"over", RC>>>> \in Seq(File)
      /\ <<<<"snap", RC>>>> \in Seq(File)
      /\ <<<<"spec", RC>>, <<"over", RC>>, <<"snap", RC>>>> \in Seq(File)
      /\ <<<<"spec", RC>>, <<"alice", RC>>>> \in Seq(File)
  BY FileFacts
<1> QED BY <1>3, <1>4 DEF Needed

-----------------------------------------------------------------------------
(* Directories.                                                            *)

\* A directory stays one when a file, a config or the bootnodes are replaced.
LEMMA DirTyped ==
  /\ EmptyDir \in Dir /\ EmptyDir # NoDir
  /\ \A d \in Dir : /\ d # NoDir
                    /\ d.file \in [File -> Value]
                    /\ d.boots \in [Chains -> {0} \cup Run]
                    /\ d.config \in Config /\ d.original \in Config
<1>1. NoConfig \in Config
  BY DEF NoConfig, Config
<1>2. EmptyDir \in Dir
  BY <1>1 DEF EmptyDir, Dir
<1> QED BY <1>2, ChainsAssumption DEF Dir, Value

\* One file of one directory is replaced.
LEMMA SetFileTyped ==
  ASSUME live \in [Step -> DirOrNone],
         NEW s \in Step, live[s] # NoDir, NEW f \in File, NEW r \in Value
  PROVE  /\ SetFile(s, f, r) \in [Step -> DirOrNone]
         /\ SetFile(s, f, r)[s] \in Dir
         /\ SetFile(s, f, r)[s].file = [live[s].file EXCEPT ![f] = r]
         /\ SetFile(s, f, r)[s].boots = live[s].boots
         /\ SetFile(s, f, r)[s].config = live[s].config
         /\ SetFile(s, f, r)[s].original = live[s].original
<1>1. live[s] \in Dir
  BY DEF DirOrNone
<1>2. [live[s] EXCEPT !.file[f] = r] \in Dir
  BY <1>1 DEF Dir, Value
<1> QED BY <1>1, <1>2, DirTyped DEF SetFile, DirOrNone, Dir

\* The config of one directory is replaced.
LEMMA SetConfigTyped ==
  ASSUME live \in [Step -> DirOrNone],
         NEW s \in Step, live[s] # NoDir, NEW c \in Config
  PROVE  /\ SetConfig(s, c) \in [Step -> DirOrNone]
         /\ SetConfig(s, c)[s] \in Dir
         /\ SetConfig(s, c)[s].file = live[s].file
         /\ SetConfig(s, c)[s].boots = live[s].boots
         /\ SetConfig(s, c)[s].config = c
         /\ SetConfig(s, c)[s].original = live[s].original
<1>1. live[s] \in Dir
  BY DEF DirOrNone
<1>2. [live[s] EXCEPT !.config = c] \in Dir
  BY <1>1 DEF Dir
<1> QED BY <1>1, <1>2 DEF SetConfig, DirOrNone, Dir

\* Neither touches another directory.
LEMMA SetOthers ==
  ASSUME live \in [Step -> DirOrNone], NEW s \in Step
  PROVE  /\ \A f, r : \A t \in Step \ {s} : SetFile(s, f, r)[t] = live[t]
         /\ \A c : \A t \in Step \ {s} : SetConfig(s, c)[t] = live[t]
<1>1. ASSUME NEW v, NEW t \in Step \ {s} PROVE [live EXCEPT ![s] = v][t] = live[t]
  OBVIOUS
<1> QED BY <1>1, Zenon DEF SetFile, SetConfig

\* A step is not the one it is spawned from.
LEMMA FromFacts ==
  \A s \in Step : DirFrom(s) \in Step /\ (s # "bite" => DirFrom(s) # s)
BY DEF Step, DirFrom

-----------------------------------------------------------------------------
(* The initial states.                                                     *)

LEMMA InitInv == Init => IInv
<1> SUFFICES ASSUME Init PROVE IInv
  OBVIOUS
<1>1. NoConfig \in Config
  BY DEF NoConfig, Config
<1>2. DirsOK /\ CommandOK
  BY <1>1 DEF Init, DirsOK, CommandOK, DirOrNone, Step
<1>3. FlagsOK
  BY Zenon DEF Init, FlagsOK
<1>4. PlaceInv /\ CommandInv /\ DirInv /\ ArtifactInv
  BY DEF Init, PlaceInv, CommandInv, DirInv, ArtifactInv, Idle, CleanPcs
<1>5. ConfigInv
  BY DEF Init, ConfigInv, NamesSpec, NoConfig
<1> QED BY <1>2, <1>3, <1>4, <1>5 DEF IInv, TypeOK

-----------------------------------------------------------------------------
(* Commands and the bite.                                                  *)

\* A command begins: its number, flags and place.
LEMMA StartFacts ==
  ASSUME IInv, NEW c \in {"bite", "spawn", "generate", "cleanup"}, NEW s \in Step,
         NEW p \in {"biteFiles", "resolve", "genConfigRead", "removeDebug"}, Start(c, s, p)
  PROVE  /\ pc' = p /\ cmd' = c /\ step' = s /\ at' = 1
         /\ run' \in Run
         /\ FlagsOK'
<1>1. run' \in Run
  BY StepBoundsAssumption DEF IInv, TypeOK, CommandOK, Start, Run
<1>2. publish' \in BOOLEAN /\ signalled' \in BOOLEAN /\ stop' = stop
  BY Zenon DEF Start
<1>3. FlagsOK'
  BY <1>2, Zenon DEF IInv, TypeOK, FlagsOK
<1> QED BY <1>1, <1>3 DEF IInv, TypeOK, CommandOK, Start, Goto

LEMMA StartBiteInv == IInv /\ StartBite => IInv'
<1> SUFFICES ASSUME IInv, StartBite PROVE IInv'
  OBVIOUS
<1>1. Start("bite", "bite", "biteFiles")
  BY DEF StartBite
<1>2. /\ pc' = "biteFiles" /\ cmd' = "bite" /\ step' = "bite" /\ at' = 1
      /\ run' \in Run /\ acked' = acked /\ announced' = 0
      /\ FlagsOK'
  <2>1. acked' = acked /\ announced' = 0
    BY DEF StartBite
  <2> QED BY <1>1, <2>1, StartFacts DEF Step
<1>3. DirsOK' /\ live'["bite"] # NoDir
  BY DirTyped DEF IInv, TypeOK, DirsOK, StartBite, Ensured, DirOrNone, Step
<1>4. CommandOK'
  BY <1>2 DEF IInv, TypeOK, CommandOK, StartBite, Step
<1>5. PlaceInv'
  <2>1. BiteFiles' = BiteFiles
    BY DEF BiteFiles, PerPara
  <2>2. 1 \in DOMAIN BiteFiles
    BY ListsTyped
  <2> QED BY <1>2, <2>1, <2>2 DEF PlaceInv
<1>6. CommandInv' /\ DirInv'
  BY <1>2, <1>3 DEF CommandInv, DirInv, CleanPcs, Idle
<1>7. ConfigInv'
  BY <1>2 DEF IInv, TypeOK, DirsOK, ConfigInv, StartBite, Ensured, EmptyDir, NoConfig, NamesSpec, Step
<1>8. ArtifactInv'
  BY <1>2 DEF ArtifactInv
<1> QED BY <1>2, <1>3, <1>4, <1>5, <1>6, <1>7, <1>8 DEF IInv, TypeOK

\* The flags of a command change at its start and at the teardown only.
LEMMA FlagsKept ==
  ASSUME IInv, UNCHANGED <<stop, args, signalled>>
  PROVE  FlagsOK'
BY Zenon DEF IInv, TypeOK, FlagsOK, args

LEMMA BiteFileInv == IInv /\ BiteFile => IInv'
<1> SUFFICES ASSUME IInv, BiteFile PROVE IInv'
  OBVIOUS
<1>1. /\ pc = "biteFiles" /\ cmd = "bite" /\ step = "bite" /\ run \in Run
      /\ live["bite"] # NoDir /\ "bite" \in Step
      /\ BiteFiles[at] \in File
  BY ListsTyped DEF IInv, TypeOK, CommandOK, CommandInv, DirInv, PlaceInv, BiteFile, Idle
<1>2. UNCHANGED <<debug, moved, ready, stop, args, config, signalled, acked, announced>>
  BY DEF BiteFile
<1>3. FlagsOK'
  BY <1>2, FlagsKept
<1>4. live' = SetFile("bite", BiteFiles[at], run)
  BY DEF BiteFile
<1>5. /\ live' \in [Step -> DirOrNone] /\ live'["bite"] # NoDir
      /\ live'["bite"].config = live["bite"].config
      /\ \A t \in Step \ {"bite"} : live'[t] = live[t]
  <2>1. run \in Value /\ live \in [Step -> DirOrNone]
    BY <1>1 DEF IInv, TypeOK, DirsOK, Value
  <2>2. /\ SetFile("bite", BiteFiles[at], run) \in [Step -> DirOrNone]
        /\ SetFile("bite", BiteFiles[at], run)["bite"] \in Dir
        /\ SetFile("bite", BiteFiles[at], run)["bite"].config = live["bite"].config
    BY <1>1, <2>1, SetFileTyped
  <2>3. \A t \in Step \ {"bite"} : SetFile("bite", BiteFiles[at], run)[t] = live[t]
    BY <1>1, <2>1, SetOthers
  <2> QED BY <1>4, <2>2, <2>3, DirTyped
<1>6. \/ pc' = "biteFiles" /\ at' = at + 1 /\ at < Len(BiteFiles)
      \/ pc' = "biteConfig" /\ at' = 1
  BY <1>1 DEF BiteFile, Goto
<1>7. DirsOK' /\ CommandOK'
  BY <1>2, <1>5, <1>6 DEF IInv, TypeOK, DirsOK, CommandOK, args
<1>8. PlaceInv'
  <2>1. BiteFiles' = BiteFiles
    BY DEF BiteFiles, PerPara
  <2>2. at \in Nat \ {0}
    BY DEF IInv, TypeOK, CommandOK
  <2>3. pc' = "biteFiles" => at' \in DOMAIN BiteFiles
    BY <1>6, <2>2, ListsTyped
  <2> QED BY <1>6, <2>1, <2>3 DEF PlaceInv
<1>9. CommandInv' /\ DirInv' /\ ArtifactInv'
  BY <1>1, <1>2, <1>5, <1>6 DEF CommandInv, DirInv, ArtifactInv, CleanPcs, Idle, args
<1>10. ConfigInv'
  BY <1>1, <1>2, <1>5, <1>6 DEF IInv, ConfigInv, NamesSpec
<1> QED BY <1>3, <1>7, <1>8, <1>9, <1>10 DEF IInv, TypeOK

LEMMA BiteConfigInv == IInv /\ BiteConfig => IInv'
<1> SUFFICES ASSUME IInv, BiteConfig PROVE IInv'
  OBVIOUS
<1>1. /\ pc = "biteConfig" /\ cmd = "bite" /\ step = "bite" /\ run \in Run
      /\ live["bite"] # NoDir /\ "bite" \in Step
  BY DEF IInv, TypeOK, CommandOK, CommandInv, DirInv, BiteConfig, Idle
<1>2. UNCHANGED <<debug, moved, ready, stop, args, config, signalled, acked, announced>>
  BY DEF BiteConfig
<1>3. FlagsOK'
  BY <1>2, FlagsKept
<1>4. Full(BiteRefs) \in Config /\ NamesSpec(Full(BiteRefs))
  BY RefsFacts DEF Full, Config, NamesSpec
<1>5. /\ live' \in [Step -> DirOrNone]
      /\ live'["bite"].config = Full(BiteRefs)
      /\ \A t \in Step \ {"bite"} : live'[t] = live[t]
  BY <1>1, <1>4, SetConfigTyped, SetOthers DEF IInv, TypeOK, DirsOK, BiteConfig
<1>6. pc' = "biteReady" /\ at' = 1
  BY DEF BiteConfig, Goto
<1>7. DirsOK' /\ CommandOK'
  BY <1>2, <1>5, <1>6 DEF IInv, TypeOK, DirsOK, CommandOK, args
<1>8. PlaceInv' /\ CommandInv' /\ DirInv' /\ ArtifactInv'
  BY <1>1, <1>2, <1>6 DEF PlaceInv, CommandInv, DirInv, ArtifactInv, CleanPcs, Idle, args
<1>9. ConfigInv'
  BY <1>1, <1>2, <1>4, <1>5, <1>6 DEF IInv, ConfigInv
<1> QED BY <1>3, <1>7, <1>8, <1>9 DEF IInv, TypeOK

LEMMA BiteReadyInv == IInv /\ BiteReady => IInv'
<1> SUFFICES ASSUME IInv, BiteReady PROVE IInv'
  OBVIOUS
<1>1. pc = "biteReady" /\ cmd = "bite" /\ step = "bite" /\ run \in Run
  BY DEF IInv, CommandInv, BiteReady, Idle
<1>2. /\ ready' \in {run, Torn} /\ announced' \in {run, 0} /\ pc' = "removeDebug" /\ at' = 1
      /\ UNCHANGED <<live, debug, moved, stop, args, config, signalled, acked>>
  BY DEF BiteReady, Goto
<1>3. FlagsOK'
  BY <1>2, FlagsKept
<1>4. DirsOK' /\ CommandOK'
  BY <1>1, <1>2 DEF IInv, TypeOK, DirsOK, CommandOK, args
<1>5. PlaceInv' /\ CommandInv' /\ DirInv' /\ ArtifactInv'
  BY <1>1, <1>2 DEF PlaceInv, CommandInv, DirInv, ArtifactInv, CleanPcs, Idle, args
<1>6. ConfigInv'
  BY <1>2 DEF IInv, ConfigInv
<1> QED BY <1>3, <1>4, <1>5, <1>6 DEF IInv, TypeOK

\* The helper commands and a spawn begin.
LEMMA StartOtherInv == IInv /\ (StartGenerate \/ StartCleanUp \/ StartSpawn) => IInv'
<1> SUFFICES ASSUME IInv, StartGenerate \/ StartCleanUp \/ StartSpawn PROVE IInv'
  OBVIOUS
<1>1. PICK c \in {"generate", "cleanup", "spawn"}, s \in Step,
           p \in {"resolve", "genConfigRead", "removeDebug"} :
        /\ Start(c, s, p)
        /\ \/ c = "generate" /\ p = "genConfigRead" /\ s # "bite"
           \/ c = "cleanup" /\ p = "removeDebug"
           \/ c = "spawn" /\ p = "resolve" /\ s # "bite" /\ live[DirFrom(s)] # NoDir
  BY DEF StartGenerate, StartCleanUp, StartSpawn, Step
<1>2. /\ UNCHANGED <<dirs, config, bites>>
      /\ acked' \in SUBSET acked /\ announced' \in {0, announced}
  BY DEF StartGenerate, StartCleanUp, StartSpawn, StillKept
<1>3. /\ pc' = p /\ cmd' = c /\ step' = s /\ at' = 1
      /\ run' \in Run
      /\ FlagsOK'
  BY <1>1, StartFacts
<1>4. DirsOK' /\ CommandOK'
  BY <1>2, <1>3 DEF IInv, TypeOK, DirsOK, CommandOK, dirs
<1>5. PlaceInv' /\ CommandInv' /\ DirInv' /\ ArtifactInv'
  BY <1>1, <1>2, <1>3 DEF PlaceInv, CommandInv, DirInv, ArtifactInv, CleanPcs, Idle, dirs, DirFrom
<1>6. ConfigInv'
  BY <1>1, <1>2, <1>3 DEF IInv, ConfigInv, dirs
<1> QED BY <1>3, <1>4, <1>5, <1>6 DEF IInv, TypeOK

-----------------------------------------------------------------------------
(* A command ends: nothing is asked of its places any more.                *)

LEMMA EndInv ==
  ASSUME IInv, pc' \in {"idle", "panicked"}, at' \in Nat \ {0},
         live' \in [Step -> DirOrNone],
         \A s \in Step : live'[s] # NoDir => NamesSpec(live'[s].config),
         acked' \in SUBSET acked,
         UNCHANGED <<debug, moved, ready, stop, args, config, signalled, announced>>
  PROVE  IInv'
<1>1. FlagsOK'
  BY FlagsKept
<1>2. DirsOK' /\ CommandOK'
  BY DEF IInv, TypeOK, DirsOK, CommandOK, args
<1>3. PlaceInv' /\ CommandInv' /\ DirInv' /\ ArtifactInv'
  BY DEF PlaceInv, CommandInv, DirInv, ArtifactInv, CleanPcs, Idle
<1>4. ConfigInv'
  BY DEF IInv, ConfigInv
<1> QED BY <1>1, <1>2, <1>3, <1>4 DEF IInv, TypeOK

LEMMA PanicInv == IInv /\ Panic => IInv'
<1> SUFFICES ASSUME IInv, Panic PROVE IInv'
  OBVIOUS
<1>1. /\ pc' = "panicked" /\ at' = at /\ live' = live
      /\ UNCHANGED <<debug, moved, ready, stop, args, config, signalled, acked, announced>>
  BY DEF Panic, dirs
<1>2. /\ at \in Nat \ {0} /\ live \in [Step -> DirOrNone]
      /\ \A s \in Step : live[s] # NoDir => NamesSpec(live[s].config)
  BY DEF IInv, TypeOK, CommandOK, DirsOK, ConfigInv
<1> QED BY <1>1, <1>2, EndInv

\* A torn file or config leaves the other directories, and the configs, right.
LEMMA TornInv ==
  ASSUME IInv, ~Idle, TornWrite
  PROVE  /\ live' \in [Step -> DirOrNone]
         /\ \A s \in Step : live'[s] # NoDir => NamesSpec(live'[s].config)
<1>1. live \in [Step -> DirOrNone] /\ step \in Step /\ Torn \in Value
  BY DEF IInv, TypeOK, DirsOK, CommandOK, Value
<1>2. \A c \in TornConfigs : c \in Config /\ NamesSpec(c)
  BY FileFacts DEF TornConfigs, Config, NamesSpec
<1>3. \A s \in Step : live[s] # NoDir => NamesSpec(live[s].config)
  BY DEF IInv, ConfigInv
<1>4. ASSUME NEW s \in Step, live[s] # NoDir, NEW f \in File, live' = SetFile(s, f, Torn)
      PROVE  /\ live' \in [Step -> DirOrNone]
             /\ \A t \in Step : live'[t] # NoDir => NamesSpec(live'[t].config)
  <2>1. /\ SetFile(s, f, Torn) \in [Step -> DirOrNone]
        /\ SetFile(s, f, Torn)[s].config = live[s].config
    BY <1>1, <1>4, SetFileTyped
  <2>2. \A t \in Step \ {s} : SetFile(s, f, Torn)[t] = live[t]
    BY <1>1, <1>4, SetOthers
  <2> QED BY <1>3, <1>4, <2>1, <2>2
<1>5. ASSUME NEW s \in Step, live[s] # NoDir, NEW c \in TornConfigs, live' = SetConfig(s, c)
      PROVE  /\ live' \in [Step -> DirOrNone]
             /\ \A t \in Step : live'[t] # NoDir => NamesSpec(live'[t].config)
  <2>1. /\ SetConfig(s, c) \in [Step -> DirOrNone]
        /\ SetConfig(s, c)[s].config = c
    BY <1>1, <1>2, <1>5, SetConfigTyped
  <2>2. \A t \in Step \ {s} : SetConfig(s, c)[t] = live[t]
    BY <1>1, <1>2, <1>5, SetOthers
  <2> QED BY <1>2, <1>3, <1>5, <2>1, <2>2
<1>6. CASE pc = "biteFiles" /\ live' = SetFile("bite", BiteFiles[at], Torn)
  <2>1. BiteFiles[at] \in File /\ live["bite"] # NoDir /\ "bite" \in Step
    BY <1>6, ListsTyped DEF IInv, PlaceInv, CommandInv, DirInv, Step
  <2> QED BY <1>4, <1>6, <2>1
<1>7. CASE pc = "genFiles" /\ live' = SetFile(step, TeardownFiles[at], Torn)
  <2>1. TeardownFiles[at] \in File /\ live[step] # NoDir
    BY <1>7, ListsTyped DEF IInv, PlaceInv, DirInv
  <2> QED BY <1>1, <1>4, <1>7, <2>1
<1>8. CASE pc = "biteConfig" /\ \E c \in TornConfigs : live' = SetConfig("bite", c)
  <2>1. live["bite"] # NoDir /\ "bite" \in Step
    BY <1>8 DEF IInv, CommandInv, DirInv, Step
  <2> QED BY <1>5, <1>8, <2>1
<1>9. CASE pc = "genConfig" /\ \E c \in TornConfigs : live' = SetConfig(step, c)
  <2>1. live[step] # NoDir
    BY <1>9 DEF IInv, DirInv
  <2> QED BY <1>1, <1>5, <1>9, <2>1
<1>10. CASE pc = "repoint" /\ \E c \in TornConfigs : live' = SetConfig(DirFrom(step), c)
  <2>1. live[DirFrom(step)] # NoDir /\ DirFrom(step) \in Step
    BY <1>1, <1>10, FromFacts DEF IInv, DirInv
  <2> QED BY <1>5, <1>10, <2>1
<1>11. CASE pc = "publish" /\ live' = SetFile(PublishedIn(step), <<"spec", RC>>, Torn)
  <2>1. live[step] # NoDir /\ <<"spec", RC>> \in File
    BY <1>11, FileFacts DEF IInv, DirInv
  <2> QED BY <1>1, <1>4, <1>11, <2>1 DEF PublishedIn
<1> QED BY <1>6, <1>7, <1>8, <1>9, <1>10, <1>11 DEF TornWrite

LEMMA DieInv == IInv /\ Die => IInv'
<1> SUFFICES ASSUME IInv, Die PROVE IInv'
  OBVIOUS
<1>1. /\ ~Idle /\ pc' = "idle" /\ at' = at /\ acked' \in SUBSET acked
      /\ UNCHANGED <<debug, moved, ready, stop, args, config, signalled, announced>>
      /\ live' = live \/ TornWrite
  BY DEF Die, StillKept
<1>2. /\ at \in Nat \ {0} /\ live \in [Step -> DirOrNone]
      /\ \A s \in Step : live[s] # NoDir => NamesSpec(live[s].config)
  BY DEF IInv, TypeOK, CommandOK, DirsOK, ConfigInv
<1>3. /\ live' \in [Step -> DirOrNone]
      /\ \A s \in Step : live'[s] # NoDir => NamesSpec(live'[s].config)
  <2>1. CASE live' = live
    BY <1>2, <2>1
  <2>2. CASE TornWrite
    BY <1>1, <2>2, TornInv
  <2> QED BY <1>1, <2>1, <2>2
<1> QED BY <1>1, <1>2, <1>3, EndInv

-----------------------------------------------------------------------------
(* A spawn, up to the running network.                                     *)

LEMMA ResolveInv == IInv /\ Resolve => IInv'
<1> SUFFICES ASSUME IInv, Resolve PROVE IInv'
  OBVIOUS
<1>1. /\ pc = "resolve" /\ cmd = "spawn" /\ step # "bite" /\ step \in Step /\ run \in Run
      /\ DirFrom(step) \in Step /\ DirFrom(step) # step
  BY FromFacts DEF IInv, TypeOK, CommandOK, CommandInv, Resolve, Idle
<1>2. /\ pc' = "localize" /\ at' = 1
      /\ UNCHANGED <<debug, ready, stop, args, config, signalled, acked, announced>>
  BY DEF Resolve, Goto
<1>3. FlagsOK'
  BY <1>2, FlagsKept
<1>4. CommandOK'
  BY <1>2 DEF IInv, TypeOK, CommandOK, args
<1>5. DirsOK' /\ \A t \in Step \ {step} : live'[t] = live[t]
  <2>1. CASE live[step] = NoDir
    BY <1>2, <2>1 DEF Resolve, IInv, TypeOK, DirsOK
  <2>2. CASE live[step] # NoDir
    <3>1. MoveAside /\ live[step] \in Dir /\ moved[step] \in Seq(Dir)
      BY <1>1, <2>2 DEF Resolve, IInv, TypeOK, DirsOK, DirOrNone
    <3>2. Append(moved[step], live[step]) \in Seq(Dir)
      BY <3>1
    <3> QED BY <1>1, <1>2, <3>1, <3>2 DEF MoveAside, IInv, TypeOK, DirsOK, DirOrNone
  <2> QED BY <2>1, <2>2
<1>6. live[DirFrom(step)] # NoDir /\ live'[DirFrom(step)] = live[DirFrom(step)]
  BY <1>1, <1>5 DEF IInv, DirInv
<1>7. PlaceInv' /\ CommandInv' /\ DirInv' /\ ArtifactInv'
  BY <1>1, <1>2, <1>6 DEF PlaceInv, CommandInv, DirInv, ArtifactInv, CleanPcs, Idle, args
<1>8. ConfigInv'
  <2>1. live'[step] = NoDir
    BY <1>1 DEF Resolve, MoveAside, IInv, TypeOK, DirsOK
  <2> QED BY <1>2, <1>5, <2>1 DEF IInv, ConfigInv
<1> QED BY <1>3, <1>4, <1>5, <1>7, <1>8 DEF IInv, TypeOK

LEMMA LocalizeInv == IInv /\ Localize => IInv'
<1> SUFFICES ASSUME IInv, Localize PROVE IInv'
  OBVIOUS
<1> DEFINE from == DirFrom(step)
<1>1. /\ pc = "localize" /\ cmd = "spawn" /\ step # "bite" /\ step \in Step /\ run \in Run
      /\ from \in Step /\ from # step /\ live[from] # NoDir
      /\ live \in [Step -> DirOrNone] /\ live[from] \in Dir
  BY FromFacts DEF IInv, TypeOK, DirsOK, CommandOK, CommandInv, DirInv, DirOrNone, Localize, Idle
<1>2. CASE live[from].config.state = "none"
  BY <1>2, PanicInv DEF Localize
<1>3. CASE live[from].config.state # "none"
  <2>1. /\ config' = live[from].config
        /\ pc' \in {"load", "repoint"} /\ at' = 1
        /\ UNCHANGED <<debug, moved, ready, stop, args, signalled, acked, announced>>
        /\ live' = live \/ live' = [live EXCEPT ![from] = KeepOriginal(@)]
    BY <1>3 DEF Localize, Goto
  <2>2. FlagsOK'
    BY <2>1, FlagsKept
  <2>3. config' \in Config /\ NamesSpec(config')
    BY <1>1, <2>1, DirTyped DEF IInv, ConfigInv
  <2>4. CommandOK'
    BY <2>1, <2>3 DEF IInv, TypeOK, CommandOK, args
  <2>5. KeepOriginal(live[from]) \in Dir /\ NamesSpec(KeepOriginal(live[from]).config)
    <3>1. NoConfig \in Config /\ NamesSpec(NoConfig)
      BY DEF NoConfig, Config, NamesSpec
    <3> QED BY <1>1, <3>1 DEF KeepOriginal, Dir
  <2>6. /\ DirsOK' /\ live'[from] # NoDir
        /\ NamesSpec(live'[from].config)
        /\ \A t \in Step \ {from} : live'[t] = live[t]
    <3>1. CASE live' = live
      BY <1>1, <2>1, <3>1 DEF IInv, TypeOK, DirsOK, ConfigInv
    <3>2. CASE live' = [live EXCEPT ![from] = KeepOriginal(@)]
      BY <1>1, <2>1, <2>5, <3>2, DirTyped DEF IInv, TypeOK, DirsOK, DirOrNone
    <3> QED BY <2>1, <3>1, <3>2
  <2>7. PlaceInv' /\ CommandInv' /\ DirInv' /\ ArtifactInv'
    BY <1>1, <2>1, <2>6 DEF PlaceInv, CommandInv, DirInv, ArtifactInv, CleanPcs, Idle, args
  <2>8. ConfigInv'
    BY <2>1, <2>3, <2>6 DEF IInv, ConfigInv
  <2> QED BY <2>2, <2>4, <2>6, <2>7, <2>8 DEF IInv, TypeOK
<1> QED BY <1>2, <1>3

LEMMA RepointInv == IInv /\ Repoint => IInv'
<1> SUFFICES ASSUME IInv, Repoint PROVE IInv'
  OBVIOUS
<1> DEFINE from == DirFrom(step)
<1>1. /\ pc = "repoint" /\ cmd = "spawn" /\ step # "bite" /\ step \in Step /\ run \in Run
      /\ from \in Step /\ from # step /\ live[from] # NoDir
      /\ live \in [Step -> DirOrNone] /\ config \in Config /\ NamesSpec(config)
  BY FromFacts
  DEF IInv, TypeOK, DirsOK, CommandOK, CommandInv, DirInv, ConfigInv, Repoint, Idle
<1>2. /\ pc' = "load" /\ at' = 1
      /\ UNCHANGED <<debug, moved, ready, stop, args, config, signalled, acked, announced>>
      /\ live' = SetConfig(from, config)
  BY DEF Repoint, Goto
<1>3. FlagsOK'
  BY <1>2, FlagsKept
<1>4. /\ live' \in [Step -> DirOrNone] /\ live'[from] # NoDir
      /\ live'[from].config = config
      /\ \A t \in Step \ {from} : live'[t] = live[t]
  <2>1. /\ SetConfig(from, config) \in [Step -> DirOrNone]
        /\ SetConfig(from, config)[from] \in Dir
        /\ SetConfig(from, config)[from].config = config
    BY <1>1, SetConfigTyped
  <2>2. \A t \in Step \ {from} : SetConfig(from, config)[t] = live[t]
    BY <1>1, SetOthers
  <2> QED BY <1>2, <2>1, <2>2, DirTyped
<1>5. DirsOK' /\ CommandOK'
  BY <1>2, <1>4 DEF IInv, TypeOK, DirsOK, CommandOK, args
<1>6. PlaceInv' /\ CommandInv' /\ DirInv' /\ ArtifactInv'
  BY <1>1, <1>2, <1>4 DEF PlaceInv, CommandInv, DirInv, ArtifactInv, CleanPcs, Idle, args
<1>7. ConfigInv'
  BY <1>1, <1>2, <1>4 DEF IInv, ConfigInv
<1> QED BY <1>3, <1>5, <1>6, <1>7 DEF IInv, TypeOK

LEMMA LoadInv == IInv /\ Load => IInv'
<1> SUFFICES ASSUME IInv, Load PROVE IInv'
  OBVIOUS
<1> DEFINE from == DirFrom(step)
<1>1. /\ pc = "load" /\ cmd = "spawn" /\ step # "bite" /\ step \in Step /\ run \in Run
      /\ from \in Step /\ from # step /\ live[from] # NoDir
      /\ live \in [Step -> DirOrNone] /\ <<"data", RC>> \in File
  BY FromFacts, FileFacts
  DEF IInv, TypeOK, DirsOK, CommandOK, CommandInv, DirInv, Load, Idle
<1>2. CASE ~Loads(live[from])
  BY <1>2, PanicInv DEF Load
<1>3. CASE Loads(live[from])
  <2> DEFINE d == Ensured(live[step])
  <2>1. /\ pc' = "startup" /\ at' = 1
        /\ UNCHANGED <<debug, moved, ready, stop, args, config, signalled, acked, announced>>
        /\ live' = [live EXCEPT ![step] = [Ensured(@) EXCEPT !.file[<<"data", RC>>] = run]]
    BY <1>3 DEF Load, Goto
  <2>2. FlagsOK'
    BY <2>1, FlagsKept
  <2>3. d \in Dir /\ NamesSpec(d.config)
    BY <1>1, DirTyped DEF IInv, ConfigInv, Ensured, EmptyDir, NoConfig, NamesSpec, DirOrNone
  <2>4. /\ [d EXCEPT !.file[<<"data", RC>>] = run] \in Dir
        /\ [d EXCEPT !.file[<<"data", RC>>] = run].file[<<"data", RC>>] = run
        /\ [d EXCEPT !.file[<<"data", RC>>] = run].config = d.config
    BY <1>1, <2>3 DEF Dir
  <2>5. live'[step] = [d EXCEPT !.file[<<"data", RC>>] = run]
    BY <1>1, <2>1
  <2>6. live' \in [Step -> DirOrNone] /\ \A t \in Step \ {step} : live'[t] = live[t]
    BY <1>1, <2>1, <2>4 DEF DirOrNone
  <2>7. DirsOK' /\ CommandOK'
    BY <2>1, <2>6 DEF IInv, TypeOK, DirsOK, CommandOK, args
  <2>8. live[from].config.state = "full" /\ \A f \in SpecFiles : live[from].file[f] \in Run
    BY <1>1, <1>3 DEF Loads, IInv, ConfigInv, NamesSpec
  <2>9. live'[step] # NoDir
    BY <2>4, <2>5, DirTyped
  <2>10. PlaceInv' /\ CommandInv' /\ DirInv'
    BY <1>1, <2>1 DEF PlaceInv, CommandInv, DirInv, CleanPcs, Idle, args
  <2>11. ArtifactInv'
    BY <1>1, <2>1, <2>4, <2>5, <2>6, <2>8, <2>9 DEF ArtifactInv, args
  <2>12. ConfigInv'
    BY <1>1, <2>1, <2>3, <2>4, <2>5, <2>6 DEF IInv, ConfigInv
  <2> QED BY <2>2, <2>7, <2>10, <2>11, <2>12 DEF IInv, TypeOK
<1> QED BY <1>2, <1>3

LEMMA StartupInv == IInv /\ Startup => IInv'
<1> SUFFICES ASSUME IInv, Startup PROVE IInv'
  OBVIOUS
<1>1. /\ pc = "startup" /\ pc' = "loop" /\ at' = 1
      /\ UNCHANGED <<live, debug, moved, ready, stop, args, config, signalled, acked, announced>>
  BY DEF Startup, Goto, dirs
<1>2. FlagsOK'
  BY <1>1, FlagsKept
<1>3. DirsOK' /\ CommandOK'
  BY <1>1 DEF IInv, TypeOK, DirsOK, CommandOK, args
<1>4. PlaceInv' /\ CommandInv' /\ DirInv' /\ ArtifactInv'
  BY <1>1 DEF IInv, PlaceInv, CommandInv, DirInv, ArtifactInv, CleanPcs, Idle, args
<1>5. ConfigInv'
  BY <1>1 DEF IInv, ConfigInv
<1> QED BY <1>2, <1>3, <1>4, <1>5 DEF IInv, TypeOK

-----------------------------------------------------------------------------
(* The teardown.                                                           *)

LEMMA LoopEndsInv == IInv /\ LoopEnds => IInv'
<1> SUFFICES ASSUME IInv, LoopEnds PROVE IInv'
  OBVIOUS
<1>1. /\ pc = "loop" /\ pc' = "teardown" /\ at' = 1
      /\ UNCHANGED <<live, debug, moved, ready, stop, args, config, signalled, acked, announced>>
  BY DEF LoopEnds, Goto, dirs
<1>2. FlagsOK'
  BY <1>1, FlagsKept
<1>3. DirsOK' /\ CommandOK'
  BY <1>1 DEF IInv, TypeOK, DirsOK, CommandOK, args
<1>4. PlaceInv' /\ CommandInv' /\ DirInv' /\ ArtifactInv'
  BY <1>1 DEF IInv, PlaceInv, CommandInv, DirInv, ArtifactInv, CleanPcs, Idle, args
<1>5. ConfigInv'
  BY <1>1 DEF IInv, ConfigInv
<1> QED BY <1>2, <1>3, <1>4, <1>5 DEF IInv, TypeOK

LEMMA TeardownInv == IInv /\ Teardown => IInv'
<1> SUFFICES ASSUME IInv, Teardown PROVE IInv'
  OBVIOUS
<1>1. /\ pc = "teardown" /\ at' = 1
      /\ pc' = IF stop THEN "genConfigRead" ELSE "finish"
      /\ UNCHANGED <<live, debug, moved, ready, stop, args, config, acked, announced>>
  BY DEF Teardown, Goto, dirs
<1>2. FlagsOK' /\ signalled' = stop
  BY Zenon DEF IInv, TypeOK, FlagsOK, Teardown, args
<1>3. pc' = "genConfigRead" \/ (pc' = "finish" /\ ~signalled')
  <2>1. CASE stop
    BY <1>1, <2>1
  <2>2. CASE ~stop
    <3>1. pc' = "finish"
      BY <1>1, <2>2
    <3>2. ~signalled'
      BY <1>2, <2>2, Zenon
    <3> QED BY <3>1, <3>2
  <2> QED BY <2>1, <2>2
<1>4. DirsOK' /\ CommandOK'
  BY <1>1, <1>3 DEF IInv, TypeOK, DirsOK, CommandOK, args
<1>5. PlaceInv' /\ CommandInv' /\ DirInv' /\ ArtifactInv'
  BY <1>1, <1>3 DEF IInv, PlaceInv, CommandInv, DirInv, ArtifactInv, CleanPcs, Idle, args
<1>6. ConfigInv'
  BY <1>1, <1>3 DEF IInv, ConfigInv
<1> QED BY <1>2, <1>4, <1>5, <1>6 DEF IInv, TypeOK

LEMMA GenConfigReadInv == IInv /\ GenConfigRead => IInv'
<1> SUFFICES ASSUME IInv, GenConfigRead PROVE IInv'
  OBVIOUS
<1> DEFINE from == live[DirFrom(step)]
<1>1. /\ pc = "genConfigRead" /\ cmd \in {"spawn", "generate"} /\ step # "bite"
      /\ step \in Step /\ run \in Run
      /\ DirFrom(step) \in Step /\ live \in [Step -> DirOrNone]
  BY FromFacts DEF IInv, TypeOK, DirsOK, CommandOK, CommandInv, GenConfigRead, Idle
<1> DEFINE good == from # NoDir /\ live[step] # NoDir /\ from.config.state = "full"
<1>2. CASE ~good
  BY <1>2, PanicInv DEF GenConfigRead
<1>3. CASE good
  <2>1. /\ config' = from.config /\ pc' = "genFiles" /\ at' = 1
        /\ UNCHANGED <<live, debug, moved, ready, stop, args, signalled, acked, announced>>
    BY <1>3 DEF GenConfigRead, Goto, dirs
  <2>2. FlagsOK'
    BY <2>1, FlagsKept
  <2>3. config' \in Config /\ NamesSpec(config')
    BY <1>1, <1>3, <2>1, DirTyped DEF IInv, ConfigInv, DirOrNone
  <2>4. DirsOK' /\ CommandOK'
    BY <2>1, <2>3 DEF IInv, TypeOK, DirsOK, CommandOK, args
  <2>5. PlaceInv'
    <3>1. TeardownFiles' = TeardownFiles
      BY DEF TeardownFiles, PerPara
    <3>2. 1 \in DOMAIN TeardownFiles
      BY ListsTyped
    <3> QED BY <2>1, <3>1, <3>2 DEF PlaceInv
  <2>6. CommandInv' /\ DirInv' /\ ArtifactInv'
    BY <1>1, <1>3, <2>1 DEF IInv, CommandInv, DirInv, ArtifactInv, CleanPcs, Idle, args
  <2>7. ConfigInv'
    BY <1>3, <2>1, <2>3 DEF IInv, ConfigInv
  <2> QED BY <2>2, <2>4, <2>5, <2>6, <2>7 DEF IInv, TypeOK
<1> QED BY <1>2, <1>3

\* What GenFile writes: a value at the file, and perhaps the bootnodes of a spec.
LEMMA GenFileDirs ==
  ASSUME IInv, GenFile
  PROVE  LET f == TeardownFiles[at]
             from == live[DirFrom(step)]
         IN
         /\ f \in File
         /\ live' \in [Step -> DirOrNone] /\ live'[step] # NoDir
         /\ \A t \in Step \ {step} : live'[t] = live[t]
         /\ live'[step].config = live[step].config
         /\ \A g \in File \ {f} : live'[step].file[g] = live[step].file[g]
         /\ f[1] = "spec" /\ from.file[f] # Absent => live'[step].file[f] = from.file[f]
         /\ f[1] # "spec" /\ live[step].file[<<"data", RC>>] # Absent
              => live'[step].file[f] = live[step].file[<<"data", RC>>]
<1> DEFINE f == TeardownFiles[at]
<1> DEFINE from == live[DirFrom(step)]
<1> DEFINE source == IF f[1] = "spec" THEN from.file[f] ELSE live[step].file[<<"data", RC>>]
<1>1. /\ pc = "genFiles" /\ step # "bite" /\ step \in Step
      /\ DirFrom(step) \in Step /\ DirFrom(step) # step
      /\ live \in [Step -> DirOrNone]
      /\ live[step] # NoDir /\ live[step] \in Dir /\ from # NoDir /\ from \in Dir
      /\ f \in File /\ f[2] \in Chains /\ <<"data", RC>> \in File
  BY FromFacts, ListsTyped, FileFacts
  DEF IInv, TypeOK, DirsOK, CommandOK, CommandInv, PlaceInv, DirInv, DirOrNone, GenFile, Idle
<1>2. source \in Value
  BY <1>1, DirTyped
<1>3. ASSUME NEW r \in Value
      PROVE  /\ SetFile(step, f, r) \in [Step -> DirOrNone]
             /\ SetFile(step, f, r)[step] \in Dir
             /\ \A t \in Step \ {step} : SetFile(step, f, r)[t] = live[t]
             /\ SetFile(step, f, r)[step].file = [live[step].file EXCEPT ![f] = r]
             /\ SetFile(step, f, r)[step].config = live[step].config
  <2>1. \A t \in Step \ {step} : SetFile(step, f, r)[t] = live[t]
    BY <1>1, SetOthers
  <2> QED BY <1>1, <1>3, <2>1, SetFileTyped
<1>4. live[step].file \in [File -> Value]
  BY <1>1, DirTyped
<1>5. CASE f[1] # "spec"
  <2> DEFINE r == IF source = Absent THEN Torn ELSE source
  <2>1. r \in Value /\ live' = SetFile(step, f, r)
    BY <1>2, <1>5 DEF GenFile, Value
  <2> HIDE DEF r
  <2>2. /\ live' \in [Step -> DirOrNone] /\ live'[step] \in Dir
        /\ \A t \in Step \ {step} : live'[t] = live[t]
        /\ live'[step].file = [live[step].file EXCEPT ![f] = r]
        /\ live'[step].config = live[step].config
    BY <1>3, <2>1
  <2> QED BY <1>1, <1>4, <1>5, <2>2, DirTyped DEF r
<1>6. CASE f[1] = "spec" /\ source = Absent
  <2>1. live' = live
    BY <1>6 DEF GenFile
  <2> QED BY <1>1, <1>6, <2>1
<1>7. CASE f[1] = "spec" /\ source # Absent
  <2> DEFINE L == SetFile(step, f, source)
  <2>1. live' = [L EXCEPT ![step].boots[f[2]] = from.boots[f[2]]]
    BY <1>7 DEF GenFile
  <2>2. /\ L \in [Step -> DirOrNone] /\ L[step] \in Dir
        /\ \A t \in Step \ {step} : L[t] = live[t]
        /\ L[step].file = [live[step].file EXCEPT ![f] = source]
        /\ L[step].config = live[step].config
    BY <1>2, <1>3
  <2>3. from.boots[f[2]] \in {0} \cup Run
    BY <1>1, DirTyped
  <2> HIDE DEF L
  <2> DEFINE n == [L[step] EXCEPT !.boots[f[2]] = from.boots[f[2]]]
  <2>4. n \in Dir /\ n.file = L[step].file /\ n.config = L[step].config
    BY <1>1, <2>2, <2>3 DEF Dir
  <2>5. live' = [L EXCEPT ![step] = n]
    BY <2>1
  <2> HIDE DEF n
  <2>6. /\ live' \in [Step -> DirOrNone] /\ live'[step] = n
        /\ \A t \in Step \ {step} : live'[t] = live[t]
    BY <1>1, <2>2, <2>4, <2>5 DEF DirOrNone
  <2> QED BY <1>1, <1>4, <1>7, <2>2, <2>4, <2>6, DirTyped
<1> QED BY <1>1, <1>5, <1>6, <1>7

LEMMA GenFileInv == IInv /\ GenFile => IInv'
<1> SUFFICES ASSUME IInv, GenFile PROVE IInv'
  OBVIOUS
<1> DEFINE f == TeardownFiles[at]
<1> DEFINE from == live[DirFrom(step)]
<1> DEFINE source == IF f[1] = "spec" THEN from.file[f] ELSE live[step].file[<<"data", RC>>]
<1>1. /\ pc = "genFiles" /\ cmd \in {"spawn", "generate"} /\ step # "bite" /\ step \in Step
      /\ run \in Run /\ at \in DOMAIN TeardownFiles /\ at \in Nat \ {0}
      /\ DirFrom(step) \in Step /\ DirFrom(step) # step
      /\ live[step] # NoDir /\ from # NoDir /\ config.state = "full"
      /\ <<"alice", RC>> \in File /\ <<"spec", RC>> \in File /\ <<"data", RC>> \in File
  BY FromFacts, FileFacts
  DEF IInv, TypeOK, CommandOK, CommandInv, PlaceInv, DirInv, ConfigInv, GenFile, Idle
<1>2. /\ UNCHANGED <<debug, moved, ready, stop, args, config, signalled, acked, announced>>
      /\ IF source = Absent THEN pc' = "panicked" /\ at' = at
         ELSE \/ at < Len(TeardownFiles) /\ pc' = "genFiles" /\ at' = at + 1
              \/ at >= Len(TeardownFiles) /\ pc' = "genConfig" /\ at' = 1
  <2>1. /\ UNCHANGED <<debug, moved, ready, stop, args, config, signalled, acked, announced>>
        /\ IF source = Absent THEN pc' = "panicked" /\ UNCHANGED at
           ELSE IF at < Len(TeardownFiles) THEN at' = at + 1 /\ UNCHANGED pc
                ELSE Goto("genConfig")
    BY Zenon DEF GenFile
  <2> HIDE DEF source
  <2> QED BY <1>1, <2>1, ListsTyped DEF Goto
<1>3. /\ f \in File
      /\ live' \in [Step -> DirOrNone] /\ live'[step] # NoDir
      /\ live'[step].config = live[step].config
      /\ f[1] = "spec" /\ from.file[f] # Absent => live'[step].file[f] = from.file[f]
      /\ f[1] # "spec" /\ live[step].file[<<"data", RC>>] # Absent
           => live'[step].file[f] = live[step].file[<<"data", RC>>]
  BY GenFileDirs
<1>4. \A t \in Step \ {step} : live'[t] = live[t]
  BY GenFileDirs
<1>5. \A g \in File \ {f} : live'[step].file[g] = live[step].file[g]
  BY GenFileDirs
<1>6. \A s \in Step : live'[s] # NoDir => NamesSpec(live'[s].config)
  BY <1>1, <1>3, <1>4 DEF IInv, ConfigInv
<1>7. CASE source = Absent
  BY <1>1, <1>2, <1>3, <1>6, <1>7, EndInv
<1>8. CASE source # Absent
  <2>1. FlagsOK'
    BY <1>2, FlagsKept
  <2>2. \/ at < Len(TeardownFiles) /\ pc' = "genFiles" /\ at' = at + 1
        \/ at >= Len(TeardownFiles) /\ pc' = "genConfig" /\ at' = 1
    BY <1>2, <1>8
  <2>3. DirsOK' /\ CommandOK'
    BY <1>1, <1>2, <1>3, <2>2 DEF IInv, TypeOK, DirsOK, CommandOK, args
  <2>4. PlaceInv'
    <3>1. TeardownFiles' = TeardownFiles
      BY DEF TeardownFiles, PerPara
    <3>2. pc' = "genFiles" => at' \in DOMAIN TeardownFiles
      BY <1>1, <2>2, ListsTyped
    <3> QED BY <2>2, <3>1, <3>2 DEF PlaceInv
  <2>5. CommandInv' /\ DirInv'
    BY <1>1, <1>2, <1>3, <1>4, <2>2 DEF IInv, CommandInv, DirInv, CleanPcs, Idle, args
  <2>6. ConfigInv'
    BY <1>1, <1>2, <1>6, <2>2 DEF IInv, ConfigInv
  <2>7. ASSUME cmd = "spawn"
        PROVE  /\ live'[step].file[<<"data", RC>>] = run
               /\ live'[step].file[<<"alice", RC>>] = run
               /\ at >= 3 => live'[step].file[<<"spec", RC>>] \in Run
    <3>1. /\ live[step].file[<<"data", RC>>] = run /\ from.file[<<"spec", RC>>] \in Run
          /\ at > 1 => live[step].file[<<"alice", RC>>] = run
          /\ at > 3 => live[step].file[<<"spec", RC>>] \in Run
      BY <1>1, <2>7, RefsFacts DEF IInv, ArtifactInv
    <3>2. Absent \notin Run
      BY StepBoundsAssumption DEF Absent, Run
    <3>3. CASE at = 1
      <4>1. f = <<"alice", RC>>
        BY <3>3, ListsTyped
      <4> QED BY <1>1, <1>3, <1>5, <3>1, <3>2, <3>3, <4>1
    <3>4. CASE at = 2
      <4>1. f = <<"bob", RC>>
        BY <3>4, ListsTyped
      <4> QED BY <1>1, <1>5, <3>1, <3>4, <4>1
    <3>5. CASE at = 3
      <4>1. f = <<"spec", RC>>
        BY <3>5, ListsTyped
      <4>2. live'[step].file[f] \in Run
        BY <1>3, <3>1, <3>2, <4>1
      <4> QED BY <1>1, <1>5, <3>1, <3>5, <4>1, <4>2
    <3>6. CASE at > 3
      <4>1. f[2] # RC
        BY <1>1, <3>6, ListsTyped
      <4> QED BY <1>1, <1>5, <3>1, <3>6, <4>1
    <3> QED BY <1>1, <3>3, <3>4, <3>5, <3>6
  <2>8. ArtifactInv'
    <3>1. cmd' = cmd /\ step' = step /\ run' = run
      BY <1>2 DEF args
    <3>2. CASE cmd # "spawn"
      BY <3>1, <3>2 DEF ArtifactInv
    <3>3. CASE cmd = "spawn" /\ pc' = "genFiles"
      <4>1. from.config.state = "full" /\ \A g \in SpecFiles : from.file[g] \in Run
        BY <1>1, <3>3 DEF IInv, ArtifactInv
      <4>2. live'[DirFrom(step)] = from
        BY <1>1, <1>4
      <4>3. at' = at + 1
        BY <2>2, <3>3
      <4> QED BY <1>1, <1>3, <2>7, <3>1, <3>3, <4>1, <4>2, <4>3 DEF ArtifactInv
    <3>4. CASE cmd = "spawn" /\ pc' = "genConfig"
      <4>1. at >= 3
        BY <1>1, <2>2, <3>4, ListsTyped
      <4> QED BY <2>7, <3>1, <3>4, <4>1 DEF ArtifactInv, Wrote
    <3> QED BY <2>2, <3>2, <3>3, <3>4
  <2> QED BY <2>1, <2>3, <2>4, <2>5, <2>6, <2>8 DEF IInv, TypeOK
<1> QED BY <1>7, <1>8

LEMMA GenConfigInv == IInv /\ GenConfig => IInv'
<1> SUFFICES ASSUME IInv, GenConfig PROVE IInv'
  OBVIOUS
<1>1. /\ pc = "genConfig" /\ cmd \in {"spawn", "generate"} /\ step # "bite" /\ step \in Step
      /\ run \in Run /\ live[step] # NoDir /\ live \in [Step -> DirOrNone]
      /\ config \in Config /\ config.state = "full" /\ NamesSpec(config)
  BY DEF IInv, TypeOK, DirsOK, CommandOK, CommandInv, DirInv, ConfigInv, GenConfig, Idle
<1> DEFINE insert == Cardinality(Snapshots(config.refs)) # 2 + Len(Paras)
<1>2. CASE insert /\ Validators > 2
  BY <1>2, PanicInv DEF GenConfig
<1>3. CASE ~(insert /\ Validators > 2)
  <2> DEFINE c == Full(IF insert THEN NodeRefs ELSE config.refs)
  <2>1. /\ live' = SetConfig(step, c)
        /\ pc' = IF cmd = "spawn" THEN "removeDebug" ELSE "idle"
        /\ at' = 1
        /\ UNCHANGED <<debug, moved, ready, stop, args, config, signalled, acked, announced>>
    BY <1>3 DEF GenConfig, Goto
  <2>2. c \in Config /\ c.state = "full" /\ NamesSpec(c)
    BY <1>1, RefsFacts DEF Full, Config, NamesSpec
  <2> HIDE DEF c
  <2>3. /\ live' \in [Step -> DirOrNone]
        /\ live'[step] \in Dir
        /\ live'[step].file = live[step].file
        /\ live'[step].config = c
    BY <1>1, <2>1, <2>2, SetConfigTyped
  <2>4. \A t \in Step \ {step} : live'[t] = live[t]
    BY <1>1, <2>1, <2>2, SetOthers
  <2>5. \A s \in Step : live'[s] # NoDir => NamesSpec(live'[s].config)
    BY <1>1, <2>2, <2>3, <2>4 DEF IInv, ConfigInv
  <2>6. CASE cmd # "spawn"
    BY <2>1, <2>3, <2>5, <2>6, EndInv
  <2>7. CASE cmd = "spawn"
    <3>1. FlagsOK'
      BY <2>1, FlagsKept
    <3>2. DirsOK' /\ CommandOK'
      BY <1>1, <2>1, <2>3 DEF IInv, TypeOK, DirsOK, CommandOK, args
    <3>3. PlaceInv' /\ CommandInv' /\ DirInv'
      BY <1>1, <2>1, <2>7 DEF PlaceInv, CommandInv, DirInv, CleanPcs, Idle, args
    <3>4. ArtifactInv'
      <4>1. Wrote(live[step])
        BY <1>1, <2>7 DEF IInv, ArtifactInv
      <4> QED BY <1>1, <2>1, <2>2, <2>3, <2>7, <4>1, DirTyped DEF ArtifactInv, Wrote, args
    <3>5. ConfigInv'
      BY <2>1, <2>5, <2>7 DEF IInv, ConfigInv
    <3> QED BY <3>1, <3>2, <3>3, <3>4, <3>5 DEF IInv, TypeOK
  <2> QED BY <2>6, <2>7
<1> QED BY <1>2, <1>3

-----------------------------------------------------------------------------
(* The clean-up.                                                           *)

LEMMA RemoveDebugInv == IInv /\ RemoveDebug => IInv'
<1> SUFFICES ASSUME IInv, RemoveDebug PROVE IInv'
  OBVIOUS
<1>1. /\ pc = "removeDebug" /\ pc' = "renameDir" /\ at' = 1
      /\ debug' = [debug EXCEPT ![step] = NoDir]
      /\ UNCHANGED <<live, moved, ready, stop, args, config, signalled, acked, announced>>
  BY DEF RemoveDebug, Goto
<1>2. FlagsOK'
  BY <1>1, FlagsKept
<1>3. DirsOK' /\ CommandOK'
  BY <1>1 DEF IInv, TypeOK, DirsOK, CommandOK, DirOrNone, args
<1>4. PlaceInv' /\ DirInv'
  BY <1>1 DEF PlaceInv, DirInv
<1>5. CommandInv'
  BY <1>1 DEF IInv, CommandInv, CleanPcs, Idle, args
<1>6. ArtifactInv'
  <2>1. cmd = "spawn" => live[step] # NoDir /\ Wrote(live[step]) /\ live[step].config.state = "full"
    BY <1>1 DEF IInv, ArtifactInv
  <2> QED BY <1>1, <2>1 DEF ArtifactInv, Wrote, args
<1>7. ConfigInv'
  BY <1>1 DEF IInv, TypeOK, DirsOK, ConfigInv
<1> QED BY <1>2, <1>3, <1>4, <1>5, <1>6, <1>7 DEF IInv, TypeOK

LEMMA RenameDirInv == IInv /\ RenameDir => IInv'
<1> SUFFICES ASSUME IInv, RenameDir PROVE IInv'
  OBVIOUS
<1>1. /\ pc = "renameDir" /\ step \in Step /\ live \in [Step -> DirOrNone]
      /\ debug \in [Step -> DirOrNone] /\ run \in Run /\ cmd \in {"bite", "spawn", "cleanup"}
  BY DEF IInv, TypeOK, DirsOK, CommandOK, CommandInv, CleanPcs, RenameDir, Idle
<1>2. CASE live[step] = NoDir
  BY <1>2, PanicInv DEF RenameDir
<1>3. CASE live[step] # NoDir
  <2>1. /\ pc' = "createDir" /\ at' = 1
        /\ debug' = [debug EXCEPT ![step] = live[step]]
        /\ live' = [live EXCEPT ![step] = NoDir]
        /\ UNCHANGED <<moved, ready, stop, args, config, signalled, acked, announced>>
    BY <1>3 DEF RenameDir, Goto
  <2>2. FlagsOK'
    BY <2>1, FlagsKept
  <2>3. DirsOK' /\ CommandOK'
    BY <1>1, <2>1 DEF IInv, TypeOK, DirsOK, CommandOK, DirOrNone, args
  <2>4. PlaceInv' /\ CommandInv' /\ DirInv'
    BY <1>1, <1>3, <2>1 DEF IInv, PlaceInv, CommandInv, DirInv, CleanPcs, Idle, args
  <2>5. ArtifactInv'
    BY <1>1, <1>3, <2>1 DEF IInv, ArtifactInv, Wrote, args
  <2>6. ConfigInv'
    BY <1>1, <1>3, <2>1 DEF IInv, ConfigInv
  <2> QED BY <2>2, <2>3, <2>4, <2>5, <2>6 DEF IInv, TypeOK
<1> QED BY <1>2, <1>3

LEMMA CreateDirInv == IInv /\ CreateDir => IInv'
<1> SUFFICES ASSUME IInv, CreateDir PROVE IInv'
  OBVIOUS
<1>1. /\ pc = "createDir" /\ step \in Step /\ live \in [Step -> DirOrNone]
      /\ run \in Run /\ cmd \in {"bite", "spawn", "cleanup"}
      /\ cmd = "spawn" => step # "bite"
      /\ cmd = "bite" => step = "bite"
  BY DEF IInv, TypeOK, DirsOK, CommandOK, CommandInv, CleanPcs, CreateDir, Idle
<1>2. /\ pc' = "moveConfig" /\ at' = 1
      /\ live' = [live EXCEPT ![step] = EmptyDir]
      /\ UNCHANGED <<debug, moved, ready, stop, args, config, signalled, acked, announced>>
  BY DEF CreateDir, Goto
<1>3. FlagsOK'
  BY <1>2, FlagsKept
<1>4. DirsOK' /\ CommandOK'
  BY <1>1, <1>2, DirTyped DEF IInv, TypeOK, DirsOK, CommandOK, DirOrNone, args
<1>5. debug[step] # NoDir /\ live'[step] # NoDir
  BY <1>1, <1>2, DirTyped DEF IInv, DirInv
<1>6. PlaceInv' /\ CommandInv' /\ DirInv'
  BY <1>1, <1>2, <1>5 DEF IInv, PlaceInv, CommandInv, DirInv, CleanPcs, Idle, args
<1>7. ArtifactInv'
  BY <1>1, <1>2 DEF IInv, ArtifactInv, Wrote, args
<1>8. ConfigInv'
  <2>1. NamesSpec(EmptyDir.config)
    BY DEF EmptyDir, NoConfig, NamesSpec
  <2> QED BY <1>1, <1>2, <2>1 DEF IInv, ConfigInv
<1> QED BY <1>3, <1>4, <1>6, <1>7, <1>8 DEF IInv, TypeOK

LEMMA MoveConfigInv == IInv /\ MoveConfig => IInv'
<1> SUFFICES ASSUME IInv, MoveConfig PROVE IInv'
  OBVIOUS
<1>1. /\ pc = "moveConfig" /\ step \in Step /\ live \in [Step -> DirOrNone]
      /\ debug \in [Step -> DirOrNone] /\ run \in Run /\ cmd \in {"bite", "spawn", "cleanup"}
      /\ cmd = "spawn" => step # "bite"
      /\ cmd = "bite" => step = "bite"
      /\ live[step] # NoDir /\ debug[step] # NoDir /\ debug[step] \in Dir
  BY DEF IInv, TypeOK, DirsOK, CommandOK, CommandInv, DirInv, CleanPcs, DirOrNone, MoveConfig, Idle
<1>2. CASE debug[step].config.state = "none"
  BY <1>2, PanicInv DEF MoveConfig
<1>3. CASE debug[step].config.state # "none"
  <2> DEFINE c == debug[step].config
  <2>1. /\ pc' = "moveFiles" /\ at' = 1
        /\ live' = SetConfig(step, c)
        /\ debug' = [debug EXCEPT ![step].config = NoConfig]
        /\ UNCHANGED <<moved, ready, stop, args, config, signalled, acked, announced>>
    BY <1>3 DEF MoveConfig, Goto
  <2>2. c \in Config /\ NamesSpec(c)
    BY <1>1, DirTyped DEF IInv, ConfigInv
  <2>3. NoConfig \in Config /\ NamesSpec(NoConfig)
    BY DEF NoConfig, Config, NamesSpec
  <2>4. [debug[step] EXCEPT !.config = NoConfig] \in Dir
    BY <1>1, <2>3 DEF Dir
  <2>5. /\ debug' \in [Step -> DirOrNone]
        /\ debug'[step] = [debug[step] EXCEPT !.config = NoConfig]
        /\ \A t \in Step \ {step} : debug'[t] = debug[t]
    BY <1>1, <2>1, <2>4 DEF DirOrNone
  <2>6. debug'[step].file = debug[step].file /\ debug'[step].config = NoConfig
    BY <1>1, <2>5 DEF Dir
  <2>7. /\ live' \in [Step -> DirOrNone]
        /\ live'[step] \in Dir
        /\ live'[step].config = c
    BY <1>1, <2>1, <2>2, SetConfigTyped
  <2>8. \A t \in Step \ {step} : live'[t] = live[t]
    BY <1>1, <2>1, <2>2, SetOthers
  <2>9. live'[step] # NoDir /\ debug'[step] # NoDir
    BY <2>4, <2>5, <2>7, DirTyped
  <2>10. FlagsOK'
    BY <2>1, FlagsKept
  <2>11. DirsOK' /\ CommandOK'
    BY <1>1, <2>1, <2>5, <2>7 DEF IInv, TypeOK, DirsOK, CommandOK, args
  <2>12. PlaceInv'
    <3>1. Needed' = Needed
      BY <2>1 DEF Needed, args
    <3>2. 1 \in DOMAIN Needed
      BY NeededTyped
    <3> QED BY <2>1, <3>1, <3>2 DEF PlaceInv
  <2>13. CommandInv' /\ DirInv'
    BY <1>1, <2>1, <2>9 DEF CommandInv, DirInv, CleanPcs, Idle, args
  <2>14. ArtifactInv'
    BY <1>1, <2>1, <2>6, <2>7 DEF IInv, ArtifactInv, Wrote, args
  <2>15. ConfigInv'
    BY <1>1, <2>1, <2>2, <2>3, <2>5, <2>6, <2>7, <2>8 DEF IInv, ConfigInv
  <2> QED BY <2>10, <2>11, <2>12, <2>13, <2>14, <2>15 DEF IInv, TypeOK
<1> QED BY <1>2, <1>3

\* What MoveFile does to the two directories.
LEMMA MoveFileDirs ==
  ASSUME IInv, MoveFile,
         NEW f \in File, f = Needed[at],
         ~Missing(f)
  PROVE  /\ live' \in [Step -> DirOrNone] /\ live'[step] # NoDir
         /\ live'[step].config = live[step].config /\ live'[step].original = live[step].original
         /\ live'[step].file = [live[step].file EXCEPT ![f] = debug[step].file[f]]
         /\ \A t \in Step \ {step} : live'[t] = live[t]
         /\ debug' \in [Step -> DirOrNone] /\ debug'[step] # NoDir
         /\ debug'[step].config = debug[step].config /\ debug'[step].original = debug[step].original
         /\ debug'[step].file = [debug[step].file EXCEPT ![f] = Absent]
         /\ \A t \in Step \ {step} : debug'[t] = debug[t]
<1> DEFINE found == debug[step].file[f]
<1>1. /\ step \in Step /\ live \in [Step -> DirOrNone] /\ debug \in [Step -> DirOrNone]
      /\ live[step] # NoDir /\ debug[step] # NoDir
      /\ live[step] \in Dir /\ debug[step] \in Dir /\ f[2] \in Chains
  BY FileFacts DEF IInv, TypeOK, DirsOK, CommandOK, DirInv, DirOrNone, MoveFile
<1>2. found \in Value
  BY <1>1, DirTyped
<1> DEFINE L == SetFile(step, f, found)
<1> DEFINE boot == IF f[1] = "spec" THEN debug[step].boots[f[2]] ELSE L[step].boots[f[2]]
<1>3. /\ live' = [L EXCEPT ![step].boots[f[2]] =
                     IF f[1] = "spec" THEN debug[step].boots[f[2]] ELSE @]
      /\ debug' = [debug EXCEPT ![step].file[f] = Absent]
  BY DEF MoveFile
<1>4. /\ L \in [Step -> DirOrNone] /\ L[step] \in Dir
      /\ L[step].file = [live[step].file EXCEPT ![f] = found]
      /\ L[step].config = live[step].config /\ L[step].original = live[step].original
  <2>1. ASSUME NEW r \in Value
        PROVE  /\ SetFile(step, f, r) \in [Step -> DirOrNone]
               /\ SetFile(step, f, r)[step] \in Dir
               /\ SetFile(step, f, r)[step].file = [live[step].file EXCEPT ![f] = r]
               /\ SetFile(step, f, r)[step].config = live[step].config
               /\ SetFile(step, f, r)[step].original = live[step].original
    BY <1>1, <2>1, SetFileTyped
  <2> QED BY <1>2, <2>1
<1>5. \A t \in Step \ {step} : L[t] = live[t]
  <2>1. ASSUME NEW r \in Value
        PROVE  \A t \in Step \ {step} : SetFile(step, f, r)[t] = live[t]
    BY <1>1, <2>1, SetOthers
  <2> QED BY <1>2, <2>1
<1> HIDE DEF L
<1>6. boot \in {0} \cup Run
  BY <1>1, <1>4, DirTyped
<1>7. live' = [L EXCEPT ![step] = [L[step] EXCEPT !.boots[f[2]] = boot]]
  BY <1>3
<1> HIDE DEF boot
<1> DEFINE n == [L[step] EXCEPT !.boots[f[2]] = boot]
<1>8. n \in Dir /\ n.file = L[step].file /\ n.config = L[step].config /\ n.original = L[step].original
  BY <1>1, <1>4, <1>6 DEF Dir
<1> DEFINE m == [debug[step] EXCEPT !.file[f] = Absent]
<1>9. /\ m \in Dir /\ m.config = debug[step].config /\ m.original = debug[step].original
      /\ m.file = [debug[step].file EXCEPT ![f] = Absent]
  BY <1>1 DEF Dir
<1>10. debug' = [debug EXCEPT ![step] = m]
  BY <1>3
<1> HIDE DEF n, m
<1>11. /\ live' \in [Step -> DirOrNone] /\ live'[step] = n
       /\ \A t \in Step \ {step} : live'[t] = live[t]
  BY <1>1, <1>4, <1>5, <1>7, <1>8 DEF DirOrNone, n
<1>12. /\ debug' \in [Step -> DirOrNone] /\ debug'[step] = m
       /\ \A t \in Step \ {step} : debug'[t] = debug[t]
  BY <1>1, <1>9, <1>10 DEF DirOrNone
<1> QED BY <1>4, <1>8, <1>9, <1>11, <1>12, DirTyped

LEMMA MoveFileInv == IInv /\ MoveFile => IInv'
<1> SUFFICES ASSUME IInv, MoveFile PROVE IInv'
  OBVIOUS
<1> DEFINE f == Needed[at]
<1> DEFINE found == debug[step].file[f]
<1>1. /\ pc = "moveFiles" /\ step \in Step /\ run \in Run /\ cmd \in {"bite", "spawn", "cleanup"}
      /\ cmd = "spawn" => step # "bite"
      /\ cmd = "bite" => step = "bite"
      /\ f \in File /\ at \in DOMAIN Needed /\ at \in Nat \ {0}
      /\ live[step] # NoDir /\ debug[step] # NoDir
  BY NeededTyped
  DEF IInv, TypeOK, CommandOK, CommandInv, PlaceInv, DirInv, CleanPcs, MoveFile, Idle
<1>2. CASE Missing(f)
  BY <1>2, PanicInv DEF MoveFile
<1>3. CASE ~Missing(f)
  <2>1. /\ live' \in [Step -> DirOrNone] /\ live'[step] # NoDir
        /\ live'[step].config = live[step].config
        /\ live'[step].file = [live[step].file EXCEPT ![f] = found]
        /\ debug' \in [Step -> DirOrNone] /\ debug'[step] # NoDir
        /\ debug'[step].config = debug[step].config
        /\ debug'[step].file = [debug[step].file EXCEPT ![f] = Absent]
    BY <1>1, <1>3, MoveFileDirs
  <2>2. \A t \in Step \ {step} : live'[t] = live[t] /\ debug'[t] = debug[t]
    BY <1>1, <1>3, MoveFileDirs
  <2>3. /\ UNCHANGED <<moved, ready, stop, args, config, signalled, acked, announced>>
        /\ IF at < Len(Needed) THEN at' = at + 1 /\ UNCHANGED pc
           ELSE Goto(IF cmd = "spawn" THEN "publish" ELSE "idle")
    BY <1>3, Zenon DEF MoveFile
  <2>4. \/ at < Len(Needed) /\ pc' = "moveFiles" /\ at' = at + 1
        \/ at >= Len(Needed) /\ pc' = (IF cmd = "spawn" THEN "publish" ELSE "idle") /\ at' = 1
    BY <1>1, <2>3, NeededTyped DEF Goto
  <2>5. FlagsOK'
    BY <2>3, FlagsKept
  <2>6. DirsOK' /\ CommandOK'
    BY <1>1, <2>1, <2>3, <2>4 DEF IInv, TypeOK, DirsOK, CommandOK, args
  <2>7. PlaceInv'
    <3>1. Needed' = Needed
      BY <2>3 DEF Needed, args
    <3>2. pc' = "moveFiles" => at' \in DOMAIN Needed
      BY <1>1, <2>4, NeededTyped
    <3> QED BY <2>4, <3>1, <3>2 DEF PlaceInv
  <2>8. CommandInv' /\ DirInv'
    BY <1>1, <2>1, <2>3, <2>4 DEF CommandInv, DirInv, CleanPcs, Idle, args
  <2>9. ArtifactInv'
    <3>1. CASE cmd # "spawn"
      BY <2>3, <3>1 DEF ArtifactInv, args
    <3>2. CASE cmd = "spawn"
      <4>1. Needed = <<<<"spec", RC>>, <<"alice", RC>>>>
        BY <1>1, <3>2, NeededTyped
      <4>2. /\ live[step].config.state = "full"
            /\ debug[step].file[<<"alice", RC>>] = run
            /\ at = 1 => debug[step].file[<<"spec", RC>>] \in Run
            /\ at # 1 => live[step].file[<<"spec", RC>>] \in Run
        BY <1>1, <3>2 DEF IInv, ArtifactInv
      <4>3. /\ live[step].file \in [File -> Value] /\ debug[step].file \in [File -> Value]
            /\ <<"spec", RC>> \in File /\ <<"alice", RC>> \in File
        BY <1>1, DirTyped, FileFacts DEF IInv, TypeOK, DirsOK, DirOrNone
      <4>4. at \in {1, 2}
        BY <1>1, <4>1
      <4>5. CASE at = 1
        <5>1. f = <<"spec", RC>> /\ pc' = "moveFiles" /\ at' = 2
          BY <2>4, <4>1, <4>5
        <5> QED BY <2>1, <2>3, <4>2, <4>3, <4>5, <5>1 DEF ArtifactInv, args
      <4>6. CASE at = 2
        <5>1. f = <<"alice", RC>> /\ pc' = "publish"
          BY <2>4, <3>2, <4>1, <4>6
        <5>2. live'[step].file[<<"alice", RC>>] = run /\ live'[step].file[<<"spec", RC>>] \in Run
          BY <2>1, <2>3, <4>2, <4>3, <4>6, <5>1 DEF Wrote, args
        <5>3. live'[step].config.state = "full"
          BY <2>1, <4>2
        <5> QED BY <2>1, <2>3, <5>1, <5>2, <5>3 DEF ArtifactInv, Wrote, args
      <4> QED BY <4>4, <4>5, <4>6
    <3> QED BY <3>1, <3>2
  <2>10. ConfigInv'
    BY <1>1, <2>1, <2>2, <2>3, <2>4 DEF IInv, ConfigInv
  <2> QED BY <2>5, <2>6, <2>7, <2>8, <2>9, <2>10 DEF IInv, TypeOK
<1> QED BY <1>2, <1>3

-----------------------------------------------------------------------------
(* The end of a command, the user, and the steps in which nothing changes. *)

LEMMA PublishInv == IInv /\ Publish => IInv'
<1> SUFFICES ASSUME IInv, Publish PROVE IInv'
  OBVIOUS
<1>1. /\ pc = "publish" /\ cmd = "spawn" /\ step # "bite" /\ step \in Step /\ run \in Run
      /\ live[step] # NoDir /\ live[step] \in Dir
      /\ live \in [Step -> DirOrNone] /\ RC \in Chains
  BY FileFacts DEF IInv, TypeOK, DirsOK, CommandOK, CommandInv, DirInv, DirOrNone, Publish, Idle
<1>2. Wrote(live[step]) /\ live[step].config.state = "full"
  BY <1>1 DEF IInv, ArtifactInv
<1>3. /\ pc' = "finish" /\ at' = 1
      /\ UNCHANGED <<debug, moved, ready, stop, args, config, signalled, acked, announced>>
  BY DEF Publish, Goto
<1>4. /\ live' \in [Step -> DirOrNone] /\ live'[step] \in Dir
      /\ live'[step].file = live[step].file
      /\ live'[step].config = live[step].config
      /\ publish => live'[step].boots[RC] = run
      /\ \A t \in Step \ {step} : live'[t] = live[t]
  <2>1. CASE ~publish
    <3>1. live' = live
      BY <2>1, Zenon DEF Publish
    <3> QED BY <1>1, <2>1, <3>1
  <2>2. CASE publish
    <3> DEFINE b == [c \in Chains |-> IF live[step].file[<<"spec", c>>] \in Run THEN run
                                      ELSE live[step].boots[c]]
    <3> DEFINE n == [live[step] EXCEPT !.boots = b]
    <3>1. live' = [live EXCEPT ![step].boots =
                     [c \in Chains |-> IF live[step].file[<<"spec", c>>] \in Run THEN run ELSE @[c]]]
      BY <2>2, Zenon DEF Publish, PublishedIn
    <3>2. b \in [Chains -> {0} \cup Run]
      BY <1>1, DirTyped
    <3>3. b[RC] = run
      BY <1>1, <1>2 DEF Wrote
    <3>4. live' = [live EXCEPT ![step] = n]
      BY <3>1
    <3> HIDE DEF b
    <3>5. n \in Dir /\ n.file = live[step].file /\ n.config = live[step].config /\ n.boots = b
      BY <1>1, <3>2 DEF Dir
    <3> HIDE DEF n
    <3>6. /\ live' \in [Step -> DirOrNone] /\ live'[step] = n
          /\ \A t \in Step \ {step} : live'[t] = live[t]
      BY <1>1, <3>4, <3>5 DEF DirOrNone
    <3> QED BY <3>3, <3>5, <3>6
  <2> QED BY <2>1, <2>2
<1>5. FlagsOK'
  BY <1>3, FlagsKept
<1>6. DirsOK' /\ CommandOK'
  BY <1>3, <1>4 DEF IInv, TypeOK, DirsOK, CommandOK, args
<1>7. PlaceInv' /\ CommandInv' /\ DirInv'
  BY <1>1, <1>3 DEF PlaceInv, CommandInv, DirInv, CleanPcs, Idle, args
<1>8. ArtifactInv'
  <2>1. live'[step] # NoDir /\ Wrote(live'[step]) /\ live'[step].config.state = "full"
    BY <1>2, <1>4, DirTyped DEF Wrote
  <2>2. publish' = publish /\ step' = step /\ run' = run /\ cmd' = cmd
    BY <1>3 DEF args
  <2>3. publish' => live'[step].boots[RC] = run
    BY <1>4, <2>2
  <2> QED BY <1>3, <2>1, <2>2, <2>3 DEF ArtifactInv, Wrote
<1>9. ConfigInv'
  BY <1>1, <1>3, <1>4 DEF IInv, ConfigInv
<1> QED BY <1>5, <1>6, <1>7, <1>8, <1>9 DEF IInv, TypeOK

LEMMA FinishInv == IInv /\ Finish => IInv'
<1> SUFFICES ASSUME IInv, Finish PROVE IInv'
  OBVIOUS
<1>1. /\ pc = "finish" /\ pc' = "idle" /\ at' = 1 /\ run \in Run
      /\ UNCHANGED <<live, debug, moved, ready, args, config, signalled, announced>>
      /\ acked' \in {acked, acked \cup {run}}
  BY DEF IInv, CommandInv, Idle, Finish, Goto, dirs
<1>2. FlagsOK'
  <2>1. stop' \in BOOLEAN /\ UNCHANGED <<publish, signalled>>
    BY Zenon DEF Finish, args
  <2> QED BY <2>1, Zenon DEF IInv, TypeOK, FlagsOK
<1>3. DirsOK' /\ CommandOK'
  <2>1. acked' \in SUBSET Run
    BY <1>1 DEF IInv, TypeOK, CommandOK
  <2> QED BY <1>1, <2>1 DEF IInv, TypeOK, DirsOK, CommandOK, args
<1>4. PlaceInv' /\ CommandInv' /\ DirInv' /\ ArtifactInv'
  BY <1>1 DEF PlaceInv, CommandInv, DirInv, ArtifactInv, CleanPcs, Idle
<1>5. ConfigInv'
  BY <1>1 DEF IInv, ConfigInv
<1> QED BY <1>2, <1>3, <1>4, <1>5 DEF IInv, TypeOK

\* Only stop changes, or nothing does.
LEMMA OnlyStopInv ==
  ASSUME IInv, stop' \in BOOLEAN,
         UNCHANGED <<live, debug, moved, ready, pc, cmd, step, publish, run, bites,
                     at, config, signalled, acked, announced>>
  PROVE  IInv'
<1>1. FlagsOK'
  BY Zenon DEF IInv, TypeOK, FlagsOK
<1>2. DirsOK' /\ CommandOK'
  BY DEF IInv, TypeOK, DirsOK, CommandOK
<1>3. PlaceInv'
  <2>1. BiteFiles' = BiteFiles /\ TeardownFiles' = TeardownFiles /\ Needed' = Needed
    BY DEF BiteFiles, TeardownFiles, Needed, PerPara
  <2> QED BY <2>1 DEF IInv, PlaceInv
<1>4. CommandInv' /\ DirInv'
  BY DEF IInv, CommandInv, DirInv, Idle
<1>5. ArtifactInv'
  BY Zenon DEF IInv, ArtifactInv, Wrote
<1>6. ConfigInv'
  BY DEF IInv, ConfigInv
<1> QED BY <1>1, <1>2, <1>3, <1>4, <1>5, <1>6 DEF IInv, TypeOK

LEMMA StillInv == IInv /\ (TouchStop \/ UNCHANGED vars) => IInv'
<1> SUFFICES ASSUME IInv, TouchStop \/ UNCHANGED vars PROVE IInv'
  OBVIOUS
<1>1. UNCHANGED <<live, debug, moved, ready, pc, cmd, step, publish, run, bites,
                  at, config, signalled, acked, announced>>
  BY DEF TouchStop, vars, dirs, args
<1>2. stop' \in BOOLEAN
  BY Zenon DEF IInv, TypeOK, FlagsOK, TouchStop, vars
<1> QED BY <1>1, <1>2, OnlyStopInv

-----------------------------------------------------------------------------
\* Every step keeps the invariant.
LEMMA StepInv == IInv /\ [Next]_vars => IInv'
<1> SUFFICES ASSUME IInv, [Next]_vars PROVE IInv'
  OBVIOUS
<1>1. CASE Command
  BY <1>1, StartBiteInv, StartOtherInv DEF Command
<1>2. CASE Process
  <2>1. CASE BiteFile \/ BiteConfig \/ BiteReady
    BY <2>1, BiteFileInv, BiteConfigInv, BiteReadyInv
  <2>2. CASE Resolve \/ Localize \/ Repoint \/ Load \/ Startup
    BY <2>2, ResolveInv, LocalizeInv, RepointInv, LoadInv, StartupInv
  <2>3. CASE LoopEnds \/ Teardown \/ GenConfigRead \/ GenFile \/ GenConfig
    BY <2>3, LoopEndsInv, TeardownInv, GenConfigReadInv, GenFileInv, GenConfigInv
  <2>4. CASE RemoveDebug \/ RenameDir \/ CreateDir \/ MoveConfig \/ MoveFile
    BY <2>4, RemoveDebugInv, RenameDirInv, CreateDirInv, MoveConfigInv, MoveFileInv
  <2>5. CASE Publish \/ Finish
    BY <2>5, PublishInv, FinishInv
  <2> QED BY <1>2, <2>1, <2>2, <2>3, <2>4, <2>5 DEF Process
<1>3. CASE LoopEnds \/ Die
  BY <1>3, LoopEndsInv, DieInv
<1>4. CASE TouchStop \/ Rest \/ UNCHANGED vars
  BY <1>4, StillInv DEF Rest
<1> QED BY <1>1, <1>2, <1>3, <1>4 DEF Next

\* The strengthening is an invariant: every reachable state knows how far the
\* running command is, which directories it has and what is in them.
THEOREM Inductive == Spec => []IInv
BY InitInv, StepInv, PTL DEF Spec

\* Every state is well typed, for any parachains and any number of commands.
THEOREM TypeCorrect == Spec => []TypeOK
<1>1. IInv => TypeOK
  BY DEF IInv
<1> QED BY <1>1, Inductive, PTL

\* What a step that adds to the acknowledged runs leaves behind.
Acknowledged ==
  acked' \ acked # {} =>
    LET d == live'[step] IN
    /\ d # NoDir
    /\ d.config.state = "full"
    /\ d.file[<<"alice", RC>>] = run
    /\ d.file[<<"spec", RC>>] \in Run
    /\ publish => d.boots[RC] = run

LEMMA StepAcks == IInv /\ [Next]_vars => Acknowledged
<1> SUFFICES ASSUME IInv, [Next]_vars, acked' \ acked # {}
             PROVE  Acknowledged
  BY DEF Acknowledged
<1>1. Finish
  BY DEF Next, Command, Process, StartBite, StartSpawn, StartGenerate, StartCleanUp, StillKept,
         BiteFile, BiteConfig, BiteReady, Resolve, Localize, Repoint, Load, Startup, LoopEnds,
         Teardown, GenConfigRead, GenFile, GenConfig, RemoveDebug, RenameDir, CreateDir,
         MoveConfig, MoveFile, Publish, Panic, TouchStop, Die, Rest, vars
<1>2. pc = "finish" /\ cmd = "spawn" /\ live' = live /\ signalled
  BY <1>1 DEF Finish, IInv, CommandInv, dirs
<1>3. /\ live[step] # NoDir
      /\ Wrote(live[step])
      /\ live[step].config.state = "full"
      /\ publish => live[step].boots[RC] = run
  BY <1>2 DEF IInv, ArtifactInv
<1> QED BY <1>2, <1>3 DEF Wrote, Acknowledged

\* The removal of a signalled run's stop file is a true signal of completion:
\* the config, the snapshot of the run's own state and the relay chain's spec,
\* with the run's nodes in it when they are published, are in the directory.
THEOREM AcksMeanArtifacts == Spec => AckMeansArtifacts
<1>1. IInv /\ [Next]_vars => [Acknowledged]_vars
  BY StepAcks
<1> QED BY <1>1, Inductive, PTL DEF Spec, AckMeansArtifacts, Acknowledged

\* One step of a teardown finds all that it needs.
LEMMA TeardownStep ==
  ASSUME Validators = 2, IInv, [Next]_vars, cmd = "spawn", pc \in TeardownPcs
  PROVE  pc' # "panicked"
<1> DEFINE from == live[DirFrom(step)]
<1> SUFFICES ASSUME pc' = "panicked" PROVE FALSE
  OBVIOUS
<1>1. step # "bite" /\ step \in Step /\ run \in Run /\ ~Idle /\ Absent \notin Run
  BY StepBoundsAssumption
  DEF IInv, TypeOK, CommandOK, CommandInv, TeardownPcs, CleanPcs, Idle, Absent, Run
<1>2. \/ GenConfigRead \/ GenFile \/ GenConfig \/ RenameDir \/ MoveConfig \/ MoveFile
  BY <1>1, Zenon
  DEF Next, Command, Process, StartBite, StartSpawn, StartGenerate, StartCleanUp, Start,
      BiteFile, BiteConfig, BiteReady, Resolve, Localize, Repoint, Load, Startup, LoopEnds,
      Teardown, RemoveDebug, CreateDir, Publish, Finish, Goto, TouchStop, Die, Rest, Idle, vars,
      TeardownPcs
<1>3. CASE GenConfigRead
  <2>1. from # NoDir /\ live[step] # NoDir /\ from.config.state = "full"
    BY <1>3 DEF GenConfigRead, IInv, ArtifactInv
  <2> QED BY <1>3, <2>1 DEF GenConfigRead, Goto
<1>4. CASE GenFile
  <2> DEFINE f == TeardownFiles[at]
  <2>1. f \in File /\ pc = "genFiles"
    BY <1>4, ListsTyped DEF GenFile, IInv, PlaceInv
  <2>2. live[step].file[<<"data", RC>>] = run /\ \A g \in SpecFiles : from.file[g] \in Run
    BY <2>1 DEF IInv, ArtifactInv
  <2>3. f[1] = "spec" => f \in SpecFiles
    BY <2>1 DEF File, SpecFiles
  <2> DEFINE source == IF f[1] = "spec" THEN from.file[f] ELSE live[step].file[<<"data", RC>>]
  <2>4. source # Absent
    BY <1>1, <2>2, <2>3
  <2> QED BY <1>4, <2>1, <2>4 DEF GenFile, Goto
<1>5. CASE GenConfig
  BY <1>5 DEF GenConfig, Goto
<1>6. CASE RenameDir
  <2>1. live[step] # NoDir
    BY <1>6 DEF RenameDir, IInv, ArtifactInv
  <2> QED BY <1>6, <2>1 DEF RenameDir, Goto
<1>7. CASE MoveConfig
  <2>1. debug[step].config.state = "full"
    BY <1>7 DEF MoveConfig, IInv, ArtifactInv
  <2> QED BY <1>7, <2>1 DEF MoveConfig, Goto
<1>8. CASE MoveFile
  <2>1. pc = "moveFiles" /\ at \in DOMAIN Needed
    BY <1>8, Zenon DEF MoveFile, IInv, PlaceInv
  <2>2. Needed = <<<<"spec", RC>>, <<"alice", RC>>>>
    BY <1>1, NeededTyped
  <2>3. /\ debug[step].file[<<"alice", RC>>] = run
        /\ at = 1 => debug[step].file[<<"spec", RC>>] \in Run
    BY <2>1 DEF IInv, ArtifactInv
  <2>4. debug[step].file[Needed[at]] # Absent
    BY <1>1, <2>1, <2>2, <2>3
  <2>5. pc' = "moveFiles" \/ pc' = "publish"
    BY <1>8, <2>1, <2>4 DEF MoveFile, Missing, Goto
  <2> QED BY <2>5
<1> QED BY <1>2, <1>3, <1>4, <1>5, <1>6, <1>7, <1>8

\* The teardown of two validators' network, signalled or not, never panics:
\* whatever the commands before it left, what the network was started from is
\* still there when its artifacts are made.
THEOREM TwoValidatorsTearDown == Validators = 2 /\ Spec => TeardownNeverPanics
<1> SUFFICES ASSUME Validators = 2 PROVE Spec => TeardownNeverPanics
  OBVIOUS
<1>1. IInv /\ [Next]_vars => [cmd = "spawn" /\ pc \in TeardownPcs => pc' # "panicked"]_vars
  BY TeardownStep
<1> QED BY <1>1, Inductive, PTL DEF Spec, TeardownNeverPanics

=============================================================================
