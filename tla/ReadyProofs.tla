------------------------------ MODULE ReadyProofs ------------------------------
(***************************************************************************)
(* What a network is started from, for any parachains and any number of    *)
(* commands and deaths.  What ready.json and the manifest announce exists: *)
(* the files of the bite they describe are in bite/, in bite-debug/, or    *)
(* divided between the two.  The snapshots are of one moment, a bite stays *)
(* as it is, and no file of an earlier command is written over.  Then the  *)
(* same, and what StepDirsProofs shows, with bundles packed and unpacked.  *)
(***************************************************************************)
EXTENDS StepDirsProofs, Bundle

\* Every file of a bitten config, of run r.
All(d, r) == d # NoDir /\ \A f \in BiteRefs : d.file[f] = r

\* Each of them is in one of the two directories.
Somewhere(f, r) ==
  \/ live["bite"] # NoDir /\ live["bite"].file[f] = r
  \/ debug["bite"] # NoDir /\ debug["bite"].file[f] = r

\* Nothing is announced while a bite writes, or bite/ is cleaned up by hand.
QuietInv ==
  pc \in {"biteFiles", "biteConfig", "biteReady"} \/ (~Idle /\ cmd = "cleanup" /\ step = "bite")
    => announced = 0

\* What a bite has written so far is its own.
WrittenInv ==
  /\ pc = "biteFiles" => \A i \in DOMAIN BiteFiles : i < at => live["bite"].file[BiteFiles[i]] = run
  /\ pc \in {"biteConfig", "biteReady"} => All(live["bite"], run)

\* Where the announced files are while the bite cleans up: all in the one
\* directory, in the other, or those not moved yet only in the other.
MovedInv ==
  announced # 0 =>
    /\ ready = announced
    /\ \A f \in BiteRefs : Somewhere(f, announced)
    /\ cmd = "bite" =>
         /\ pc \in {"removeDebug", "renameDir"} => All(live["bite"], announced)
         /\ pc \in {"createDir", "moveConfig"} => All(debug["bite"], announced)
         /\ pc = "moveFiles" => \A f \in BiteRefs :
              \/ debug["bite"].file[f] = announced
              \/ debug["bite"].file[f] = Absent /\ live["bite"].file[f] = announced

AInv == QuietInv /\ WrittenInv /\ MovedInv

-----------------------------------------------------------------------------
(* A bite writes every file it names.                                      *)

\* Where the elements of two lists are in the one list.
LEMMA ConcatAt ==
  ASSUME NEW S, NEW a \in Seq(S), NEW b \in Seq(S), NEW c, c = a \o b
  PROVE  /\ c \in Seq(S) /\ Len(c) = Len(a) + Len(b)
         /\ \A i \in 1 .. Len(a) : i \in 1 .. Len(c) /\ c[i] = a[i]
         /\ \A i \in 1 .. Len(b) : Len(a) + i \in 1 .. Len(c) /\ c[Len(a) + i] = b[i]
OBVIOUS

LEMMA BiteFilesCover == \A f \in BiteRefs : \E i \in DOMAIN BiteFiles : BiteFiles[i] = f
<1> DEFINE n == Len(Paras)
<1> DEFINE p == PerPara(<<"spec", "snap">>)
<1> DEFINE a == [i \in 1 .. n |-> <<"over", Paras[i]>>]
<1> DEFINE b == <<<<"over", RC>>, <<"spec", RC>>, <<"snap", RC>>>>
<1>1. n \in Nat /\ DOMAIN Paras = 1 .. n
  BY ChainsAssumption
<1>2. p \in Seq({"spec", "snap", "over"} \X ParaSet) /\ Len(p) = 2 * n
  <2>1. <<"spec", "snap">> \in [1 .. 2 -> {"spec", "snap", "over"}]
    OBVIOUS
  <2>2. 2 * n \in Nat
    BY <1>1
  <2> QED BY <2>1, <2>2, PerParaTyped DEF PerPara
<1>3. a \in Seq({"over"} \X ParaSet) /\ Len(a) = n
  BY <1>1 DEF ParaSet
<1>4. BiteFiles = a \o p \o b
  BY DEF BiteFiles
<1>5. \A j \in 1 .. n : \E i \in 1 .. 2 * n : p[i] = <<"spec", Paras[j]>>
  <2> TAKE j \in 1 .. n
  <2>1. /\ 2 * j - 1 \in 1 .. 2 * n
        /\ 1 + (((2 * j - 1) - 1) % 2) = 1 /\ ((2 * j - 1) + 1) \div 2 = j
    BY <1>1, SMT
  <2>2. p[2 * j - 1] = <<<<"spec", "snap">>[1 + (((2 * j - 1) - 1) % 2)], Paras[((2 * j - 1) + 1) \div 2]>>
    BY <2>1 DEF PerPara
  <2>3. p[2 * j - 1] = <<"spec", Paras[j]>>
    BY <2>1, <2>2
  <2> QED BY <2>1, <2>3
<1>6. \A j \in 1 .. n : \E i \in 1 .. 2 * n : p[i] = <<"snap", Paras[j]>>
  <2> TAKE j \in 1 .. n
  <2>1. /\ 2 * j \in 1 .. 2 * n
        /\ 1 + ((2 * j - 1) % 2) = 2 /\ (2 * j + 1) \div 2 = j
    BY <1>1, SMT
  <2>2. p[2 * j] = <<<<"spec", "snap">>[1 + ((2 * j - 1) % 2)], Paras[(2 * j + 1) \div 2]>>
    BY <2>1 DEF PerPara
  <2>3. p[2 * j] = <<"snap", Paras[j]>>
    BY <2>1, <2>2
  <2> QED BY <2>1, <2>3
<1> HIDE DEF p, a, n
<1>7. /\ \A i \in 1 .. 2 * n : n + i \in DOMAIN BiteFiles /\ BiteFiles[n + i] = p[i]
      /\ \A i \in 1 .. 3 : n + 2 * n + i \in DOMAIN BiteFiles /\ BiteFiles[n + 2 * n + i] = b[i]
  <2> DEFINE S == {"spec", "snap", "over"} \X Chains
  <2>1. a \in Seq(S) /\ p \in Seq(S) /\ b \in Seq(S)
    BY <1>2, <1>3, FileFacts
  <2>2. Len(a) = n /\ Len(p) = 2 * n /\ Len(b) = 3
    BY <1>2, <1>3
  <2> DEFINE ap == a \o p
  <2>3. BiteFiles = ap \o b
    BY <1>4
  <2> HIDE DEF b, S
  <2>4. /\ ap \in Seq(S) /\ Len(ap) = Len(a) + Len(p)
        /\ \A i \in 1 .. Len(p) : Len(a) + i \in 1 .. Len(ap) /\ ap[Len(a) + i] = p[i]
    BY <2>1, ConcatAt
  <2> HIDE DEF ap
  <2>5. /\ Len(BiteFiles) = Len(ap) + Len(b)
        /\ \A i \in 1 .. Len(ap) : i \in 1 .. Len(BiteFiles) /\ BiteFiles[i] = ap[i]
        /\ \A i \in 1 .. Len(b) : Len(ap) + i \in 1 .. Len(BiteFiles) /\ BiteFiles[Len(ap) + i] = b[i]
    <3>1. ap \in Seq(S) /\ b \in Seq(S) /\ BiteFiles = ap \o b
      BY <2>1, <2>3, <2>4
    <3> QED BY <3>1, ConcatAt
  <2>6. DOMAIN BiteFiles = 1 .. Len(BiteFiles)
    BY ListsTyped
  <2> QED BY <2>2, <2>4, <2>5, <2>6
<1>8. ASSUME NEW f \in BiteRefs, f[2] = RC PROVE \E i \in DOMAIN BiteFiles : BiteFiles[i] = f
  <2>1. f = b[2] \/ f = b[3]
    BY <1>8 DEF BiteRefs
  <2> QED BY <1>7, <2>1
<1>9. ASSUME NEW f \in BiteRefs, f[2] # RC PROVE \E i \in DOMAIN BiteFiles : BiteFiles[i] = f
  <2>1. PICK j \in 1 .. n : f = <<"spec", Paras[j]>> \/ f = <<"snap", Paras[j]>>
    BY <1>1, <1>9 DEF BiteRefs, Chains, ParaSet
  <2> QED BY <1>5, <1>6, <1>7, <2>1
<1> QED BY <1>8, <1>9

-----------------------------------------------------------------------------
(* Steps that leave the files of the bite where they are.                  *)

BiteSame ==
  /\ live'["bite"] = NoDir <=> live["bite"] = NoDir
  /\ live["bite"] # NoDir => live'["bite"].file = live["bite"].file
  /\ debug'["bite"] = debug["bite"]
  /\ ready' = ready /\ announced' = announced

\* Commands on other steps, and the ends of all.
LEMMA Undisturbed ==
  ASSUME IInv', AInv, BiteSame, step' # "bite" \/ pc' \in {"idle", "panicked"}
  PROVE  AInv'
<1>1. /\ pc' \notin {"biteFiles", "biteConfig", "biteReady"}
      /\ ~(cmd' = "bite" /\ pc' \in CleanPcs)
  BY DEF IInv, CommandInv, CleanPcs
<1>2. QuietInv'
  BY <1>1 DEF QuietInv, Idle
<1>3. WrittenInv'
  BY <1>1 DEF WrittenInv
<1>4. MovedInv'
  <2>1. announced # 0 => ready = announced /\ \A f \in BiteRefs : Somewhere(f, announced)
    BY DEF AInv, MovedInv
  <2>2. \A f : Somewhere(f, announced) => Somewhere(f, announced)'
    BY DEF Somewhere, BiteSame
  <2> QED BY <1>1, <2>1, <2>2 DEF MovedInv, BiteSame, CleanPcs
<1> QED BY <1>2, <1>3, <1>4 DEF AInv

\* Nothing is announced.
LEMMA Unannounced ==
  ASSUME announced' = 0, pc' \notin {"biteFiles", "biteConfig", "biteReady"}
  PROVE  AInv'
BY DEF AInv, QuietInv, WrittenInv, MovedInv

LEMMA StartReady ==
  ASSUME IInv, IInv', AInv, Command
  PROVE  AInv'
<1>1. CASE StartBite
  <2>1. announced' = 0 /\ pc' = "biteFiles" /\ at' = 1
    BY <1>1 DEF StartBite, Start, Goto
  <2>2. BiteFiles' = BiteFiles /\ \A i \in DOMAIN BiteFiles : ~(i < 1)
    BY ListsTyped DEF BiteFiles, PerPara
  <2> QED BY <2>1, <2>2 DEF AInv, QuietInv, WrittenInv, MovedInv
<1>2. CASE StartSpawn \/ StartGenerate
  <2>1. step' # "bite" /\ UNCHANGED <<live, debug, ready, announced>>
    BY <1>2 DEF StartSpawn, StartGenerate, Start, dirs
  <2> QED BY <2>1, Undisturbed DEF BiteSame
<1>3. CASE StartCleanUp
  <2>1. /\ pc' = "removeDebug" /\ UNCHANGED <<live, debug, ready>>
        /\ announced' = IF step' = "bite" THEN 0 ELSE announced
    BY <1>3 DEF StartCleanUp, Start, Goto, dirs
  <2>2. CASE step' = "bite"
    BY <2>1, <2>2, Unannounced
  <2>3. CASE step' # "bite"
    BY <2>1, <2>3, Undisturbed DEF BiteSame
  <2> QED BY <2>2, <2>3
<1> QED BY <1>1, <1>2, <1>3 DEF Command

\* Only the config, or nothing, of the directory spawned from changes; the
\* command's own is not bite/.
LEMMA SpawnReady ==
  ASSUME IInv, IInv', AInv,
         \/ Resolve \/ Localize \/ Repoint \/ Load \/ Startup \/ LoopEnds \/ Teardown
         \/ GenConfigRead \/ GenFile \/ GenConfig \/ Publish \/ Finish
  PROVE  AInv'
<1>1. /\ step \in Step \ {"bite"} /\ step' = step /\ "bite" \in Step
      /\ UNCHANGED <<debug, ready, announced>>
      /\ live \in [Step -> DirOrNone] /\ DirFrom(step) \in Step
  <2>1. step # "bite"
    BY DEF IInv, CommandInv, Resolve, Localize, Repoint, Load, Startup, LoopEnds, Teardown,
           GenConfigRead, GenFile, GenConfig, Publish, Finish
  <2>2. step' = step /\ UNCHANGED <<debug, ready, announced>>
    BY DEF Resolve, Localize, Repoint, Load, Startup, LoopEnds, Teardown, GenConfigRead,
           GenFile, GenConfig, Publish, Finish, Panic, dirs, args
  <2> QED BY <2>1, <2>2, FromFacts DEF IInv, TypeOK, DirsOK, CommandOK, Step
<1>2. CASE Localize
  <2>1. live[DirFrom(step)] \in Dir
    BY <1>1, <1>2 DEF IInv, DirInv, Localize, DirOrNone
  <2>2. KeepOriginal(live[DirFrom(step)]).file = live[DirFrom(step)].file
    BY <2>1 DEF KeepOriginal, Dir
  <2>3. KeepOriginal(live[DirFrom(step)]) # NoDir
    <3>1. KeepOriginal(live[DirFrom(step)]) \in Dir
      BY <2>1 DEF KeepOriginal, NoConfig, Config, Dir
    <3> QED BY <3>1, DirTyped
  <2>4. live' = live \/ live' = [live EXCEPT ![DirFrom(step)] = KeepOriginal(@)]
    BY <1>2 DEF Localize, Panic, dirs
  <2> QED BY <1>1, <2>1, <2>2, <2>3, <2>4, DirTyped, Undisturbed DEF BiteSame
<1>3. CASE Repoint
  <2>1. live[DirFrom(step)] # NoDir /\ config \in Config
    BY <1>1, <1>3 DEF IInv, DirInv, TypeOK, CommandOK, Repoint
  <2>2. live' = SetConfig(DirFrom(step), config)
    BY <1>3 DEF Repoint
  <2>3. /\ live'[DirFrom(step)].file = live[DirFrom(step)].file
        /\ live'[DirFrom(step)] # NoDir
        /\ \A t \in Step \ {DirFrom(step)} : live'[t] = live[t]
    BY <1>1, <2>1, <2>2, SetConfigTyped, SetOthers, DirTyped
  <2> QED BY <1>1, <2>1, <2>3, Undisturbed DEF BiteSame
<1>4. CASE Resolve \/ Load \/ GenFile \/ GenConfig \/ Publish
  <2>1. live'["bite"] = live["bite"]
    <3>1. CASE Resolve
      BY <1>1, <3>1 DEF Resolve, MoveAside
    <3>2. CASE Load
      BY <1>1, <3>2 DEF Load, Panic, dirs
    <3>3. CASE GenFile
      BY <1>1, <3>3, GenFileDirs
    <3>4. CASE GenConfig
      BY <1>1, <3>4 DEF GenConfig, SetConfig, Panic, dirs
    <3>5. CASE Publish
      BY <1>1, <3>5 DEF Publish, PublishedIn
    <3> QED BY <1>4, <3>1, <3>2, <3>3, <3>4, <3>5
  <2> QED BY <1>1, <2>1, Undisturbed DEF BiteSame
<1>5. CASE Startup \/ LoopEnds \/ Teardown \/ GenConfigRead \/ Finish
  <2>1. live' = live
    BY <1>5 DEF Startup, LoopEnds, Teardown, GenConfigRead, Finish, Panic, dirs
  <2> QED BY <1>1, <2>1, Undisturbed DEF BiteSame
<1> QED BY <1>2, <1>3, <1>4, <1>5

-----------------------------------------------------------------------------
(* The bite.                                                               *)

LEMMA BiteFileReady ==
  ASSUME IInv, AInv, BiteFile
  PROVE  AInv'
<1> DEFINE f == BiteFiles[at]
<1>1. /\ pc = "biteFiles" /\ step = "bite" /\ "bite" \in Step /\ run \in Value
      /\ live["bite"] # NoDir /\ live \in [Step -> DirOrNone]
      /\ at \in DOMAIN BiteFiles /\ f \in File /\ announced = 0
  BY ListsTyped
  DEF BiteFile, IInv, TypeOK, DirsOK, CommandInv, PlaceInv, DirInv, Idle, Step, Value,
      AInv, QuietInv
<1>2. /\ announced' = announced /\ run' = run /\ live' = SetFile("bite", f, run)
      /\ IF at < Len(BiteFiles) THEN pc' = "biteFiles" /\ at' = at + 1
                                ELSE pc' = "biteConfig"
  BY <1>1 DEF BiteFile, Goto, args
<1>3. /\ live'["bite"] # NoDir
      /\ live'["bite"].file = [live["bite"].file EXCEPT ![f] = run]
      /\ live["bite"].file \in [File -> Value]
  BY <1>1, <1>2, SetFileTyped, DirTyped DEF DirOrNone
<1>4. ASSUME NEW i \in DOMAIN BiteFiles, i < at + 1
      PROVE  live'["bite"].file[BiteFiles[i]] = run
  <2>1. BiteFiles[i] \in File
    BY ListsTyped
  <2>2. i = at \/ i < at
    BY <1>1, <1>4, ListsTyped
  <2>3. i < at => live["bite"].file[BiteFiles[i]] = run
    BY <1>1 DEF AInv, WrittenInv
  <2> QED BY <1>3, <2>1, <2>2, <2>3
<1>5. BiteFiles' = BiteFiles
  BY DEF BiteFiles, PerPara
<1>6. pc' = "biteConfig" => All(live'["bite"], run)
  <2>1. ASSUME pc' = "biteConfig", NEW g \in BiteRefs
        PROVE  live'["bite"].file[g] = run
    <3>1. PICK i \in DOMAIN BiteFiles : BiteFiles[i] = g
      BY BiteFilesCover
    <3>2. i < at + 1
      BY <1>1, <1>2, <2>1, ListsTyped
    <3> QED BY <1>4, <3>1, <3>2
  <2> QED BY <1>3, <2>1 DEF All
<1>7. WrittenInv'
  BY <1>2, <1>4, <1>5, <1>6 DEF WrittenInv, All
<1> QED BY <1>1, <1>2, <1>7 DEF AInv, QuietInv, MovedInv

LEMMA BiteConfigReady ==
  ASSUME IInv, AInv, BiteConfig
  PROVE  AInv'
<1>1. /\ pc = "biteConfig" /\ "bite" \in Step
      /\ live["bite"] # NoDir /\ live \in [Step -> DirOrNone]
      /\ announced = 0 /\ All(live["bite"], run)
  BY DEF BiteConfig, IInv, TypeOK, DirsOK, CommandInv, DirInv, Idle, Step,
         AInv, QuietInv, WrittenInv
<1>2. /\ announced' = announced /\ run' = run /\ pc' = "biteReady"
      /\ live' = SetConfig("bite", Full(BiteRefs))
  BY DEF BiteConfig, Goto, args
<1>3. Full(BiteRefs) \in Config
  BY RefsFacts DEF Full, Config
<1>4. live'["bite"] # NoDir /\ live'["bite"].file = live["bite"].file
  BY <1>1, <1>2, <1>3, SetConfigTyped, DirTyped
<1> QED BY <1>1, <1>2, <1>4 DEF AInv, QuietInv, WrittenInv, MovedInv, All

LEMMA BiteReadyReady ==
  ASSUME IInv, AInv, BiteReady
  PROVE  AInv'
<1>1. All(live["bite"], run)
  BY DEF BiteReady, AInv, WrittenInv
<1>2. /\ announced' \in {ready', 0} /\ pc' = "removeDebug" /\ live' = live
      /\ cmd' = cmd /\ cmd = "bite"
      /\ announced' # 0 => announced' = run
  BY DEF BiteReady, Goto, args, IInv, CommandInv
<1>3. CASE announced' = 0
  BY <1>2, <1>3, Unannounced
<1>4. CASE announced' = run /\ ready' = run
  BY <1>1, <1>2, <1>4 DEF AInv, QuietInv, WrittenInv, MovedInv, All, Somewhere
<1> QED BY <1>2, <1>3, <1>4

-----------------------------------------------------------------------------
(* The clean-up.                                                           *)

\* Of another step, or by hand.
LEMMA CleanElsewhere ==
  ASSUME IInv, IInv', AInv, step # "bite" \/ cmd # "bite",
         RemoveDebug \/ RenameDir \/ CreateDir \/ MoveConfig \/ MoveFile
  PROVE  AInv'
<1>1. /\ pc \in CleanPcs /\ ~Idle /\ step \in Step /\ "bite" \in Step
      /\ live \in [Step -> DirOrNone] /\ debug \in [Step -> DirOrNone]
      /\ UNCHANGED <<ready, announced, step, cmd>>
      /\ pc' \in CleanPcs \cup {"publish", "idle", "panicked"}
  BY DEF RemoveDebug, RenameDir, CreateDir, MoveConfig, MoveFile, Panic, Goto, CleanPcs, Idle,
         dirs, args, IInv, TypeOK, DirsOK, CommandOK, Step
<1>2. CASE step = "bite"
  <2>1. cmd = "cleanup"
    BY <1>1, <1>2 DEF IInv, CommandInv
  <2>2. announced' = 0
    BY <1>1, <1>2, <2>1 DEF AInv, QuietInv
  <2> QED BY <1>1, <2>2, Unannounced DEF CleanPcs
<1>3. CASE step # "bite"
  <2>1. live'["bite"] = live["bite"] /\ debug'["bite"] = debug["bite"]
    <3>1. CASE RemoveDebug \/ RenameDir \/ CreateDir \/ MoveConfig
      BY <1>1, <1>3, <3>1 DEF RemoveDebug, RenameDir, CreateDir, MoveConfig, SetConfig, Panic, dirs
    <3>2. CASE MoveFile
      <4> DEFINE g == Needed[at]
      <4>0. pc = "moveFiles"
        BY <3>2, Zenon DEF MoveFile
      <4>1. g \in File
        BY <4>0, NeededTyped DEF IInv, PlaceInv
      <4>2. CASE Missing(g)
        BY <3>2, <4>2 DEF MoveFile, Panic, dirs
      <4>3. CASE ~Missing(g)
        BY <1>1, <1>3, <3>2, <4>1, <4>3, MoveFileDirs
      <4> QED BY <4>2, <4>3
    <3> QED BY <3>1, <3>2
  <2> QED BY <1>1, <1>3, <2>1, Undisturbed DEF BiteSame
<1> QED BY <1>2, <1>3

\* Of the bite.
LEMMA CleanBite ==
  ASSUME IInv, IInv', AInv, step = "bite", cmd = "bite",
         RemoveDebug \/ RenameDir \/ CreateDir \/ MoveConfig \/ MoveFile
  PROVE  AInv'
<1>1. /\ "bite" \in Step /\ ~Idle /\ pc \in CleanPcs
      /\ live \in [Step -> DirOrNone] /\ debug \in [Step -> DirOrNone]
      /\ UNCHANGED <<ready, announced, step, cmd>>
      /\ pc' \in CleanPcs \cup {"idle", "panicked"}
  BY DEF RemoveDebug, RenameDir, CreateDir, MoveConfig, MoveFile, Panic, Goto, CleanPcs, Idle,
         dirs, args, IInv, TypeOK, DirsOK, CommandOK, Step
<1>2. CASE Panic
  <2>1. BiteSame /\ pc' = "panicked"
    BY <1>2 DEF Panic, BiteSame, dirs
  <2> QED BY <2>1, Undisturbed
<1>3. CASE announced = 0
  BY <1>1, <1>3, Unannounced DEF CleanPcs
<1>4. ASSUME announced # 0, ~Panic, MovedInv' PROVE AInv'
  BY <1>1, <1>4 DEF AInv, QuietInv, WrittenInv, CleanPcs
<1>5. announced # 0 => /\ ready = announced
                       /\ \A f \in BiteRefs : Somewhere(f, announced)
  BY DEF AInv, MovedInv
<1>6. ASSUME announced # 0, ~Panic, RemoveDebug PROVE AInv'
  <2>1. /\ All(live["bite"], announced) /\ live' = live /\ pc' = "renameDir"
    BY <1>6 DEF RemoveDebug, Goto, AInv, MovedInv
  <2> QED BY <1>1, <1>4, <1>5, <1>6, <2>1 DEF MovedInv, All, Somewhere
<1>7. ASSUME announced # 0, ~Panic, RenameDir PROVE AInv'
  <2>1. All(live["bite"], announced) /\ pc' = "createDir" /\ debug' = [debug EXCEPT !["bite"] = live["bite"]]
    BY <1>7 DEF RenameDir, Goto, AInv, MovedInv
  <2>2. All(debug'["bite"], announced)
    BY <1>1, <2>1
  <2> QED BY <1>1, <1>4, <1>5, <1>7, <2>1, <2>2 DEF MovedInv, All, Somewhere
<1>8. ASSUME announced # 0, ~Panic, CreateDir PROVE AInv'
  <2>1. All(debug["bite"], announced) /\ pc' = "moveConfig" /\ debug' = debug
    BY <1>8 DEF CreateDir, Goto, AInv, MovedInv
  <2> QED BY <1>1, <1>4, <1>5, <1>8, <2>1 DEF MovedInv, All, Somewhere
<1>9. ASSUME announced # 0, ~Panic, MoveConfig PROVE AInv'
  <2>1. All(debug["bite"], announced) /\ pc' = "moveFiles"
    BY <1>9 DEF MoveConfig, Goto, AInv, MovedInv
  <2>2. debug' = [debug EXCEPT !["bite"].config = NoConfig]
    BY <1>9 DEF MoveConfig
  <2> DEFINE e == [debug["bite"] EXCEPT !.config = NoConfig]
  <2>3. /\ debug["bite"] \in Dir /\ e \in Dir /\ e.file = debug["bite"].file
    BY <1>1, <2>1 DEF All, DirOrNone, Dir, NoConfig, Config
  <2>4. debug'["bite"] = e
    BY <1>1, <2>2
  <2> HIDE DEF e
  <2>5. All(debug'["bite"], announced)
    BY <2>1, <2>3, <2>4, DirTyped DEF All
  <2> QED BY <1>1, <1>4, <1>5, <1>9, <2>1, <2>5 DEF MovedInv, All, Somewhere
<1>10. ASSUME announced # 0, ~Panic, MoveFile PROVE AInv'
  <2> DEFINE g == Needed[at]
  <2>1. /\ g \in File /\ pc = "moveFiles" /\ pc' \in {"moveFiles", "idle"}
        /\ live["bite"] # NoDir /\ debug["bite"] # NoDir
        /\ live["bite"].file \in [File -> Value] /\ debug["bite"].file \in [File -> Value]
    <3>0. pc = "moveFiles"
      BY <1>10, Zenon DEF MoveFile
    <3>1. g \in File /\ pc = "moveFiles"
      BY <3>0, NeededTyped DEF IInv, PlaceInv
    <3>2. live["bite"] # NoDir /\ debug["bite"] # NoDir
      BY <3>1 DEF IInv, DirInv
    <3>3. pc' \in {"moveFiles", "idle"}
      BY <1>10, <3>1, Zenon DEF MoveFile, Goto
    <3> QED BY <1>1, <3>1, <3>2, <3>3, DirTyped DEF DirOrNone
  <2>2. \A f \in BiteRefs : \/ debug["bite"].file[f] = announced
                            \/ debug["bite"].file[f] = Absent /\ live["bite"].file[f] = announced
    BY <1>10, <2>1 DEF AInv, MovedInv
  <2>3. ~Missing(g)
    BY <1>10 DEF MoveFile
  <2>4. /\ live'["bite"] # NoDir /\ debug'["bite"] # NoDir
        /\ live'["bite"].file = [live["bite"].file EXCEPT ![g] = debug["bite"].file[g]]
        /\ debug'["bite"].file = [debug["bite"].file EXCEPT ![g] = Absent]
    BY <1>10, <2>1, <2>3, MoveFileDirs
  <2>5. \A f \in BiteRefs : f \in File /\ f[1] # "over"
    BY RefsFacts DEF BiteRefs
  <2>6. \A f \in BiteRefs : \/ debug'["bite"].file[f] = announced
                            \/ debug'["bite"].file[f] = Absent /\ live'["bite"].file[f] = announced
    <3> TAKE f \in BiteRefs
    <3>1. CASE f = g
      <4>1. debug["bite"].file[g] # Absent
        BY <1>1, <2>3, <2>5, <3>1 DEF Missing
      <4> QED BY <2>1, <2>2, <2>4, <2>5, <3>1, <4>1
    <3>2. CASE f # g
      BY <2>1, <2>2, <2>4, <2>5, <3>2
    <3> QED BY <3>1, <3>2
  <2> QED BY <1>1, <1>4, <1>5, <1>10, <2>1, <2>4, <2>6 DEF MovedInv, Somewhere
<1> QED BY <1>2, <1>3, <1>6, <1>7, <1>8, <1>9, <1>10

-----------------------------------------------------------------------------
LEMMA TornTyped ==
  /\ TornConfigs \subseteq Config
  /\ \A c \in TornConfigs : c.state = "torn"
BY FileFacts DEF TornConfigs, Config, File, Chains

\* A death, in a write or not.
LEMMA DieReady ==
  ASSUME IInv, IInv', AInv, Die
  PROVE  AInv'
<1>1. /\ pc' = "idle" /\ UNCHANGED <<debug, ready, announced>>
      /\ live \in [Step -> DirOrNone] /\ step \in Step /\ "bite" \in Step
  BY DEF Die, IInv, TypeOK, DirsOK, CommandOK, Step
<1>2. CASE live' = live
  BY <1>1, <1>2, Undisturbed DEF BiteSame
<1>3. CASE TornWrite
  <2>1. CASE pc \in {"biteFiles", "biteConfig"}
    <3>1. announced' = 0
      BY <1>1, <2>1 DEF AInv, QuietInv
    <3> QED BY <1>1, <3>1, Unannounced
  <2>2. CASE pc \in {"genFiles", "genConfig", "publish"}
    <3>1. step # "bite" /\ live'["bite"] = live["bite"]
      BY <1>1, <1>3, <2>2
      DEF TornWrite, SetFile, SetConfig, PublishedIn, IInv, CommandInv
    <3> QED BY <1>1, <3>1, Undisturbed DEF BiteSame
  <2>3. CASE pc = "repoint"
    <3>1. /\ \E c \in Config : live' = SetConfig(DirFrom(step), c)
          /\ DirFrom(step) \in Step /\ live[DirFrom(step)] # NoDir
      BY <1>1, <1>3, <2>3, FromFacts, TornTyped DEF TornWrite, IInv, DirInv
    <3>2. /\ live'[DirFrom(step)].file = live[DirFrom(step)].file
          /\ live'[DirFrom(step)] # NoDir
          /\ \A t \in Step \ {DirFrom(step)} : live'[t] = live[t]
      BY <1>1, <3>1, SetConfigTyped, SetOthers, DirTyped
    <3> QED BY <1>1, <3>1, <3>2, Undisturbed DEF BiteSame
  <2> QED BY <1>3, <2>1, <2>2, <2>3 DEF TornWrite
<1> QED BY <1>2, <1>3 DEF Die

\* The user, and the steps in which nothing changes.
LEMMA StillReady ==
  ASSUME AInv, TouchStop \/ UNCHANGED vars
  PROVE  AInv'
<1>1. UNCHANGED <<live, debug, ready, announced, pc, cmd, step, at, run>>
  BY DEF TouchStop, vars, dirs, args
<1>2. BiteFiles' = BiteFiles
  BY DEF BiteFiles, PerPara
<1>3. QuietInv' /\ WrittenInv'
  BY <1>1, <1>2 DEF AInv, QuietInv, WrittenInv, All, Idle
<1>4. MovedInv'
  BY <1>1 DEF AInv, MovedInv, All, Somewhere
<1> QED BY <1>3, <1>4 DEF AInv

LEMMA StepReady == IInv /\ IInv' /\ AInv /\ [Next]_vars => AInv'
<1> SUFFICES ASSUME IInv, IInv', AInv, [Next]_vars PROVE AInv'
  OBVIOUS
<1>1. CASE Command
  BY <1>1, StartReady
<1>2. CASE BiteFile \/ BiteConfig \/ BiteReady
  BY <1>2, BiteFileReady, BiteConfigReady, BiteReadyReady
<1>3. CASE \/ Resolve \/ Localize \/ Repoint \/ Load \/ Startup \/ LoopEnds \/ Teardown
           \/ GenConfigRead \/ GenFile \/ GenConfig \/ Publish \/ Finish
  BY <1>3, SpawnReady
<1>4. CASE RemoveDebug \/ RenameDir \/ CreateDir \/ MoveConfig \/ MoveFile
  BY <1>4, CleanElsewhere, CleanBite
<1>5. CASE Die
  BY <1>5, DieReady
<1>6. CASE TouchStop \/ Rest \/ UNCHANGED vars
  BY <1>6, StillReady DEF Rest
<1> QED BY <1>1, <1>2, <1>3, <1>4, <1>5, <1>6 DEF Next, Process

\* The files ready.json and the manifest announce are in bite/ or bite-debug/,
\* however far the clean-up got before the process died and whatever is run
\* then, until the next bite or a clean-up of bite/ by hand.
THEOREM AnnouncedExists == Spec => []ReadyHasArtifacts
<1>1. Init => AInv
  BY DEF Init, AInv, QuietInv, WrittenInv, MovedInv, Idle
<1>2. IInv /\ IInv' /\ AInv /\ [Next]_vars => AInv'
  BY StepReady
<1>3. AInv => ReadyHasArtifacts
  BY DEF AInv, MovedInv, Somewhere, ReadyHasArtifacts
<1> QED BY <1>1, <1>2, <1>3, Inductive, PTL DEF Spec

-----------------------------------------------------------------------------
(* One state per directory.                                                *)

\* Snapshots, and the data they are made of.
StateFile == {f \in File : f[1] \in {"snap", "alice", "bob", "data"}}

\* d holds the state of r, or nothing complete.
Of(d, r) == d # NoDir => \A f \in StateFile : d.file[f] \in {Absent, Torn, r}

\* A step's directory always holds one state at most; bite/ may be a mixture of
\* bites that died, which no config names, and never holds a validator's.
OneState(s, d) ==
  /\ s # "bite" \/ HasConfig(d) => \E r \in Value : Of(d, r)
  /\ s = "bite" /\ d # NoDir => \A f \in StateFile : f[1] # "snap" => d.file[f] = Absent

SingleInv == \A s \in Step : OneState(s, live[s]) /\ OneState(s, debug[s])

\* What the running command has yet to rely on.
RelyInv ==
  /\ pc \in {"biteFiles", "biteConfig"} => ~HasConfig(live["bite"])
  /\ pc = "repoint" =>
       /\ live[DirFrom(step)].original = config
       /\ config.state = "full" => \E r \in Value : Of(live[DirFrom(step)], r)
  /\ pc \in {"localize", "repoint", "load"} => live[step] = NoDir
  /\ pc \in {"startup", "loop"} => Loads(live[DirFrom(step)])
  /\ pc = "moveConfig" => live[step] = EmptyDir
  /\ pc = "moveFiles" /\ (step # "bite" \/ HasConfig(live[step])) =>
       \E r \in Value : Of(live[step], r) /\ Of(debug[step], r)

OInv == SingleInv /\ RelyInv

\* A directory with the files it had, and no config it did not have.
LEMMA OneStateSame ==
  ASSUME NEW s \in Step, NEW d \in Dir, NEW e \in Dir, OneState(s, d),
         e.file = d.file, HasConfig(e) => HasConfig(d)
  PROVE  OneState(s, e)
<1>1. d # NoDir /\ e # NoDir
  BY DirTyped
<1> QED BY <1>1 DEF OneState, Of

LEMMA OneStateEmpty == \A s \in Step : OneState(s, NoDir) /\ OneState(s, EmptyDir)
<1>1. Absent \in Value /\ StateFile \subseteq File
  BY DEF Value, StateFile
<1>2. \A f \in File : EmptyDir.file[f] = Absent
  BY DEF EmptyDir
<1>3. Of(NoDir, Absent) /\ Of(EmptyDir, Absent)
  BY <1>1, <1>2 DEF Of
<1> QED BY <1>1, <1>2, <1>3 DEF OneState

\* One directory changes.
LEMMA OneDir ==
  ASSUME SingleInv, NEW s \in Step, OneState(s, live'[s]), debug' = debug,
         \A t \in Step \ {s} : live'[t] = live[t]
  PROVE  SingleInv'
BY DEF SingleInv

\* No directory changes.
LEMMA NoDirs ==
  ASSUME SingleInv, UNCHANGED <<live, debug>>
  PROVE  SingleInv'
BY DEF SingleInv

\* The places at which nothing is relied on.
FreePcs == {"idle", "panicked", "biteReady", "resolve", "teardown", "genConfigRead", "genFiles",
            "genConfig", "removeDebug", "renameDir", "createDir", "publish", "finish"}

LEMMA FreeRely == pc' \in FreePcs => RelyInv'
BY DEF RelyInv, FreePcs

\* Every file a bite writes is of the bite's kinds.
LEMMA BiteKinds ==
  \A i \in DOMAIN BiteFiles : BiteFiles[i] \in File /\ BiteFiles[i][1] \in {"spec", "snap", "over"}
<1> DEFINE S == {"spec", "snap", "over"} \X Chains
<1> DEFINE a == [i \in 1 .. Len(Paras) |-> <<"over", Paras[i]>>]
<1>1. Len(Paras) \in Nat /\ DOMAIN Paras = 1 .. Len(Paras)
  BY ChainsAssumption
<1>2. a \in Seq(S)
  BY <1>1 DEF ParaSet, Chains
<1>3. PerPara(<<"spec", "snap">>) \in Seq(S)
  <2>1. <<"spec", "snap">> \in [1 .. 2 -> {"spec", "snap", "over"}]
    OBVIOUS
  <2> QED BY <2>1, PerParaTyped DEF Chains
<1>4. <<<<"over", RC>>, <<"spec", RC>>, <<"snap", RC>>>> \in Seq(S)
  BY DEF Chains
<1>5. BiteFiles \in Seq(S)
  BY <1>2, <1>3, <1>4 DEF BiteFiles
<1> QED BY <1>5 DEF File

-----------------------------------------------------------------------------
LEMMA StartOne ==
  ASSUME IInv, OInv, ~Reuse, Command
  PROVE  OInv'
<1>1. CASE StartBite
  <2>1. /\ live' = [live EXCEPT !["bite"] = Ensured(@)] /\ debug' = debug /\ pc' = "biteFiles"
        /\ ~HasConfig(live["bite"]) /\ "bite" \in Step /\ live \in [Step -> DirOrNone]
    BY <1>1 DEF StartBite, Start, Goto, Step, IInv, TypeOK, DirsOK
  <2>2. OneState("bite", live'["bite"])
    BY <2>1, OneStateEmpty DEF Ensured, OInv, SingleInv
  <2>3. ~HasConfig(live'["bite"])
    BY <2>1 DEF Ensured, HasConfig, EmptyDir, NoConfig
  <2>4. \A t \in Step \ {"bite"} : live'[t] = live[t]
    BY <2>1
  <2> QED BY <2>1, <2>2, <2>3, <2>4, OneDir DEF OInv, RelyInv
<1>2. CASE StartSpawn \/ StartGenerate \/ StartCleanUp
  <2>1. UNCHANGED <<live, debug>> /\ pc' \in FreePcs
    BY <1>2 DEF StartSpawn, StartGenerate, StartCleanUp, Start, Goto, dirs, FreePcs
  <2> QED BY <2>1, NoDirs, FreeRely DEF OInv
<1> QED BY <1>1, <1>2 DEF Command

\* Steps that leave the directories alone.
LEMMA StillOne ==
  ASSUME IInv, OInv,
         \/ BiteReady \/ Startup \/ LoopEnds \/ Teardown \/ GenConfigRead \/ Finish \/ Panic
         \/ TouchStop \/ UNCHANGED vars
  PROVE  OInv'
<1>1. UNCHANGED <<live, debug, step>>
  BY DEF BiteReady, Startup, LoopEnds, Teardown, GenConfigRead, Finish, Panic, TouchStop, vars,
         dirs, args
<1>2. \/ pc' \in FreePcs
      \/ pc \in {"startup", "loop"} /\ pc' = "loop"
      \/ pc' = pc /\ config' = config
  BY DEF BiteReady, Startup, LoopEnds, Teardown, GenConfigRead, Finish, Panic, TouchStop, vars,
         Goto, FreePcs
<1>3. RelyInv'
  <2>1. CASE pc' \in FreePcs
    BY <2>1, FreeRely
  <2>2. CASE pc \in {"startup", "loop"} /\ pc' = "loop"
    BY <1>1, <2>2 DEF OInv, RelyInv
  <2>3. CASE pc' = pc /\ config' = config
    BY <1>1, <2>3 DEF OInv, RelyInv
  <2> QED BY <1>2, <2>1, <2>2, <2>3
<1> QED BY <1>1, <1>3, NoDirs DEF OInv

LEMMA BiteOne ==
  ASSUME IInv, AInv, OInv, BiteFile \/ BiteConfig
  PROVE  OInv'
<1>1. /\ pc \in {"biteFiles", "biteConfig"} /\ "bite" \in Step /\ run \in Run /\ run \in Value
      /\ live["bite"] # NoDir /\ live["bite"] \in Dir /\ live \in [Step -> DirOrNone]
      /\ ~HasConfig(live["bite"]) /\ OneState("bite", live["bite"]) /\ debug' = debug
  BY DEF BiteFile, BiteConfig, IInv, TypeOK, DirsOK, CommandInv, DirInv, DirOrNone, Idle, Step,
         Value, OInv, SingleInv, RelyInv
<1>2. CASE BiteFile
  <2> DEFINE f == BiteFiles[at]
  <2>1. /\ f \in File /\ f[1] \in {"spec", "snap", "over"}
        /\ live' = SetFile("bite", f, run) /\ pc' \in {"biteFiles", "biteConfig"}
    BY <1>2, BiteKinds DEF BiteFile, Goto, IInv, PlaceInv
  <2> HIDE DEF f
  <2>2. /\ live'["bite"] \in Dir
        /\ live'["bite"].file = [live["bite"].file EXCEPT ![f] = run]
        /\ live'["bite"].config = live["bite"].config
        /\ live'["bite"].original = live["bite"].original
        /\ \A t \in Step \ {"bite"} : live'[t] = live[t]
    BY <1>1, <2>1, SetFileTyped, SetOthers
  <2>3. ~HasConfig(live'["bite"])
    BY <1>1, <2>2, DirTyped DEF HasConfig
  <2>4. OneState("bite", live'["bite"])
    BY <1>1, <2>1, <2>2, <2>3, DirTyped DEF OneState, StateFile
  <2> QED BY <1>1, <2>1, <2>2, <2>3, <2>4, OneDir DEF OInv, RelyInv
<1>3. CASE BiteConfig
  <2>1. /\ live' = SetConfig("bite", Full(BiteRefs)) /\ Full(BiteRefs) \in Config
        /\ pc' = "biteReady" /\ All(live["bite"], run)
    BY <1>3, RefsFacts DEF BiteConfig, Goto, Full, Config, AInv, WrittenInv
  <2>2. /\ live'["bite"] \in Dir /\ live'["bite"].file = live["bite"].file
        /\ \A t \in Step \ {"bite"} : live'[t] = live[t]
    BY <1>1, <2>1, SetConfigTyped, SetOthers
  <2>3. \A f \in StateFile : f[1] = "snap" => f \in BiteRefs
    BY DEF StateFile, File, BiteRefs
  <2>4. \A f \in StateFile : live'["bite"].file[f] \in {Absent, run}
    BY <1>1, <2>1, <2>2, <2>3 DEF All, OneState
  <2>5. OneState("bite", live'["bite"])
    BY <1>1, <2>2, <2>4 DEF OneState, Of
  <2> QED BY <1>1, <2>1, <2>2, <2>5, OneDir, FreeRely DEF OInv, FreePcs
<1> QED BY <1>2, <1>3

-----------------------------------------------------------------------------
(* The spawn.                                                              *)

\* A spawn, or generate-artifacts, is at work, and where.
LEMMA SpawnPlace ==
  ASSUME IInv, \/ Resolve \/ Localize \/ Repoint \/ Load \/ GenFile \/ GenConfig \/ Publish
  PROVE  /\ step \in Step /\ step # "bite" /\ run \in Run /\ run \in Value
         /\ DirFrom(step) \in Step /\ DirFrom(step) # step
         /\ live \in [Step -> DirOrNone] /\ config \in Config
         /\ UNCHANGED <<step, debug>>
<1>1. /\ step # "bite" /\ ~Idle
  BY DEF IInv, CommandInv, Idle, Resolve, Localize, Repoint, Load, GenFile, GenConfig, Publish
<1>2. UNCHANGED <<step, debug>>
  BY DEF Resolve, Localize, Repoint, Load, GenFile, GenConfig, Publish, Panic, dirs, args
<1> QED BY <1>1, <1>2, FromFacts DEF IInv, TypeOK, DirsOK, CommandOK, CommandInv, Value

LEMMA ResolveOne ==
  ASSUME IInv, OInv, Resolve
  PROVE  OInv'
<1>1. /\ pc' = "localize" /\ live'[step] = NoDir
      /\ \A t \in Step \ {step} : live'[t] = live[t]
  BY SpawnPlace DEF Resolve, Goto, MoveAside
<1>2. SingleInv'
  BY <1>1, SpawnPlace, OneStateEmpty, OneDir DEF OInv
<1> QED BY <1>1, <1>2, SpawnPlace DEF OInv, RelyInv

LEMMA LocalizeOne ==
  ASSUME IInv, OInv, Localize
  PROVE  OInv'
<1> DEFINE from == DirFrom(step)
<1>1. /\ pc = "localize" /\ live[from] # NoDir /\ live[from] \in Dir /\ live[step] = NoDir
      /\ OneState(from, live[from])
  BY SpawnPlace DEF Localize, IInv, DirInv, DirOrNone, OInv, RelyInv, SingleInv
<1>2. CASE live[from].config.state = "none"
  <2>1. Panic
    BY <1>2 DEF Localize
  <2> QED BY <2>1, StillOne
<1>3. CASE live[from].config.state # "none" /\ live' = live
  <2>1. pc' = "load" \/ (pc' = "repoint" /\ live' = [live EXCEPT ![from] = KeepOriginal(@)])
    BY <1>3 DEF Localize, Goto
  <2>2. CASE pc' = "load"
    BY <1>1, <1>3, <2>2, SpawnPlace, NoDirs DEF OInv, RelyInv
  <2>3. CASE pc' = "repoint" /\ live' = [live EXCEPT ![from] = KeepOriginal(@)]
    <3>1. config' = live[from].config /\ live'[from] = KeepOriginal(live[from])
      BY <1>3, <2>3, SpawnPlace DEF Localize
    <3>2. live'[from].original = config'
      BY <1>1, <3>1 DEF KeepOriginal, Dir
    <3>3. config'.state = "full" => \E r \in Value : Of(live'[from], r)
      BY <1>1, <1>3, <3>1 DEF OneState, HasConfig
    <3> QED BY <1>1, <1>3, <2>3, <3>2, <3>3, SpawnPlace, NoDirs DEF OInv, RelyInv
  <2> QED BY <2>1, <2>2, <2>3
<1>4. CASE live[from].config.state # "none" /\ live' # live
  <2> DEFINE e == KeepOriginal(live[from])
  <2>1. pc' = "repoint" /\ live' = [live EXCEPT ![from] = e] /\ config' = live[from].config
    BY <1>4 DEF Localize, Goto
  <2>2. /\ e \in Dir /\ e.file = live[from].file /\ e.original = live[from].config
        /\ e.config = NoConfig
    BY <1>1 DEF KeepOriginal, Dir, NoConfig, Config
  <2>3. HasConfig(e) => HasConfig(live[from])
    BY <1>1, <2>2, DirTyped DEF HasConfig, NoConfig
  <2>4. OneState(from, e)
    BY <1>1, <2>2, <2>3, OneStateSame, SpawnPlace
  <2> HIDE DEF e
  <2>7. config'.state = "full" => \E r \in Value : Of(e, r)
    <3>1. config'.state = "full" => \E r \in Value : Of(live[from], r)
      BY <1>1, <2>1 DEF OneState, HasConfig
    <3> QED BY <1>1, <2>2, <3>1 DEF Of
  <2>5. /\ live'[from] = e /\ \A t \in Step \ {from} : live'[t] = live[t]
    BY <2>1, SpawnPlace
  <2>6. SingleInv'
    BY <2>4, <2>5, SpawnPlace, OneDir DEF OInv
  <2> QED BY <1>1, <2>1, <2>2, <2>5, <2>6, <2>7, SpawnPlace DEF OInv, RelyInv
<1> QED BY <1>2, <1>3, <1>4

LEMMA RepointOne ==
  ASSUME IInv, OInv, Repoint
  PROVE  OInv'
<1> DEFINE from == DirFrom(step)
<1>1. /\ pc = "repoint" /\ live[from] # NoDir /\ live[from] \in Dir /\ live[step] = NoDir
      /\ OneState(from, live[from]) /\ live[from].original = config
      /\ pc' = "load" /\ live' = SetConfig(from, config)
  BY SpawnPlace DEF Repoint, Goto, IInv, DirInv, DirOrNone, OInv, RelyInv, SingleInv
<1>2. /\ live'[from] \in Dir /\ live'[from].file = live[from].file
      /\ live'[from].config = config /\ live'[from].original = config
      /\ \A t \in Step \ {from} : live'[t] = live[t]
  BY <1>1, SpawnPlace, SetConfigTyped, SetOthers
<1>3. HasConfig(live'[from]) => \E r \in Value : Of(live'[from], r)
  <2>1. HasConfig(live'[from]) => \E r \in Value : Of(live[from], r)
    BY <1>1, <1>2 DEF HasConfig, OInv, RelyInv
  <2> QED BY <1>1, <1>2, <2>1 DEF Of
<1>4. OneState(from, live'[from])
  BY <1>1, <1>2, <1>3, SpawnPlace DEF OneState, Of
<1>5. SingleInv'
  BY <1>2, <1>4, SpawnPlace, OneDir DEF OInv
<1> QED BY <1>1, <1>2, <1>5, SpawnPlace DEF OInv, RelyInv

LEMMA LoadOne ==
  ASSUME IInv, OInv, Load
  PROVE  OInv'
<1>1. CASE ~Loads(live[DirFrom(step)])
  BY <1>1, StillOne DEF Load
<1>2. CASE Loads(live[DirFrom(step)])
  <2> DEFINE e == [EmptyDir EXCEPT !.file[<<"data", RC>>] = run]
  <2>1. live[step] = NoDir /\ pc' = "startup" /\ live' = [live EXCEPT ![step] = [Ensured(@) EXCEPT !.file[<<"data", RC>>] = run]]
    BY <1>2 DEF Load, Goto, OInv, RelyInv
  <2>2. live'[step] = e /\ \A t \in Step \ {step} : live'[t] = live[t]
    BY <2>1, SpawnPlace DEF Ensured
  <2>3. \A f \in File : e.file[f] \in {Absent, run}
    BY DEF EmptyDir
  <2> HIDE DEF e
  <2>4. OneState(step, live'[step])
    BY <2>2, <2>3, SpawnPlace DEF OneState, Of, StateFile
  <2>5. SingleInv'
    BY <2>2, <2>4, SpawnPlace, OneDir DEF OInv
  <2> QED BY <1>2, <2>1, <2>2, <2>5, SpawnPlace DEF OInv, RelyInv
<1> QED BY <1>1, <1>2

LEMMA GenOne ==
  ASSUME IInv, OInv, GenFile \/ GenConfig \/ Publish
  PROVE  OInv'
<1>1. /\ live[step] # NoDir \/ Panic
      /\ OneState(step, live[step])
  BY SpawnPlace DEF GenFile, GenConfig, Publish, IInv, DirInv, OInv, SingleInv
<1>2. CASE Panic
  BY <1>2, StillOne
<1>3. PICK r \in Value : Of(live[step], r)
  BY <1>1, SpawnPlace DEF OneState
<1>4. ASSUME ~Panic, GenFile PROVE OInv'
  <2> DEFINE f == TeardownFiles[at]
  <2>1. /\ \A t \in Step \ {step} : live'[t] = live[t]
        /\ f \in File /\ \A g \in File \ {f} : live'[step].file[g] = live[step].file[g]
        /\ f[1] # "spec" /\ live[step].file[<<"data", RC>>] # Absent
             => live'[step].file[f] = live[step].file[<<"data", RC>>]
    BY <1>4, GenFileDirs
  <2>2. /\ <<"data", RC>> \in StateFile /\ StateFile \subseteq File
        /\ live[step] # NoDir /\ live[step] \in Dir
    BY <1>1, <1>4, FileFacts, SpawnPlace DEF StateFile, DirOrNone
  <2>3. live[step].file[<<"data", RC>>] \in {Absent, Torn, r}
    BY <1>3, <2>2 DEF Of
  <2>4. ASSUME f[1] # "spec", live[step].file[<<"data", RC>>] = Absent
        PROVE  live'[step].file[f] = Torn
    <3>1. live' = SetFile(step, f, Torn)
      BY <1>4, <2>4 DEF GenFile
    <3>2. /\ step \in Step /\ Torn \in Value /\ live[step] # NoDir /\ f \in File
          /\ live \in [Step -> DirOrNone]
      BY <1>4, <2>1, <2>2, SpawnPlace DEF Value
    <3> HIDE DEF f
    <3>3. SetFile(step, f, Torn)[step].file = [live[step].file EXCEPT ![f] = Torn]
      BY <3>2, SetFileTyped
    <3>4. live'[step].file = [live[step].file EXCEPT ![f] = Torn]
      BY <3>1, <3>3
    <3> QED BY <2>1, <2>2, <3>4, DirTyped
  <2>5. \A g \in StateFile : live'[step].file[g] \in {Absent, Torn, r}
    <3> TAKE g \in StateFile
    <3>1. CASE g = f
      BY <2>1, <2>3, <2>4, <3>1 DEF StateFile
    <3>2. CASE g # f
      BY <1>3, <2>1, <2>2, <3>2 DEF Of
    <3> QED BY <3>1, <3>2
  <2>6. OneState(step, live'[step])
    BY <2>5, SpawnPlace DEF OneState, Of
  <2>7. pc' \in FreePcs
    BY <1>4 DEF GenFile, Goto, FreePcs
  <2> QED BY <2>1, <2>6, <2>7, SpawnPlace, OneDir, FreeRely DEF OInv
<1>5. ASSUME ~Panic, GenConfig PROVE OInv'
  <2>1. PICK c \in Config : live' = SetConfig(step, c)
    BY <1>5, RefsFacts, SpawnPlace DEF GenConfig, Full, Config
  <2>2. /\ live[step] # NoDir
    BY <1>1, <1>5
  <2>3. /\ live'[step].file = live[step].file
        /\ \A t \in Step \ {step} : live'[t] = live[t]
    BY <2>1, <2>2, SetConfigTyped, SetOthers, SpawnPlace
  <2>4. OneState(step, live'[step])
    BY <1>3, <2>2, <2>3, SpawnPlace DEF OneState, Of
  <2>5. pc' \in FreePcs
    BY <1>5 DEF GenConfig, Goto, FreePcs
  <2> QED BY <2>3, <2>4, <2>5, SpawnPlace, OneDir, FreeRely DEF OInv
<1>6. ASSUME ~Panic, Publish PROVE OInv'
  <2>1. live[step] # NoDir /\ live[step] \in Dir
    BY <1>1, <1>6, SpawnPlace DEF DirOrNone
  <2>2. /\ live'[step].file = live[step].file
        /\ \A t \in Step \ {step} : live'[t] = live[t]
    <3>1. CASE live' = live
      BY <3>1
    <3>2. CASE live' # live
      <4>1. PICK b : live' = [live EXCEPT ![step].boots = b]
        BY <1>6, <3>2 DEF Publish, PublishedIn
      <4>2. live'[step] = [live[step] EXCEPT !.boots = b]
        BY <4>1, SpawnPlace
      <4> QED BY <2>1, <4>1, <4>2, SpawnPlace DEF Dir
    <3> QED BY <3>1, <3>2
  <2>3. OneState(step, live'[step])
    BY <1>3, <2>1, <2>2, SpawnPlace DEF OneState, Of
  <2>4. pc' \in FreePcs
    BY <1>6 DEF Publish, Goto, FreePcs
  <2> QED BY <2>2, <2>3, <2>4, SpawnPlace, OneDir, FreeRely DEF OInv
<1> QED BY <1>2, <1>4, <1>5, <1>6

-----------------------------------------------------------------------------
(* The clean-up, and the end of a command.                                 *)

LEMMA CleanDirsOne ==
  ASSUME IInv, OInv, RemoveDebug \/ RenameDir \/ CreateDir
  PROVE  OInv'
<1>1. /\ step \in Step /\ live \in [Step -> DirOrNone] /\ debug \in [Step -> DirOrNone]
      /\ step' = step
  BY DEF IInv, TypeOK, DirsOK, CommandOK, RemoveDebug, RenameDir, CreateDir, Panic, args
<1>2. CASE Panic
  BY <1>2, StillOne
<1>3. ASSUME ~Panic
      PROVE  \A t \in Step :
               /\ t # step => live'[t] = live[t] /\ debug'[t] = debug[t]
               /\ live'[step] \in {live[step], NoDir, EmptyDir}
               /\ debug'[step] \in {debug[step], NoDir, live[step]}
  BY <1>1, <1>3 DEF RemoveDebug, RenameDir, CreateDir
<1>4. ASSUME ~Panic PROVE SingleInv'
  BY <1>1, <1>3, <1>4, OneStateEmpty DEF OInv, SingleInv
<1>5. ASSUME ~Panic PROVE RelyInv'
  <2>1. CASE CreateDir
    <3>1. pc' = "moveConfig" /\ live'[step] = EmptyDir
      BY <1>1, <2>1 DEF CreateDir, Goto
    <3> QED BY <1>1, <3>1 DEF RelyInv
  <2>2. CASE ~CreateDir
    <3>1. pc' \in FreePcs
      BY <1>5, <2>2 DEF RemoveDebug, RenameDir, Goto, FreePcs
    <3> QED BY <3>1, FreeRely
  <2> QED BY <2>1, <2>2
<1> QED BY <1>2, <1>4, <1>5 DEF OInv

LEMMA MoveConfigOne ==
  ASSUME IInv, OInv, MoveConfig
  PROVE  OInv'
<1> DEFINE c == debug[step].config
<1>1. /\ step \in Step /\ live \in [Step -> DirOrNone] /\ debug \in [Step -> DirOrNone]
      /\ live[step] = EmptyDir /\ debug[step] # NoDir /\ debug[step] \in Dir /\ c \in Config
      /\ EmptyDir \in Dir /\ EmptyDir # NoDir
      /\ step' = step /\ OneState(step, debug[step])
  BY DirTyped
  DEF IInv, TypeOK, DirsOK, CommandOK, DirInv, DirOrNone, MoveConfig, Panic, args, Dir,
      OInv, SingleInv, RelyInv
<1>2. CASE c.state = "none"
  BY <1>2, StillOne DEF MoveConfig
<1>3. CASE c.state # "none"
  <2> DEFINE e == [debug[step] EXCEPT !.config = NoConfig]
  <2>1. /\ pc' = "moveFiles" /\ live' = SetConfig(step, c)
        /\ debug' = [debug EXCEPT ![step].config = NoConfig]
    BY <1>3 DEF MoveConfig, Goto
  <2>2. /\ debug'[step] = e /\ \A t \in Step \ {step} : debug'[t] = debug[t]
    BY <1>1, <2>1
  <2>3. /\ e \in Dir /\ e.file = debug[step].file
        /\ e.config = NoConfig /\ e.original = debug[step].original
    BY <1>1 DEF Dir, NoConfig, Config
  <2> HIDE DEF c, e
  <2>4. /\ live'[step] \in Dir /\ live'[step].file = EmptyDir.file
        /\ live'[step].config = c /\ live'[step].original = NoConfig
        /\ \A t \in Step \ {step} : live'[t] = live[t]
    <3>1. EmptyDir.original = NoConfig
      BY DEF EmptyDir
    <3> QED BY <1>1, <2>1, <3>1, SetConfigTyped, SetOthers
  <2>5. HasConfig(e) \/ HasConfig(live'[step]) => HasConfig(debug[step])
    BY <1>1, <2>3, <2>4, DirTyped DEF HasConfig, NoConfig, c
  <2>6. ASSUME step # "bite" \/ HasConfig(live'[step])
        PROVE  \E r \in Value : Of(live'[step], r) /\ Of(debug'[step], r)
    <3>1. PICK r \in Value : Of(debug[step], r)
      BY <1>1, <2>5, <2>6 DEF OneState
    <3>2. \A f \in StateFile : EmptyDir.file[f] = Absent
      BY DEF EmptyDir, StateFile
    <3> QED BY <1>1, <2>2, <2>3, <2>4, <3>1, <3>2 DEF Of
  <2>7. OneState(step, live'[step])
    <3>1. \A f \in StateFile : live'[step].file[f] = Absent
      BY <2>4 DEF EmptyDir, StateFile
    <3> QED BY <2>6, <3>1 DEF OneState
  <2>8. OneState(step, debug'[step])
    BY <1>1, <2>2, <2>3, <2>5, OneStateSame
  <2>9. SingleInv'
    BY <1>1, <2>2, <2>4, <2>7, <2>8 DEF OInv, SingleInv
  <2> QED BY <1>1, <2>1, <2>6, <2>9 DEF OInv, RelyInv
<1> QED BY <1>2, <1>3

LEMMA MoveFileOne ==
  ASSUME IInv, OInv, MoveFile
  PROVE  OInv'
<1> DEFINE f == Needed[at]
<1> DEFINE found == debug[step].file[f]
<1>0. pc = "moveFiles"
  BY Zenon DEF MoveFile
<1>1. /\ f \in File /\ step \in Step /\ step' = step
      /\ live \in [Step -> DirOrNone] /\ debug \in [Step -> DirOrNone]
      /\ live[step] # NoDir /\ debug[step] # NoDir /\ live[step] \in Dir /\ debug[step] \in Dir
      /\ OneState(step, live[step]) /\ OneState(step, debug[step])
  BY <1>0, NeededTyped
  DEF IInv, TypeOK, DirsOK, CommandOK, PlaceInv, DirInv, DirOrNone, MoveFile, Panic, args,
      OInv, SingleInv
<1>2. CASE Missing(f)
  BY <1>2, StillOne DEF MoveFile
<1>3. CASE ~Missing(f)
  <2>1. /\ live'[step] # NoDir /\ debug'[step] # NoDir
        /\ live'[step].config = live[step].config /\ live'[step].original = live[step].original
        /\ live'[step].file = [live[step].file EXCEPT ![f] = found]
        /\ \A t \in Step \ {step} : live'[t] = live[t]
        /\ debug'[step].config = debug[step].config /\ debug'[step].original = debug[step].original
        /\ debug'[step].file = [debug[step].file EXCEPT ![f] = Absent]
        /\ \A t \in Step \ {step} : debug'[t] = debug[t]
    BY <1>1, <1>3, MoveFileDirs
  <2>2. pc' = "moveFiles" \/ pc' \in FreePcs
    BY <1>0, <1>3, Zenon DEF MoveFile, Goto, FreePcs
  <2> HIDE DEF f
  <2>3. /\ live[step].file \in [File -> Value] /\ debug[step].file \in [File -> Value]
        /\ StateFile \subseteq File
    BY <1>1, DirTyped DEF StateFile
  <2>4. /\ HasConfig(live'[step]) <=> HasConfig(live[step])
        /\ HasConfig(debug'[step]) <=> HasConfig(debug[step])
    BY <1>1, <2>1 DEF HasConfig
  <2>5. ASSUME step # "bite" \/ HasConfig(live'[step])
        PROVE  \E r \in Value : Of(live'[step], r) /\ Of(debug'[step], r)
    <3>1. PICK r \in Value : Of(live[step], r) /\ Of(debug[step], r)
      BY <1>0, <2>4, <2>5 DEF OInv, RelyInv
    <3>2. \A g \in StateFile : live'[step].file[g] \in {Absent, Torn, r}
      BY <1>1, <2>1, <2>3, <3>1 DEF Of
    <3>3. \A g \in StateFile : debug'[step].file[g] \in {Absent, Torn, r}
      BY <1>1, <2>1, <2>3, <3>1 DEF Of
    <3> QED BY <3>2, <3>3 DEF Of
  <2>6. OneState(step, live'[step])
    <3>1. step = "bite" => \A g \in StateFile : g[1] # "snap" => live'[step].file[g] = Absent
      BY <1>1, <2>1, <2>3 DEF OneState
    <3> QED BY <2>5, <3>1 DEF OneState
  <2>7. OneState(step, debug'[step])
    <3>1. step = "bite" => \A g \in StateFile : g[1] # "snap" => debug'[step].file[g] = Absent
      BY <1>1, <2>1, <2>3 DEF OneState
    <3>2. ASSUME NEW r \in Value, Of(debug[step], r) PROVE Of(debug'[step], r)
      BY <1>1, <2>1, <2>3, <3>2 DEF Of
    <3> QED BY <1>1, <2>4, <3>1, <3>2 DEF OneState
  <2>8. SingleInv'
    BY <1>1, <2>1, <2>6, <2>7 DEF OInv, SingleInv
  <2>9. RelyInv'
    <3>1. CASE pc' = "moveFiles"
      BY <1>1, <2>5, <3>1 DEF RelyInv
    <3>2. CASE pc' \in FreePcs
      BY <3>2, FreeRely
    <3> QED BY <2>2, <3>1, <3>2
  <2> QED BY <2>8, <2>9 DEF OInv
<1> QED BY <1>2, <1>3

\* A death leaves a part of what was there.
LEMMA DieOne ==
  ASSUME IInv, OInv, Die
  PROVE  OInv'
<1>1. /\ pc' \in FreePcs /\ debug' = debug /\ step \in Step /\ "bite" \in Step
      /\ live \in [Step -> DirOrNone] /\ DirFrom(step) \in Step
  BY FromFacts DEF Die, FreePcs, IInv, TypeOK, DirsOK, CommandOK, Step
<1>2. CASE live' = live
  BY <1>1, <1>2, NoDirs, FreeRely DEF OInv
<1>3. ASSUME NEW s \in Step, live[s] # NoDir, NEW f \in File, live' = SetFile(s, f, Torn),
             s = "bite" => f \notin StateFile \/ f[1] = "snap"
      PROVE  OInv'
  <2>1. Torn \in Value /\ live[s] \in Dir /\ OneState(s, live[s])
    BY <1>1, <1>3 DEF Value, DirOrNone, OInv, SingleInv
  <2>2. /\ live'[s] \in Dir
        /\ live'[s].file = [live[s].file EXCEPT ![f] = Torn]
        /\ live'[s].config = live[s].config /\ live'[s].original = live[s].original
        /\ \A t \in Step \ {s} : live'[t] = live[t]
    BY <1>1, <1>3, <2>1, SetFileTyped, SetOthers
  <2>3. HasConfig(live'[s]) <=> HasConfig(live[s])
    BY <1>3, <2>2, DirTyped DEF HasConfig
  <2>4. live[s].file \in [File -> Value] /\ StateFile \subseteq File
    BY <2>1, DirTyped DEF StateFile
  <2>5. ASSUME NEW r \in Value, Of(live[s], r) PROVE Of(live'[s], r)
    BY <1>3, <2>2, <2>4, <2>5 DEF Of
  <2>6. OneState(s, live'[s])
    BY <1>3, <2>1, <2>2, <2>3, <2>4, <2>5 DEF OneState
  <2> QED BY <1>1, <2>2, <2>6, OneDir, FreeRely DEF OInv
<1>4. ASSUME NEW s \in Step, live[s] # NoDir, NEW c \in TornConfigs, live' = SetConfig(s, c)
      PROVE  OInv'
  <2>1. c \in Config /\ live[s] \in Dir /\ OneState(s, live[s])
    BY <1>1, <1>4, TornTyped DEF DirOrNone, OInv, SingleInv
  <2>2. /\ live'[s] \in Dir /\ live'[s].file = live[s].file
        /\ live'[s].config = c /\ live'[s].original = live[s].original
        /\ \A t \in Step \ {s} : live'[t] = live[t]
    BY <1>1, <1>4, <2>1, SetConfigTyped, SetOthers
  <2>3. HasConfig(live'[s]) => HasConfig(live[s])
    BY <1>4, <2>2, TornTyped DEF HasConfig
  <2>4. OneState(s, live'[s])
    BY <2>1, <2>2, <2>3, OneStateSame
  <2> QED BY <1>1, <2>2, <2>4, OneDir, FreeRely DEF OInv
<1>5. CASE TornWrite
  <2>1. CASE pc = "biteFiles"
    <3>1. /\ live' = SetFile("bite", BiteFiles[at], Torn) /\ at \in DOMAIN BiteFiles
          /\ live["bite"] # NoDir
      BY <1>5, <2>1 DEF TornWrite, IInv, PlaceInv, CommandInv, DirInv
    <3>2. BiteFiles[at] \in File /\ BiteFiles[at][1] \in {"spec", "snap", "over"}
      BY <3>1, BiteKinds
    <3> QED BY <1>1, <1>3, <3>1, <3>2 DEF StateFile
  <2>2. CASE pc = "genFiles"
    BY <1>1, <1>3, <1>5, <2>2, ListsTyped DEF TornWrite, IInv, PlaceInv, CommandInv, DirInv
  <2>3. CASE pc \in {"biteConfig", "genConfig", "repoint"}
    <3>1. PICK s \in Step, c \in TornConfigs : live[s] # NoDir /\ live' = SetConfig(s, c)
      BY <1>1, <1>5, <2>3 DEF TornWrite, IInv, CommandInv, DirInv
    <3> QED BY <1>4, <3>1
  <2>4. CASE pc = "publish"
    BY <1>1, <1>3, <1>5, <2>4, FileFacts DEF TornWrite, PublishedIn, IInv, CommandInv, DirInv
  <2> QED BY <1>5, <2>1, <2>2, <2>3, <2>4 DEF TornWrite
<1> QED BY <1>2, <1>5 DEF Die

LEMMA StepOne == IInv /\ AInv /\ OInv /\ ~Reuse /\ [Next]_vars => OInv'
<1> SUFFICES ASSUME IInv, AInv, OInv, ~Reuse, [Next]_vars PROVE OInv'
  OBVIOUS
<1>1. CASE Command
  BY <1>1, StartOne
<1>2. CASE BiteFile \/ BiteConfig
  BY <1>2, BiteOne
<1>3. CASE \/ BiteReady \/ Startup \/ LoopEnds \/ Teardown \/ GenConfigRead \/ Finish
           \/ TouchStop \/ Rest \/ UNCHANGED vars
  BY <1>3, StillOne DEF Rest
<1>4. CASE Resolve \/ Localize \/ Repoint \/ Load
  BY <1>4, ResolveOne, LocalizeOne, RepointOne, LoadOne
<1>5. CASE GenFile \/ GenConfig \/ Publish
  BY <1>5, GenOne
<1>6. CASE RemoveDebug \/ RenameDir \/ CreateDir \/ MoveConfig \/ MoveFile
  BY <1>6, CleanDirsOne, MoveConfigOne, MoveFileOne
<1>7. CASE Die
  BY <1>7, DieOne
<1> QED BY <1>1, <1>2, <1>3, <1>4, <1>5, <1>6, <1>7 DEF Next, Process

\* Where a network runs, its snapshots are of one moment.
LEMMA OneStateThere == IInv /\ OInv => RunsOnOneState
<1> SUFFICES ASSUME IInv, OInv, pc \in {"startup", "loop"},
                    NEW f \in Snapshots(live[DirFrom(step)].config.refs),
                    NEW g \in Snapshots(live[DirFrom(step)].config.refs)
             PROVE  live[DirFrom(step)].file[f] = live[DirFrom(step)].file[g]
  BY Zenon DEF RunsOnOneState
<1> DEFINE d == live[DirFrom(step)]
<1>1. /\ DirFrom(step) \in Step /\ d # NoDir /\ d \in Dir
      /\ Loads(d) /\ OneState(DirFrom(step), d)
  BY FromFacts DEF IInv, TypeOK, DirsOK, CommandOK, CommandInv, ArtifactInv, DirOrNone,
                   OInv, SingleInv, RelyInv
<1>2. d.config.refs \subseteq File /\ HasConfig(d)
  BY <1>1, DirTyped DEF Loads, HasConfig, Config
<1>3. PICK r \in Value : \A h \in StateFile : d.file[h] \in {Absent, Torn, r}
  BY <1>1, <1>2 DEF OneState, Of
<1>4. f \in StateFile /\ g \in StateFile /\ d.file[f] \in Run /\ d.file[g] \in Run
  BY <1>1, <1>2 DEF Snapshots, StateFile, Loads
<1>5. Absent \notin Run /\ Torn \notin Run
  BY StepBoundsAssumption DEF Absent, Torn, Run
<1> QED BY <1>3, <1>4, <1>5

\* A network starts from snapshots of one bite or of one run, whatever bites,
\* spawns and helper commands died before, if no bite is made over another.
THEOREM OneStateRuns == ~Reuse /\ Spec => []RunsOnOneState
<1> SUFFICES ASSUME ~Reuse PROVE Spec => []RunsOnOneState
  OBVIOUS
<1>1. Init => AInv
  BY DEF Init, AInv, QuietInv, WrittenInv, MovedInv, Idle
<1>2. Init => OInv
  BY OneStateEmpty DEF Init, OInv, SingleInv, RelyInv
<1>3. IInv /\ IInv' /\ AInv /\ [Next]_vars => AInv'
  BY StepReady
<1>4. IInv /\ AInv /\ OInv /\ [Next]_vars => OInv'
  BY StepOne
<1> QED BY <1>1, <1>2, <1>3, <1>4, OneStateThere, Inductive, PTL DEF Spec

-----------------------------------------------------------------------------
(* What a bite's directory, and the directory of a run, are made of.       *)

\* A bite's configs, as they are, renamed or torn.
BiteConfigs == {NoConfig, Full(BiteRefs)} \cup TornConfigs
Bitten(d) == d # NoDir => d.config \in BiteConfigs /\ d.original \in BiteConfigs

\* From its config to the end of its clean-up a bite has that config.
ConfigsInv ==
  /\ Bitten(live["bite"]) /\ Bitten(debug["bite"])
  /\ pc = "repoint" => live[DirFrom(step)].config = NoConfig
  /\ cmd = "bite" =>
       /\ pc \in {"biteReady", "removeDebug", "renameDir", "moveFiles"} =>
            live["bite"] # NoDir /\ live["bite"].config = Full(BiteRefs)
       /\ pc \in {"createDir", "moveConfig"} => debug["bite"].config = Full(BiteRefs)

RunningPcs == {"startup", "loop", "teardown", "genConfigRead", "genFiles"}

\* A run's specs are copies, and a clean-up puts each file where there is none.
CopiesInv ==
  /\ pc = "createDir" => live[step] = NoDir
  /\ cmd = "spawn" /\ pc \in RunningPcs =>
       \A f \in SpecFiles : live[step].file[f] \in {Absent, live[DirFrom(step)].file[f]}
  /\ pc = "moveFiles" =>
       \A f \in File :
         /\ live[step].file[f] # Absent => \E j \in DOMAIN Needed : j < at /\ Needed[j] = f
         /\ live[step].file[f] = Absent \/ debug[step].file[f] = Absent

CInv == ConfigsInv /\ CopiesInv

LEMMA BiteConfigsTyped ==
  /\ BiteConfigs \subseteq Config
  /\ NoConfig # Full(BiteRefs)
  /\ \A c \in BiteConfigs : c.state = "full" => c = Full(BiteRefs)
  /\ Full(BiteRefs).state = "full" /\ <<"snap", RC>> \in BiteRefs
  /\ Bitten(NoDir) /\ Bitten(EmptyDir)
BY RefsFacts, FileFacts, TornTyped
DEF BiteConfigs, NoConfig, Full, Config, Bitten, EmptyDir, BiteRefs

\* Nothing else is asked elsewhere.
LEMMA ConfigsKept ==
  ASSUME Bitten(live'["bite"]), Bitten(debug'["bite"]), pc' # "repoint",
         cmd' # "bite" \/ pc' \notin CleanPcs \cup {"biteReady"}
  PROVE  ConfigsInv'
BY DEF ConfigsInv, CleanPcs

LEMMA CopiesFree ==
  ASSUME pc' \notin RunningPcs \cup {"createDir", "moveFiles"}
  PROVE  CopiesInv'
BY DEF CopiesInv

\* A command begins, or a bite writes.
LEMMA BiteCopies ==
  ASSUME IInv, CInv, Command \/ BiteFile \/ BiteConfig \/ BiteReady
  PROVE  CInv'
<1>1. "bite" \in Step /\ live \in [Step -> DirOrNone] /\ Bitten(live["bite"]) /\ Bitten(debug["bite"])
  BY DEF IInv, TypeOK, DirsOK, Step, CInv, ConfigsInv
<1>2. CASE StartBite
  <2>1. live' = [live EXCEPT !["bite"] = Ensured(@)] /\ debug' = debug /\ pc' = "biteFiles"
    BY <1>2 DEF StartBite, Start, Goto
  <2>2. Bitten(live'["bite"])
    BY <1>1, <2>1, BiteConfigsTyped DEF Ensured
  <2> QED BY <1>1, <2>1, <2>2, ConfigsKept, CopiesFree DEF CInv, CleanPcs, RunningPcs
<1>3. CASE StartSpawn \/ StartGenerate \/ StartCleanUp
  <2>1. /\ UNCHANGED <<live, debug>> /\ pc' \in {"resolve", "genConfigRead", "removeDebug"}
        /\ cmd' \in {"spawn", "generate", "cleanup"} /\ (cmd' = "spawn" => pc' = "resolve")
    BY <1>3 DEF StartSpawn, StartGenerate, StartCleanUp, Start, Goto, dirs
  <2>2. CopiesInv'
    BY <2>1 DEF CopiesInv, RunningPcs
  <2> QED BY <1>1, <2>1, <2>2, ConfigsKept DEF CInv
<1>4. CASE BiteFile
  <2>1. /\ live["bite"] # NoDir /\ BiteFiles[at] \in File /\ run \in Value /\ pc = "biteFiles"
    BY <1>4, ListsTyped DEF BiteFile, IInv, CommandInv, PlaceInv, DirInv, Value, Idle
  <2>2. /\ live' = SetFile("bite", BiteFiles[at], run) /\ debug' = debug
        /\ pc' \in {"biteFiles", "biteConfig"}
    BY <1>4 DEF BiteFile, Goto
  <2>3. Bitten(live'["bite"])
    BY <1>1, <2>1, <2>2, SetFileTyped DEF Bitten
  <2> QED BY <1>1, <2>2, <2>3, ConfigsKept, CopiesFree DEF CInv, CleanPcs, RunningPcs
<1>5. CASE BiteConfig
  <2>1. live["bite"] # NoDir
    BY <1>5 DEF BiteConfig, IInv, CommandInv, DirInv
  <2>2. /\ live' = SetConfig("bite", Full(BiteRefs)) /\ debug' = debug /\ pc' = "biteReady"
    BY <1>5 DEF BiteConfig, Goto
  <2>3. Full(BiteRefs) \in Config
    BY RefsFacts DEF Full, Config
  <2>4. /\ live'["bite"] # NoDir /\ live'["bite"].config = Full(BiteRefs)
        /\ live'["bite"].original = live["bite"].original
    BY <1>1, <2>1, <2>2, <2>3, SetConfigTyped, DirTyped
  <2>5. Bitten(live'["bite"])
    BY <1>1, <2>1, <2>4 DEF Bitten, BiteConfigs
  <2>6. ConfigsInv'
    BY <1>1, <2>2, <2>4, <2>5 DEF ConfigsInv
  <2> QED BY <2>2, <2>6, CopiesFree DEF CInv, RunningPcs
<1>6. CASE BiteReady
  <2>1. UNCHANGED <<live, debug, cmd>> /\ pc = "biteReady" /\ pc' = "removeDebug"
    BY <1>6 DEF BiteReady, Goto, args
  <2>2. ConfigsInv'
    BY <1>1, <2>1 DEF CInv, ConfigsInv
  <2> QED BY <2>1, <2>2, CopiesFree DEF CInv, RunningPcs
<1> QED BY <1>2, <1>3, <1>4, <1>5, <1>6 DEF Command

-----------------------------------------------------------------------------
\* The steps of a spawn that change the config of the directory spawned from.
LEMMA RepointCopies ==
  ASSUME IInv, OInv, CInv, Localize \/ Repoint
  PROVE  CInv'
<1> DEFINE from == DirFrom(step)
<1>1. /\ "bite" \in Step /\ live[from] # NoDir /\ live[from] \in Dir /\ cmd = "spawn" /\ cmd' = cmd
      /\ Bitten(live["bite"]) /\ Bitten(debug["bite"])
  BY SpawnPlace
  DEF Localize, Repoint, Panic, args, IInv, CommandInv, DirInv, DirOrNone, Step, CInv, ConfigsInv
<1>2. CASE Localize
  <2> DEFINE e == KeepOriginal(live[from])
  <2>1. /\ pc' \in {"panicked", "load", "repoint"}
        /\ live' = live \/ live' = [live EXCEPT ![from] = e]
        /\ pc' = "repoint" => live' = [live EXCEPT ![from] = e]
    BY <1>2 DEF Localize, Panic, dirs, Goto
  <2>2. /\ e \in Dir /\ e.original = live[from].config /\ e.config = NoConfig
    BY <1>1 DEF KeepOriginal, Dir, NoConfig, Config
  <2>3. e # NoDir /\ (from = "bite" => Bitten(e))
    BY <1>1, <2>2, DirTyped DEF Bitten, BiteConfigs
  <2> HIDE DEF e
  <2>4. Bitten(live'["bite"]) /\ (pc' = "repoint" => live'[from].config = NoConfig)
    BY <1>1, <2>1, <2>2, <2>3, SpawnPlace
  <2>5. ConfigsInv'
    BY <1>1, <1>2, <2>1, <2>4, SpawnPlace DEF ConfigsInv
  <2> QED BY <2>1, <2>5, CopiesFree DEF CInv, RunningPcs
<1>3. CASE Repoint
  <2>1. /\ live' = SetConfig(from, config) /\ pc' = "load" /\ live[from].original = config
    BY <1>3 DEF Repoint, Goto, OInv, RelyInv
  <2>2. /\ live'[from].config = config /\ live'[from].original = config
        /\ \A t \in Step \ {from} : live'[t] = live[t]
    BY <1>1, <2>1, SpawnPlace, SetConfigTyped, SetOthers
  <2>3. Bitten(live'["bite"])
    BY <1>1, <2>1, <2>2 DEF Bitten
  <2> QED BY <1>1, <1>3, <2>1, <2>3, SpawnPlace, ConfigsKept, CopiesFree DEF CInv, RunningPcs
<1> QED BY <1>2, <1>3

\* The others leave bite/, and the directory spawned from, as they are.
LEMMA SpawnAlone ==
  ASSUME IInv,
         \/ Resolve \/ Load \/ Startup \/ LoopEnds \/ Teardown \/ GenConfigRead
         \/ GenFile \/ GenConfig \/ Publish \/ Finish
  PROVE  /\ step \in Step \ {"bite"} /\ step' = step /\ cmd' = cmd /\ cmd # "bite"
         /\ "bite" \in Step /\ debug' = debug
         /\ live \in [Step -> DirOrNone] /\ DirFrom(step) \in Step /\ DirFrom(step) # step
         /\ live'["bite"] = live["bite"]
         /\ live'[DirFrom(step)] = live[DirFrom(step)]
<1>1. /\ step \in Step \ {"bite"} /\ step' = step /\ cmd' = cmd /\ cmd # "bite"
      /\ "bite" \in Step /\ debug' = debug
      /\ live \in [Step -> DirOrNone] /\ DirFrom(step) \in Step /\ DirFrom(step) # step
  <2>1. step # "bite" /\ cmd # "bite"
    BY DEF IInv, CommandInv, Resolve, Load, Startup, LoopEnds, Teardown,
           GenConfigRead, GenFile, GenConfig, Publish, Finish
  <2>2. step' = step /\ cmd' = cmd /\ debug' = debug
    BY DEF Resolve, Load, Startup, LoopEnds, Teardown, GenConfigRead,
           GenFile, GenConfig, Publish, Finish, Panic, dirs, args
  <2> QED BY <2>1, <2>2, FromFacts DEF IInv, TypeOK, DirsOK, CommandOK, Step
<1>2. /\ live'["bite"] = live["bite"]
      /\ live'[DirFrom(step)] = live[DirFrom(step)]
  <2>1. CASE Resolve
    BY <1>1, <2>1 DEF Resolve, MoveAside
  <2>2. CASE Load
    BY <1>1, <2>2 DEF Load, Panic, dirs
  <2>3. CASE GenFile
    BY <1>1, <2>3, GenFileDirs
  <2>4. CASE GenConfig
    BY <1>1, <2>4 DEF GenConfig, SetConfig, Panic, dirs
  <2>5. CASE Publish
    BY <1>1, <2>5 DEF Publish, PublishedIn
  <2>6. CASE Startup \/ LoopEnds \/ Teardown \/ GenConfigRead \/ Finish
    BY <2>6 DEF Startup, LoopEnds, Teardown, GenConfigRead, Finish, Panic, dirs
  <2> QED BY <2>1, <2>2, <2>3, <2>4, <2>5, <2>6
<1> QED BY <1>1, <1>2

LEMMA SpawnCopies ==
  ASSUME IInv, OInv, CInv,
         \/ Resolve \/ Load \/ Startup \/ LoopEnds \/ Teardown \/ GenConfigRead
         \/ GenFile \/ GenConfig \/ Publish \/ Finish
  PROVE  CInv'
<1>1. /\ step \in Step \ {"bite"} /\ step' = step /\ cmd' = cmd /\ cmd # "bite"
      /\ "bite" \in Step /\ debug' = debug
      /\ live \in [Step -> DirOrNone] /\ DirFrom(step) \in Step /\ DirFrom(step) # step
      /\ Bitten(live["bite"]) /\ Bitten(debug["bite"])
  BY SpawnAlone DEF CInv, ConfigsInv
<1>2. /\ live'["bite"] = live["bite"]
      /\ live'[DirFrom(step)] = live[DirFrom(step)]
  BY SpawnAlone
<1>3. /\ pc' \in RunningPcs => Load \/ Startup \/ LoopEnds \/ Teardown \/ GenConfigRead \/ GenFile
      /\ pc' \notin {"repoint", "createDir", "moveFiles"}
  BY DEF Resolve, Load, Startup, LoopEnds, Teardown, GenConfigRead, GenFile, GenConfig, Publish,
         Finish, Panic, Goto, RunningPcs
<1>4. ConfigsInv'
  BY <1>1, <1>2, <1>3, ConfigsKept
<1>5. CASE pc' \notin RunningPcs
  BY <1>3, <1>4, <1>5, CopiesFree DEF CInv
<1>6. ASSUME pc' \in RunningPcs, cmd = "spawn", NEW f \in SpecFiles
      PROVE  live'[step].file[f] \in {Absent, live[DirFrom(step)].file[f]}
  <2>1. f \in File
    BY RefsFacts
  <2>2. CASE Load
    <3>1. live[step] = NoDir /\ live' = [live EXCEPT ![step] = [Ensured(@) EXCEPT !.file[<<"data", RC>>] = run]]
      BY <1>6, <2>2 DEF Load, Panic, RunningPcs, OInv, RelyInv
    <3>2. live'[step] = [EmptyDir EXCEPT !.file[<<"data", RC>>] = run]
      BY <1>1, <3>1 DEF Ensured
    <3>3. f # <<"data", RC>> /\ EmptyDir.file[f] = Absent
      BY <2>1 DEF SpecFiles, EmptyDir
    <3>4. live'[step].file[f] = Absent
      BY <2>1, <3>2, <3>3 DEF EmptyDir
    <3> QED BY <3>4
  <2>3. CASE Startup \/ LoopEnds \/ Teardown \/ GenConfigRead
    <3>1. live' = live /\ pc \in RunningPcs
      BY <2>3 DEF Startup, LoopEnds, Teardown, GenConfigRead, Panic, dirs, RunningPcs
    <3> QED BY <1>6, <3>1 DEF CInv, CopiesInv
  <2>4. CASE GenFile
    <3> DEFINE g == TeardownFiles[at]
    <3>1. live[step].file[f] \in {Absent, live[DirFrom(step)].file[f]}
      BY <1>6, <2>4 DEF GenFile, RunningPcs, CInv, CopiesInv
    <3>2. CASE f # g
      BY <2>1, <2>4, <3>1, <3>2, GenFileDirs
    <3>3. CASE f = g
      <4>1. pc' # "panicked"
        BY <1>6 DEF RunningPcs
      <4>2. g[1] = "spec" /\ live[DirFrom(step)].file[g] # Absent
        BY <2>4, <3>3, <4>1 DEF GenFile, SpecFiles
      <4> QED BY <2>4, <3>3, <4>2, GenFileDirs
    <3> QED BY <3>2, <3>3
  <2> QED BY <1>3, <1>6, <2>2, <2>3, <2>4
<1>7. CASE pc' \in RunningPcs
  <2>1. cmd = "spawn" => \A f \in SpecFiles : live'[step].file[f] \in {Absent, live'[DirFrom(step)].file[f]}
    BY <1>2, <1>6, <1>7
  <2>2. CopiesInv'
    BY <1>1, <1>3, <1>7, <2>1 DEF CopiesInv
  <2> QED BY <1>4, <2>2 DEF CInv
<1> QED BY <1>5, <1>7

-----------------------------------------------------------------------------
(* The clean-up, and the end of a command.                                 *)

LEMMA CleanCopies ==
  ASSUME IInv, OInv, CInv, RemoveDebug \/ RenameDir \/ CreateDir \/ MoveConfig
  PROVE  CInv'
<1>1. /\ step \in Step /\ "bite" \in Step /\ step' = step /\ cmd' = cmd
      /\ pc \in CleanPcs /\ (cmd = "bite" => step = "bite") /\ ~Idle
      /\ live \in [Step -> DirOrNone] /\ debug \in [Step -> DirOrNone]
      /\ Bitten(live["bite"]) /\ Bitten(debug["bite"])
  BY DEF RemoveDebug, RenameDir, CreateDir, MoveConfig, Panic, args, CleanPcs, Idle,
         IInv, TypeOK, DirsOK, CommandOK, CommandInv, Step, CInv, ConfigsInv
<1>2. CASE Panic
  <2>1. UNCHANGED <<live, debug>> /\ pc' = "panicked"
    BY <1>2 DEF Panic, dirs
  <2> QED BY <1>1, <2>1, ConfigsKept, CopiesFree DEF CInv, CleanPcs, RunningPcs
<1>3. ASSUME ~Panic, RemoveDebug PROVE CInv'
  <2>1. pc = "removeDebug" /\ pc' = "renameDir" /\ live' = live /\ debug' = [debug EXCEPT ![step] = NoDir]
    BY <1>3 DEF RemoveDebug, Goto
  <2>2. Bitten(debug'["bite"])
    BY <1>1, <2>1, BiteConfigsTyped
  <2>3. ConfigsInv'
    BY <1>1, <2>1, <2>2 DEF CInv, ConfigsInv
  <2> QED BY <2>1, <2>3, CopiesFree DEF CInv, RunningPcs
<1>4. ASSUME ~Panic, RenameDir PROVE CInv'
  <2>1. /\ pc = "renameDir" /\ pc' = "createDir" /\ live' = [live EXCEPT ![step] = NoDir]
        /\ debug' = [debug EXCEPT ![step] = live[step]]
    BY <1>4 DEF RenameDir, Goto
  <2>2. Bitten(live'["bite"]) /\ Bitten(debug'["bite"]) /\ live'[step] = NoDir
    BY <1>1, <2>1, BiteConfigsTyped
  <2>3. ConfigsInv'
    BY <1>1, <2>1, <2>2 DEF CInv, ConfigsInv
  <2>4. CopiesInv'
    BY <1>1, <2>1, <2>2 DEF CopiesInv, RunningPcs
  <2> QED BY <2>3, <2>4 DEF CInv
<1>5. ASSUME ~Panic, CreateDir PROVE CInv'
  <2>1. /\ pc = "createDir" /\ pc' = "moveConfig" /\ live' = [live EXCEPT ![step] = EmptyDir]
        /\ debug' = debug
    BY <1>5 DEF CreateDir, Goto
  <2>2. Bitten(live'["bite"])
    BY <1>1, <2>1, BiteConfigsTyped
  <2>3. ConfigsInv'
    BY <1>1, <2>1, <2>2 DEF CInv, ConfigsInv
  <2> QED BY <2>1, <2>3, CopiesFree DEF CInv, RunningPcs
<1>6. ASSUME ~Panic, MoveConfig PROVE CInv'
  <2> DEFINE c == debug[step].config
  <2> DEFINE e == [debug[step] EXCEPT !.config = NoConfig]
  <2>1. /\ pc = "moveConfig" /\ pc' = "moveFiles" /\ at' = 1
        /\ live' = SetConfig(step, c) /\ debug' = [debug EXCEPT ![step] = e]
    BY <1>6 DEF MoveConfig, Goto
  <2>2. /\ debug[step] # NoDir /\ debug[step] \in Dir /\ c \in Config
        /\ live[step] = EmptyDir /\ EmptyDir \in Dir /\ EmptyDir # NoDir
    BY <1>1, <2>1, DirTyped DEF IInv, DirInv, DirOrNone, OInv, RelyInv
  <2>3. e \in Dir /\ e.original = debug[step].original /\ e.config = NoConfig
    BY <2>2 DEF Dir, NoConfig, Config
  <2> HIDE DEF e, c
  <2>4. /\ live'[step] \in Dir /\ live'[step].file = EmptyDir.file
        /\ live'[step].config = c /\ live'[step].original = EmptyDir.original
        /\ \A t \in Step \ {step} : live'[t] = live[t]
    BY <1>1, <2>1, <2>2, SetConfigTyped, SetOthers
  <2>5. debug'[step] = e /\ \A t \in Step \ {step} : debug'[t] = debug[t]
    BY <1>1, <2>1
  <2>6. ASSUME step = "bite" PROVE Bitten(live'[step]) /\ Bitten(e)
    <3>1. c \in BiteConfigs /\ debug[step].original \in BiteConfigs
      BY <1>1, <2>2, <2>6 DEF Bitten, c
    <3>2. EmptyDir.original \in BiteConfigs /\ NoConfig \in BiteConfigs
      BY DEF EmptyDir, BiteConfigs
    <3> QED BY <2>3, <2>4, <3>1, <3>2 DEF Bitten
  <2>7. Bitten(live'["bite"]) /\ Bitten(debug'["bite"])
    BY <1>1, <2>4, <2>5, <2>6
  <2>8. ConfigsInv'
    <3>1. cmd = "bite" => live'["bite"] # NoDir /\ live'["bite"].config = Full(BiteRefs)
      BY <1>1, <2>1, <2>4, DirTyped DEF CInv, ConfigsInv, c
    <3> QED BY <1>1, <2>1, <2>7, <3>1 DEF ConfigsInv
  <2>9. \A f \in File : live'[step].file[f] = Absent
    BY <2>4 DEF EmptyDir
  <2>10. CopiesInv'
    BY <1>1, <2>1, <2>9 DEF CopiesInv, RunningPcs
  <2> QED BY <2>8, <2>10 DEF CInv
<1> QED BY <1>2, <1>3, <1>4, <1>5, <1>6

LEMMA MoveFileCopies ==
  ASSUME IInv, CInv, MoveFile
  PROVE  CInv'
<1> DEFINE f == Needed[at]
<1>0. pc = "moveFiles"
  BY Zenon DEF MoveFile
<1>1. /\ f \in File /\ at \in DOMAIN Needed /\ at \in Nat \ {0}
      /\ step \in Step /\ "bite" \in Step
      /\ live \in [Step -> DirOrNone] /\ live[step] # NoDir /\ live[step] \in Dir
      /\ cmd = "bite" => step = "bite"
      /\ Bitten(live["bite"]) /\ Bitten(debug["bite"]) /\ ~Idle /\ debug[step] # NoDir
      /\ UNCHANGED <<cmd, step>>
  BY <1>0, NeededTyped
  DEF IInv, TypeOK, DirsOK, CommandOK, CommandInv, PlaceInv, DirInv, DirOrNone, CleanPcs, Idle,
      CInv, ConfigsInv, Step, MoveFile, Panic, args
<1>2. CASE Missing(f)
  <2>1. UNCHANGED <<live, debug>> /\ pc' = "panicked"
    BY <1>2 DEF MoveFile, Panic, dirs
  <2> QED BY <1>1, <2>1, ConfigsKept, CopiesFree DEF CInv, CleanPcs, RunningPcs
<1>3. CASE ~Missing(f)
  <2>1. /\ live'[step] # NoDir /\ debug'[step] # NoDir
        /\ live'[step].config = live[step].config /\ live'[step].original = live[step].original
        /\ debug'[step].config = debug[step].config /\ debug'[step].original = debug[step].original
        /\ live'[step].file = [live[step].file EXCEPT ![f] = debug[step].file[f]]
        /\ debug'[step].file = [debug[step].file EXCEPT ![f] = Absent]
        /\ \A t \in Step \ {step} : live'[t] = live[t]
        /\ \A t \in Step \ {step} : debug'[t] = debug[t]
    BY <1>1, <1>3, MoveFileDirs
  <2>2. \/ pc' = "moveFiles" /\ at' = at + 1
        \/ pc' \in {"publish", "idle"}
    BY <1>0, <1>3, Zenon DEF MoveFile, Goto
  <2>3. Bitten(live'["bite"]) /\ Bitten(debug'["bite"])
    BY <1>1, <2>1 DEF Bitten
  <2>4. ConfigsInv'
    <3>1. cmd = "bite" => live'["bite"] # NoDir /\ live'["bite"].config = Full(BiteRefs)
      BY <1>0, <1>1, <2>1 DEF CInv, ConfigsInv
    <3> QED BY <1>1, <2>2, <2>3, <3>1 DEF ConfigsInv
  <2>5. CASE pc' \in {"publish", "idle"}
    BY <2>4, <2>5, CopiesFree DEF CInv, RunningPcs
  <2>6. CASE pc' = "moveFiles" /\ at' = at + 1
    <3>1. Needed' = Needed
      BY <1>1 DEF Needed
    <3>2. DOMAIN Needed \subseteq Nat
      BY NeededTyped
    <3> HIDE DEF f
    <3>3. ASSUME NEW h \in File, live'[step].file[h] # Absent
          PROVE  \E j \in DOMAIN Needed : j < at + 1 /\ Needed[j] = h
      <4>1. CASE h = f
        BY <1>1, <4>1 DEF f
      <4>2. CASE h # f
        <5>1. live[step].file[h] # Absent
          BY <1>1, <2>1, <3>3, <4>2, DirTyped
        <5>2. PICK j \in DOMAIN Needed : j < at /\ Needed[j] = h
          BY <1>0, <5>1 DEF CInv, CopiesInv
        <5> QED BY <1>1, <3>2, <5>2
      <4> QED BY <4>1, <4>2
    <3>4. ASSUME NEW h \in File PROVE live'[step].file[h] = Absent \/ debug'[step].file[h] = Absent
      <4>1. CASE h = f
        BY <1>1, <2>1, <4>1, DirTyped DEF IInv, TypeOK, DirsOK, DirOrNone
      <4>2. CASE h # f
        <5>1. live[step].file[h] = Absent \/ debug[step].file[h] = Absent
          BY <1>0 DEF CInv, CopiesInv
        <5>2. live[step].file \in [File -> Value] /\ debug[step].file \in [File -> Value]
          BY <1>1, DirTyped DEF IInv, TypeOK, DirsOK, DirOrNone
        <5> QED BY <2>1, <4>2, <5>1, <5>2
      <4> QED BY <4>1, <4>2
    <3>5. CopiesInv'
      BY <1>1, <2>6, <3>1, <3>3, <3>4 DEF CopiesInv, RunningPcs
    <3> QED BY <2>4, <3>5 DEF CInv
  <2> QED BY <2>2, <2>5, <2>6
<1> QED BY <1>2, <1>3

\* What a write that is cut short leaves torn.
LEMMA TornCases ==
  ASSUME IInv, ~Idle, TornWrite
  PROVE  \/ \E t \in Step, f \in File :
              /\ live[t] # NoDir /\ live' = SetFile(t, f, Torn)
              /\ pc \in {"biteFiles", "genFiles", "publish"} /\ (t = "bite" => pc = "biteFiles")
         \/ \E t \in Step, c \in TornConfigs :
              /\ live[t] # NoDir /\ live' = SetConfig(t, c)
              /\ pc \in {"biteConfig", "genConfig", "repoint"} /\ (t = "bite" => pc # "genConfig")
              /\ pc = "repoint" => t = DirFrom(step)
<1>1. step \in Step /\ DirFrom(step) \in Step /\ "bite" \in Step
  BY FromFacts DEF IInv, TypeOK, CommandOK, Step
<1>2. CASE pc = "biteFiles"
  <2>1. live' = SetFile("bite", BiteFiles[at], Torn) /\ BiteFiles[at] \in File /\ live["bite"] # NoDir
    BY <1>2, ListsTyped DEF TornWrite, IInv, PlaceInv, CommandInv, DirInv
  <2> QED BY <1>1, <1>2, <2>1
<1>3. CASE pc = "genFiles"
  <2>1. /\ live' = SetFile(step, TeardownFiles[at], Torn) /\ TeardownFiles[at] \in File
        /\ live[step] # NoDir /\ step # "bite"
    BY <1>3, ListsTyped DEF TornWrite, IInv, PlaceInv, CommandInv, DirInv
  <2> QED BY <1>1, <1>3, <2>1
<1>4. CASE pc = "publish"
  <2>1. /\ live' = SetFile(step, <<"spec", RC>>, Torn) /\ <<"spec", RC>> \in File
        /\ live[step] # NoDir /\ step # "bite"
    BY <1>4, FileFacts DEF TornWrite, PublishedIn, IInv, CommandInv, DirInv
  <2> QED BY <1>1, <1>4, <2>1
<1>5. CASE pc = "biteConfig"
  <2>1. (\E c \in TornConfigs : live' = SetConfig("bite", c)) /\ live["bite"] # NoDir
    BY <1>5 DEF TornWrite, IInv, CommandInv, DirInv
  <2> QED BY <1>1, <1>5, <2>1
<1>6. CASE pc = "genConfig"
  <2>1. (\E c \in TornConfigs : live' = SetConfig(step, c)) /\ live[step] # NoDir /\ step # "bite"
    BY <1>6 DEF TornWrite, IInv, CommandInv, DirInv
  <2> QED BY <1>1, <1>6, <2>1
<1>7. CASE pc = "repoint"
  <2>1. (\E c \in TornConfigs : live' = SetConfig(DirFrom(step), c)) /\ live[DirFrom(step)] # NoDir
    BY <1>7 DEF TornWrite, IInv, DirInv
  <2> QED BY <1>1, <1>7, <2>1
<1> QED BY <1>2, <1>3, <1>4, <1>5, <1>6, <1>7 DEF TornWrite

LEMMA TornKeeps ==
  ASSUME IInv, ~Idle, TornWrite, NEW s \in Step
  PROVE  /\ live'[s] = NoDir <=> live[s] = NoDir
         /\ live[s] # NoDir =>
              /\ live'[s].original = live[s].original
              /\ live'[s].config \in {live[s].config} \cup TornConfigs
              /\ \A f \in File : live'[s].file[f] \in {live[s].file[f], Torn}
              /\ live'[s].boots = live[s].boots
         /\ live'["bite"] # live["bite"] => pc \in {"biteFiles", "biteConfig", "repoint"}
         /\ live'["bite"] # live["bite"] /\ pc = "repoint" =>
              DirFrom(step) = "bite" /\ live'["bite"].file = live["bite"].file
<1>1. live \in [Step -> DirOrNone] /\ Torn \in Value /\ TornConfigs \subseteq Config /\ "bite" \in Step
  BY TornTyped DEF IInv, TypeOK, DirsOK, Value, Step
<1>2. CASE \E t \in Step, f \in File :
             /\ live[t] # NoDir /\ live' = SetFile(t, f, Torn)
             /\ pc \in {"biteFiles", "genFiles", "publish"} /\ (t = "bite" => pc = "biteFiles")
  <2>1. PICK t \in Step, f \in File :
          /\ live[t] # NoDir /\ live' = SetFile(t, f, Torn)
          /\ pc \in {"biteFiles", "genFiles", "publish"} /\ (t = "bite" => pc = "biteFiles")
    BY <1>2
  <2>2. /\ live'[t] # NoDir
        /\ live'[t].file = [live[t].file EXCEPT ![f] = Torn]
        /\ live'[t].boots = live[t].boots
        /\ live'[t].config = live[t].config /\ live'[t].original = live[t].original
        /\ \A u \in Step \ {t} : live'[u] = live[u]
    BY <1>1, <2>1, SetFileTyped, SetOthers, DirTyped
  <2>3. live[t].file \in [File -> Value]
    BY <1>1, <2>1, DirTyped DEF DirOrNone
  <2> QED BY <1>1, <2>1, <2>2, <2>3
<1>3. CASE \E t \in Step, c \in TornConfigs :
             /\ live[t] # NoDir /\ live' = SetConfig(t, c)
             /\ pc \in {"biteConfig", "genConfig", "repoint"} /\ (t = "bite" => pc # "genConfig")
             /\ pc = "repoint" => t = DirFrom(step)
  <2>1. PICK t \in Step, c \in TornConfigs :
          /\ live[t] # NoDir /\ live' = SetConfig(t, c)
          /\ pc \in {"biteConfig", "genConfig", "repoint"} /\ (t = "bite" => pc # "genConfig")
          /\ pc = "repoint" => t = DirFrom(step)
    BY <1>3
  <2>2. /\ live'[t] # NoDir
        /\ live'[t].file = live[t].file /\ live'[t].boots = live[t].boots
        /\ live'[t].config = c /\ live'[t].original = live[t].original
        /\ \A u \in Step \ {t} : live'[u] = live[u]
    BY <1>1, <2>1, SetConfigTyped, SetOthers, DirTyped
  <2> QED BY <1>1, <2>1, <2>2
<1> QED BY <1>2, <1>3, TornCases

LEMMA EndCopies ==
  ASSUME IInv, CInv, Die \/ TouchStop \/ UNCHANGED vars
  PROVE  CInv'
<1>1. CASE Die
  <2>1. ~Idle /\ pc' = "idle" /\ debug' = debug /\ "bite" \in Step
    BY <1>1 DEF Die, Step
  <2>2. Bitten(live'["bite"]) /\ Bitten(debug'["bite"])
    <3>1. Bitten(live["bite"]) /\ Bitten(debug["bite"])
      BY DEF CInv, ConfigsInv
    <3>2. CASE live' = live
      BY <2>1, <3>1, <3>2
    <3>3. CASE TornWrite
      BY <2>1, <3>1, <3>3, TornKeeps DEF Bitten, BiteConfigs
    <3> QED BY <1>1, <3>2, <3>3 DEF Die
  <2> QED BY <2>1, <2>2, ConfigsKept, CopiesFree DEF CInv, CleanPcs, RunningPcs
<1>2. CASE TouchStop \/ UNCHANGED vars
  <2>1. UNCHANGED <<live, debug, pc, cmd, step, at>>
    BY <1>2 DEF TouchStop, vars, dirs, args
  <2>2. Needed' = Needed
    BY <2>1 DEF Needed
  <2> QED BY <2>1, <2>2 DEF CInv, ConfigsInv, CopiesInv
<1> QED BY <1>1, <1>2

LEMMA StepCopies == IInv /\ OInv /\ CInv /\ [Next]_vars => CInv'
<1> SUFFICES ASSUME IInv, OInv, CInv, [Next]_vars PROVE CInv'
  OBVIOUS
<1>1. CASE Command \/ BiteFile \/ BiteConfig \/ BiteReady
  BY <1>1, BiteCopies
<1>2. CASE \/ Resolve \/ Localize \/ Repoint \/ Load \/ Startup \/ LoopEnds \/ Teardown
           \/ GenConfigRead \/ GenFile \/ GenConfig \/ Publish \/ Finish
  BY <1>2, RepointCopies, SpawnCopies
<1>3. CASE RemoveDebug \/ RenameDir \/ CreateDir \/ MoveConfig \/ MoveFile
  BY <1>3, CleanCopies, MoveFileCopies
<1>4. CASE Die \/ TouchStop \/ Rest \/ UNCHANGED vars
  BY <1>4, EndCopies DEF Rest
<1> QED BY <1>1, <1>2, <1>3, <1>4 DEF Next, Process

-----------------------------------------------------------------------------
(* A bite that can start a network stays one.                              *)

\* Where a bite's files are in the list of its clean-up.
LEMMA NeededAt ==
  ASSUME step = "bite", cmd = "bite"
  PROVE  LET n == Len(Paras) IN
         /\ n \in Nat /\ DOMAIN Paras = 1 .. n
         /\ Len(Needed) = 3 * n + 3 /\ DOMAIN Needed = 1 .. (3 * n + 3)
         /\ Needed[1] = <<"spec", RC>> /\ Needed[2] = <<"over", RC>>
         /\ Needed[3 * n + 3] = <<"snap", RC>>
         /\ \A i \in 1 .. 3 * n :
              /\ (i + 2) \div 3 \in 1 .. n /\ 1 + ((i - 1) % 3) \in {1, 2, 3}
              /\ Needed[i + 2] = <<<<"spec", "snap", "over">>[1 + ((i - 1) % 3)], Paras[(i + 2) \div 3]>>
<1> DEFINE n == Len(Paras)
<1> DEFINE a == <<<<"spec", RC>>, <<"over", RC>>>>
<1> DEFINE m == [i \in 1 .. 3 * n |-> <<<<"spec", "snap", "over">>[1 + ((i - 1) % 3)], Paras[(i + 2) \div 3]>>]
<1> DEFINE b == <<<<"snap", RC>>>>
<1> DEFINE S == {m[i] : i \in 1 .. 3 * n} \cup {a[1], a[2], b[1]}
<1>1. n \in Nat /\ 3 * n \in Nat /\ DOMAIN Paras = 1 .. n
  BY ChainsAssumption
<1>2. Needed = a \o m \o b
  BY DEF Needed
<1>3. \A i \in 1 .. 3 * n : (i + 2) \div 3 \in 1 .. n /\ 1 + ((i - 1) % 3) \in {1, 2, 3}
  BY <1>1, SMT
<1>4. m \in Seq(S) /\ Len(m) = 3 * n
  <2> DEFINE k == 3 * n
  <2>1. m = [i \in 1 .. k |-> m[i]] /\ \A i \in 1 .. k : m[i] \in S
    OBVIOUS
  <2> HIDE DEF m, S
  <2>2. k \in Nat
    BY <1>1
  <2> HIDE DEF k
  <2>3. m \in Seq(S) /\ Len(m) = k
    BY <2>1, <2>2
  <2> QED BY <2>3 DEF k
<1>5. \A i \in 1 .. 3 * n : m[i] = <<<<"spec", "snap", "over">>[1 + ((i - 1) % 3)], Paras[(i + 2) \div 3]>>
  OBVIOUS
<1>6. a \in Seq(S) /\ Len(a) = 2 /\ b \in Seq(S) /\ Len(b) = 1
  OBVIOUS
<1>7. a[1] = <<"spec", RC>> /\ a[2] = <<"over", RC>> /\ b[1] = <<"snap", RC>>
  OBVIOUS
<1> HIDE DEF n, a, m, b, S
<1> DEFINE c == a \o m
<1>8. /\ c \in Seq(S) /\ Len(c) = 2 + 3 * n
      /\ \A i \in 1 .. 2 : c[i] = a[i]
      /\ \A i \in 1 .. 3 * n : c[2 + i] = m[i]
  <2>0. a \in Seq(S) /\ m \in Seq(S) /\ c = a \o m
    BY <1>4, <1>6
  <2> HIDE DEF c
  <2>1. /\ Len(c) = Len(a) + Len(m) /\ c \in Seq(S)
        /\ \A i \in 1 .. Len(a) : c[i] = a[i]
        /\ \A i \in 1 .. Len(m) : c[Len(a) + i] = m[i]
    BY <2>0, ConcatAt
  <2> QED BY <1>4, <1>6, <2>1
<1> HIDE DEF c
<1>9. /\ Needed \in Seq(S) /\ Len(Needed) = 3 * n + 3
      /\ \A i \in 1 .. 2 + 3 * n : Needed[i] = c[i]
      /\ Needed[3 * n + 3] = b[1]
  <2>1. Needed = c \o b /\ c \in Seq(S) /\ b \in Seq(S)
    BY <1>2, <1>6, <1>8 DEF c
  <2>2. /\ Len(Needed) = Len(c) + Len(b) /\ Needed \in Seq(S)
        /\ \A i \in 1 .. Len(c) : Needed[i] = c[i]
        /\ \A i \in 1 .. Len(b) : Needed[Len(c) + i] = b[i]
    BY <2>1, ConcatAt
  <2>3. Len(c) + 1 = 3 * n + 3 /\ Len(c) + Len(b) = 3 * n + 3
    BY <1>1, <1>6, <1>8
  <2> QED BY <1>6, <1>8, <2>2, <2>3
<1>10. ASSUME NEW i \in 1 .. 3 * n PROVE Needed[i + 2] = m[i]
  <2>1. i + 2 \in 1 .. 2 + 3 * n /\ i + 2 = 2 + i
    BY <1>1
  <2>2. Needed[i + 2] = c[i + 2]
    BY <1>9, <2>1
  <2>3. c[2 + i] = m[i]
    BY <1>8
  <2> QED BY <2>1, <2>2, <2>3
<1>11. DOMAIN Needed = 1 .. (3 * n + 3)
  BY <1>1, <1>9
<1>12. Needed[1] = <<"spec", RC>> /\ Needed[2] = <<"over", RC>>
  <2>1. 1 \in 1 .. 2 + 3 * n /\ 2 \in 1 .. 2 + 3 * n
    BY <1>1
  <2> QED BY <1>7, <1>8, <1>9, <2>1
<1>13. Needed[3 * n + 3] = <<"snap", RC>>
  BY <1>7, <1>9
<1>14. \A i \in 1 .. 3 * n :
         Needed[i + 2] = <<<<"spec", "snap", "over">>[1 + ((i - 1) % 3)], Paras[(i + 2) \div 3]>>
  <2> TAKE i \in 1 .. 3 * n
  <2> QED BY <1>5, <1>10
<1> QED BY <1>1, <1>3, <1>9, <1>11, <1>12, <1>13, <1>14 DEF n

\* The relay chain's snapshot is the last.
LEMMA SnapIsLast ==
  ASSUME step = "bite", NEW j \in DOMAIN Needed, Needed[j] = <<"snap", RC>>
  PROVE  j = Len(Needed)
<1>1. CASE cmd # "bite"
  <2>1. Needed = <<<<"spec", RC>>, <<"over", RC>>, <<"snap", RC>>>>
    BY <1>1 DEF Needed
  <2> QED BY <2>1
<1>2. CASE cmd = "bite"
  <2> DEFINE n == Len(Paras)
  <2>1. /\ n \in Nat /\ DOMAIN Paras = 1 .. n
        /\ Len(Needed) = 3 * n + 3 /\ j \in 1 .. (3 * n + 3)
        /\ Needed[1] = <<"spec", RC>> /\ Needed[2] = <<"over", RC>>
        /\ \A i \in 1 .. 3 * n :
             /\ (i + 2) \div 3 \in 1 .. n
             /\ Needed[i + 2] = <<<<"spec", "snap", "over">>[1 + ((i - 1) % 3)], Paras[(i + 2) \div 3]>>
    BY <1>2, NeededAt
  <2> HIDE DEF n
  <2>2. j # 1 /\ j # 2
    BY <2>1
  <2>3. ASSUME NEW i \in 1 .. 3 * n, j = i + 2 PROVE FALSE
    <3>1. Needed[j][2] = Paras[(i + 2) \div 3] /\ (i + 2) \div 3 \in DOMAIN Paras
      BY <2>1, <2>3
    <3> QED BY <3>1, ChainsAssumption DEF ParaSet
  <2>4. j # 3 * n + 3 => j - 2 \in 1 .. 3 * n /\ j = (j - 2) + 2
    BY <2>1, <2>2
  <2> QED BY <2>1, <2>3, <2>4
<1> QED BY <1>1, <1>2

LEMMA WithConfig ==
  ASSUME NEW d \in Dir, NEW c \in Config
  PROVE  LET e == [d EXCEPT !.config = c] IN
         /\ e \in Dir /\ e # NoDir /\ e.config = c
         /\ e.file = d.file /\ e.boots = d.boots /\ e.original = d.original
<1>1. [d EXCEPT !.config = c] \in Dir
  BY DEF Dir
<1> QED BY <1>1, DirTyped DEF Dir

\* It has its config, on disk or in the memory of a spawn, and is not being put
\* together.
LEMMA WholeFacts ==
  ASSUME IInv, OInv, CInv, BiteIsWhole
  PROVE  /\ live["bite"] # NoDir /\ live["bite"] \in Dir /\ Bitten(live["bite"])
         /\ IF Rewriting("bite") THEN config = Full(BiteRefs)
                                 ELSE live["bite"].config = Full(BiteRefs)
         /\ pc \notin {"biteFiles", "biteConfig"}
         /\ ~(pc = "moveFiles" /\ step = "bite")
         /\ \E r \in Run : \A f \in BiteRefs : live["bite"].file[f] = r
         /\ \A c \in Chains : live["bite"].boots[c] = 0
<1> DEFINE d == Seen("bite")
<1>1. /\ live["bite"] # NoDir /\ live["bite"] \in Dir /\ Bitten(live["bite"])
      /\ d.file = live["bite"].file /\ d.boots = live["bite"].boots /\ d # NoDir
      /\ d.config.state = "full"
      /\ d.config = IF Rewriting("bite") THEN config ELSE live["bite"].config
  <2>1. HasConfig(d) /\ "bite" \in Step /\ config \in Config /\ Bitten(live["bite"])
    BY DEF BiteIsWhole, IInv, TypeOK, CommandOK, Step, CInv, ConfigsInv
  <2>2. live["bite"] # NoDir
    BY <2>1 DEF HasConfig, Seen, Rewriting, IInv, DirInv
  <2>3. live["bite"] \in Dir
    BY <2>1, <2>2 DEF IInv, TypeOK, DirsOK, DirOrNone
  <2>4. CASE Rewriting("bite")
    <3> DEFINE e == [live["bite"] EXCEPT !.config = config]
    <3>1. d = e
      BY <2>4 DEF Seen
    <3>2. /\ e # NoDir /\ e.config = config
          /\ e.file = live["bite"].file /\ e.boots = live["bite"].boots
      BY <2>1, <2>3, WithConfig
    <3> HIDE DEF e, d
    <3> QED BY <2>1, <2>2, <2>3, <2>4, <3>1, <3>2 DEF HasConfig
  <2>5. CASE ~Rewriting("bite")
    BY <2>1, <2>2, <2>3, <2>5 DEF Seen, HasConfig
  <2> QED BY <2>4, <2>5
<1>2. d.config = Full(BiteRefs) /\ d.config.refs = BiteRefs
  <2>1. d.config \in BiteConfigs
    BY <1>1 DEF Rewriting, OInv, RelyInv, Bitten
  <2> QED BY <1>1, <2>1, BiteConfigsTyped DEF Full
<1>3. /\ \E r \in Run : \A f \in BiteRefs : live["bite"].file[f] = r
      /\ \A c \in Chains : live["bite"].boots[c] = 0
  BY <1>1, <1>2 DEF BiteIsWhole
<1>4. pc \notin {"biteFiles", "biteConfig"}
  BY <1>1, <1>2 DEF OInv, RelyInv, HasConfig, Rewriting
<1>5. ASSUME pc = "moveFiles", step = "bite" PROVE FALSE
  <2>1. live["bite"].file[<<"snap", RC>>] # Absent /\ <<"snap", RC>> \in File
    BY <1>3, FileFacts, BiteConfigsTyped, StepBoundsAssumption DEF Run, Absent
  <2>2. PICK j \in DOMAIN Needed : j < at /\ Needed[j] = <<"snap", RC>>
    BY <1>5, <2>1 DEF CInv, CopiesInv
  <2>3. j = Len(Needed) /\ at \in DOMAIN Needed
    BY <1>5, <2>2, SnapIsLast DEF IInv, PlaceInv
  <2> QED BY <2>2, <2>3, NeededTyped
<1> QED BY <1>1, <1>2, <1>3, <1>4, <1>5

\* A bite's directory with the files and the config it had.
LEMMA StaysWhole ==
  ASSUME IInv, OInv, CInv, BiteIsWhole, NEW e, Seen("bite")' = e, e # NoDir,
         e.config = Full(BiteRefs), e.file = live["bite"].file, e.boots = live["bite"].boots
  PROVE  BiteIsWhole'
<1>1. e.config.state = "full" /\ e.config.refs = BiteRefs
  BY DEF Full
<1>2. PICK r \in Run : \A f \in e.config.refs : e.file[f] = r
  BY <1>1, WholeFacts
<1>3. \A c \in Chains : e.boots[c] = 0
  BY WholeFacts
<1>4. HasConfig(e)
  BY <1>1 DEF HasConfig
<1> HIDE DEF Seen
<1> QED BY <1>2, <1>3, <1>4 DEF BiteIsWhole, HasConfig

\* Its directory is the same, and no spawn has its config.
LEMMA BiteUnmoved ==
  ASSUME IInv, OInv, CInv, BiteIsWhole, live'["bite"] = live["bite"],
         ~Rewriting("bite"), ~Rewriting("bite")'
  PROVE  BiteIsWhole'
<1>1. Seen("bite")' = live["bite"]
  BY DEF Seen
<1> QED BY <1>1, WholeFacts, StaysWhole

\* Whatever the commands of other steps do, and wherever they die.
LEMMA StepWhole == IInv /\ OInv /\ CInv /\ [Next]_vars => BiteKept
<1> SUFFICES ASSUME IInv, OInv, CInv, [Next]_vars, BiteIsWhole, step' # "bite" \/ pc' = "idle"
             PROVE  BiteIsWhole' \/ SpoilsConfig("bite")
  BY DEF BiteKept
<1> DEFINE b == live["bite"]
<1>1. /\ b # NoDir /\ b \in Dir /\ Bitten(b) /\ "bite" \in Step
      /\ pc \notin {"biteFiles", "biteConfig"} /\ ~(pc = "moveFiles" /\ step = "bite")
      /\ IF Rewriting("bite") THEN config = Full(BiteRefs) ELSE b.config = Full(BiteRefs)
      /\ live \in [Step -> DirOrNone] /\ config \in Config
  BY WholeFacts DEF Step, IInv, TypeOK, DirsOK, CommandOK
<1>2. ASSUME live'["bite"] = b, pc # "repoint", pc' # "repoint" PROVE BiteIsWhole'
  BY <1>2, BiteUnmoved DEF Rewriting
<1>3. CASE StartBite \/ BiteFile \/ BiteConfig \/ BiteReady
  BY <1>1, <1>3
  DEF StartBite, Start, Goto, BiteFile, BiteConfig, BiteReady, args, IInv, CommandInv
<1>4. CASE StartSpawn \/ StartGenerate \/ StartCleanUp
  BY <1>2, <1>4 DEF StartSpawn, StartGenerate, StartCleanUp, Start, Goto, Idle, dirs
<1>5. CASE \/ Resolve \/ Load \/ Startup \/ LoopEnds \/ Teardown \/ GenConfigRead
           \/ GenFile \/ GenConfig \/ Publish \/ Finish
  <2>1. pc # "repoint" /\ pc' # "repoint"
    BY <1>5 DEF Resolve, Load, Startup, LoopEnds, Teardown, GenConfigRead, GenFile, GenConfig,
                Publish, Finish, Panic, Goto
  <2> QED BY <1>2, <1>5, <2>1, SpawnAlone
<1>6. CASE Localize
  <2> DEFINE e == KeepOriginal(live[DirFrom(step)])
  <2>1. pc = "localize" /\ b.config = Full(BiteRefs) /\ step' = step
    BY <1>1, <1>6, SpawnPlace DEF Localize, Rewriting
  <2>2. CASE Panic
    BY <1>2, <2>1, <2>2 DEF Panic, dirs
  <2>3. CASE ~Panic /\ DirFrom(step) # "bite"
    <3>1. live'["bite"] = b
      BY <1>1, <1>6, <2>3, SpawnPlace DEF Localize, dirs
    <3>2. ~Rewriting("bite") /\ ~Rewriting("bite")'
      BY <2>1, <2>3 DEF Rewriting, DirFrom
    <3> QED BY <3>1, <3>2, BiteUnmoved
  <2>4. CASE ~Panic /\ DirFrom(step) = "bite"
    <3>1. config' = b.config /\ config'.refs # {} /\ config'.state = "full"
      BY <1>6, <2>1, <2>4, BiteConfigsTyped DEF Localize, Full
    <3>2. pc' = "repoint" /\ live' = [live EXCEPT !["bite"] = e]
      BY <1>6, <2>4, <3>1 DEF Localize, Goto
    <3>3. e \in Dir /\ e.file = b.file /\ e.boots = b.boots
      BY <1>1, <2>4 DEF KeepOriginal, Dir, NoConfig, Config
    <3>4. live'["bite"] = e
      BY <1>1, <3>2
    <3> HIDE DEF e
    <3> DEFINE w == [e EXCEPT !.config = b.config]
    <3>5. w # NoDir /\ w.config = b.config /\ w.file = b.file /\ w.boots = b.boots
      BY <1>1, <3>3, WithConfig DEF Dir
    <3>6. Rewriting("bite")'
      BY <2>1, <2>4, <3>1, <3>2 DEF Rewriting, DirFrom
    <3>7. Seen("bite")' = w
      BY <3>1, <3>4, <3>6 DEF Seen
    <3> HIDE DEF w
    <3> QED BY <2>1, <3>5, <3>7, StaysWhole
  <2> QED BY <2>2, <2>3, <2>4
<1>7. CASE Repoint
  <2>1. pc = "repoint" /\ pc' = "load"
    BY <1>7 DEF Repoint, Goto
  <2>2. CASE DirFrom(step) # "bite"
    <3>1. live'["bite"] = b
      BY <1>1, <1>7, <2>2, SpawnPlace, SetOthers DEF Repoint
    <3>2. ~Rewriting("bite") /\ ~Rewriting("bite")'
      BY <2>1, <2>2 DEF Rewriting
    <3> QED BY <3>1, <3>2, BiteUnmoved
  <2>3. CASE DirFrom(step) = "bite"
    <3>1. live' = SetConfig("bite", config) /\ b.config = NoConfig
      BY <1>7, <2>1, <2>3 DEF Repoint, CInv, ConfigsInv
    <3>2. config = Full(BiteRefs)
      BY <1>1, <3>1, BiteConfigsTyped
    <3>3. /\ live'["bite"] \in Dir /\ live'["bite"].file = b.file /\ live'["bite"].boots = b.boots
          /\ live'["bite"].config = config
      BY <1>1, <3>1, SetConfigTyped
    <3>4. Seen("bite")' = live'["bite"]
      BY <2>1 DEF Seen, Rewriting
    <3> QED BY <3>2, <3>3, <3>4, DirTyped, StaysWhole
  <2> QED BY <2>2, <2>3
<1>8. CASE RemoveDebug \/ RenameDir \/ CreateDir \/ MoveConfig
  <2>1. step # "bite" /\ pc # "repoint" /\ pc' # "repoint"
    BY <1>8 DEF RemoveDebug, RenameDir, CreateDir, MoveConfig, Panic, Goto, args
  <2>2. live'["bite"] = b
    BY <1>1, <1>8, <2>1
    DEF RemoveDebug, RenameDir, CreateDir, MoveConfig, SetConfig, Panic, dirs,
        IInv, TypeOK, DirsOK, CommandOK
  <2> QED BY <1>2, <2>1, <2>2
<1>9. CASE MoveFile
  <2>1. pc = "moveFiles" /\ pc' # "repoint"
    <3>1. pc = "moveFiles"
      BY <1>9, Zenon DEF MoveFile
    <3>2. pc' # "repoint"
      BY <1>9, <3>1, Zenon DEF MoveFile, Panic, Goto
    <3> QED BY <3>1, <3>2
  <2>2. step # "bite" /\ Needed[at] \in File
    <3>1. step # "bite"
      BY <1>1, <2>1
    <3>2. Needed[at] \in File
      BY <2>1, NeededTyped DEF IInv, PlaceInv
    <3> QED BY <3>1, <3>2
  <2>3. live'["bite"] = b
    <3>1. CASE Missing(Needed[at])
      BY <1>9, <3>1 DEF MoveFile, Panic, dirs
    <3>2. CASE ~Missing(Needed[at])
      BY <1>1, <1>9, <2>2, <3>2, MoveFileDirs
    <3> QED BY <3>1, <3>2
  <2> QED BY <1>2, <2>1, <2>3
<1>10. CASE Die
  <2>1. ~Idle /\ pc' = "idle" /\ (live' = live \/ TornWrite)
    BY <1>10 DEF Die
  <2>2. CASE Rewriting("bite")
    <3>1. live' = live \/ \E c \in TornConfigs : live' = SetConfig("bite", c)
      BY <2>1, <2>2 DEF Rewriting, TornWrite
    <3>2. live' = [live EXCEPT !["bite"].config = live'["bite"].config]
      <4>1. CASE live' = live
        <5>1. [b EXCEPT !.config = b.config] = b
          BY <1>1 DEF Dir
        <5> QED BY <1>1, <4>1, <5>1
      <4>2. CASE \E c \in TornConfigs : live' = SetConfig("bite", c)
        <5>1. PICK c \in TornConfigs : live' = SetConfig("bite", c)
          BY <4>2
        <5>2. live'["bite"].config = c
          BY <1>1, <5>1, TornTyped, SetConfigTyped
        <5> QED BY <5>1, <5>2 DEF SetConfig
      <4> QED BY <3>1, <4>1, <4>2
    <3> QED BY <2>1, <2>2, <3>2 DEF SpoilsConfig
  <2>3. CASE ~Rewriting("bite")
    <3>1. live'["bite"] = b
      <4>1. ASSUME live'["bite"] # b PROVE FALSE
        <5>1. pc = "repoint" /\ DirFrom(step) = "bite"
          BY <1>1, <2>1, <4>1, TornKeeps
        <5>2. b.config = NoConfig
          BY <5>1 DEF CInv, ConfigsInv
        <5> QED BY <1>1, <2>3, <5>2, BiteConfigsTyped
      <4> QED BY <4>1
    <3>2. ~Rewriting("bite")'
      BY <2>1 DEF Rewriting
    <3> QED BY <2>3, <3>1, <3>2, BiteUnmoved
  <2> QED BY <2>2, <2>3
<1>11. CASE TouchStop \/ Rest \/ UNCHANGED vars
  <2>1. UNCHANGED <<live, pc, step, config>>
    BY <1>11 DEF TouchStop, Rest, vars, dirs, args
  <2> QED BY <2>1 DEF BiteIsWhole, Seen, Rewriting, DirFrom
<1> QED BY <1>3, <1>4, <1>5, <1>6, <1>7, <1>8, <1>9, <1>10, <1>11 DEF Next, Command, Process

-----------------------------------------------------------------------------
(* What an earlier command left is not replaced.                           *)

\* The files of s are not replaced by another command's.
Preserved(s) ==
  /\ live[s] # NoDir /\ live'[s] # NoDir
  /\ s = "bite" => HasConfig(live[s])
  => \A f \in File :
       live[s].file[f] \in Run /\ ~(cmd = "generate" /\ f[1] = "spec")
         => live'[s].file[f] \in {live[s].file[f], Torn}

\* A teardown writes no overrides.
LEMMA GenFileKinds == \A i \in DOMAIN TeardownFiles : TeardownFiles[i][1] # "over"
<1> DEFINE S == {"alice", "bob", "spec", "snap"} \X Chains
<1> DEFINE p == PerPara(<<"snap", "spec">>)
<1>1. Len(Paras) \in Nat /\ DOMAIN Paras = 1 .. Len(Paras)
  BY ChainsAssumption
<1>2. p \in Seq(S)
  <2>1. ASSUME NEW i \in 1 .. 2 * Len(Paras)
        PROVE  <<<<"snap", "spec">>[1 + ((i - 1) % 2)], Paras[(i + 1) \div 2]>> \in S
    <3>1. 1 + ((i - 1) % 2) \in {1, 2} /\ (i + 1) \div 2 \in 1 .. Len(Paras)
      BY <1>1, SMT
    <3>2. Paras[(i + 1) \div 2] \in Chains /\ <<"snap", "spec">>[1 + ((i - 1) % 2)] \in {"snap", "spec"}
      BY <1>1, <3>1, FileFacts DEF ParaSet
    <3> QED BY <3>2
  <2>2. 2 * Len(Paras) \in Nat
    BY <1>1
  <2> QED BY <2>1, <2>2 DEF PerPara
<1>3. <<<<"alice", RC>>, <<"bob", RC>>, <<"spec", RC>>>> \in Seq(S)
  BY DEF Chains
<1>4. TeardownFiles \in Seq(S)
  BY <1>2, <1>3 DEF TeardownFiles
<1> QED BY <1>4

LEMMA GenFilePreserves ==
  ASSUME IInv, OInv, CInv, GenFile, NEW s \in Step
  PROVE  Preserved(s)
<1> DEFINE g == TeardownFiles[at]
<1>1. /\ step \in Step /\ step # "bite" /\ pc = "genFiles" /\ live[step] # NoDir
      /\ g \in File /\ live[step] \in Dir /\ cmd \in {"spawn", "generate"}
      /\ Absent \notin Run /\ Torn \notin Run
  <2>1. pc = "genFiles"
    BY DEF GenFile
  <2>2. /\ step \in Step /\ step # "bite" /\ live[step] # NoDir /\ live[step] \in Dir
        /\ cmd \in {"spawn", "generate"}
    BY <2>1 DEF IInv, TypeOK, DirsOK, CommandOK, CommandInv, DirInv, DirOrNone
  <2>3. g \in File
    BY GenFileDirs
  <2>4. Absent \notin Run /\ Torn \notin Run
    BY StepBoundsAssumption DEF Run, Absent, Torn
  <2> QED BY <2>1, <2>2, <2>3, <2>4
<1>2. CASE s # step
  BY <1>1, <1>2, GenFileDirs DEF Preserved
<1>3. CASE s = step
  <2>1. ASSUME NEW f \in File, f # g PROVE live'[step].file[f] = live[step].file[f]
    BY <2>1, GenFileDirs
  <2>2. ASSUME g[1] = "spec", cmd = "spawn", live[step].file[g] \in Run
        PROVE  live'[step].file[g] = live[step].file[g]
    <3>1. g \in SpecFiles
      BY <1>1, <2>2 DEF File, SpecFiles
    <3>2. live[step].file[g] = live[DirFrom(step)].file[g]
      BY <1>1, <2>2, <3>1 DEF CInv, CopiesInv, RunningPcs
    <3>3. live[DirFrom(step)].file[g] # Absent
      BY <1>1, <2>2, <3>2
    <3> QED BY <2>2, <3>2, <3>3, GenFileDirs
  <2>3. ASSUME g[1] # "spec", live[step].file[g] \in Run
        PROVE  live'[step].file[g] \in {live[step].file[g], Torn}
    <3> DEFINE d == live[step].file[<<"data", RC>>]
    <3>1. PICK r \in Value : Of(live[step], r)
      BY <1>1 DEF OInv, SingleInv, OneState
    <3>2. ASSUME g[1] # "over" PROVE live[step].file[g] = r
      <4>1. g \in StateFile
        BY <1>1, <2>3, <3>2 DEF File, StateFile
      <4> QED BY <1>1, <2>3, <3>1, <4>1 DEF Of
    <3>3. g[1] # "over"
      BY GenFileKinds, <1>1 DEF IInv, PlaceInv
    <3>4. d \in {Absent, Torn, r}
      BY <1>1, <3>1, FileFacts DEF Of, StateFile
    <3>5. CASE d # Absent
      <4>1. live'[step].file[g] = d
        BY <2>3, <3>5, GenFileDirs
      <4> QED BY <3>2, <3>3, <3>4, <3>5, <4>1
    <3>6. CASE d = Absent
      <4>1. live' = SetFile(step, g, Torn)
        BY <2>3, <3>6 DEF GenFile
      <4>2. live'[step].file = [live[step].file EXCEPT ![g] = Torn]
        <5> HIDE DEF g
        <5>1. Torn \in Value
          BY DEF Value
        <5> QED BY <1>1, <4>1, <5>1, SpawnPlace, SetFileTyped
      <4> QED BY <1>1, <4>2, DirTyped
    <3> QED BY <3>5, <3>6
  <2> QED BY <1>1, <1>3, <2>1, <2>2, <2>3 DEF Preserved
<1> QED BY <1>2, <1>3

LEMMA StepPreserves ==
  IInv /\ OInv /\ CInv /\ [Next]_vars => \A s \in Step : Preserved(s)
<1> SUFFICES ASSUME IInv, OInv, CInv, [Next]_vars, NEW s \in Step
             PROVE  Preserved(s)
  OBVIOUS
<1>1. /\ live \in [Step -> DirOrNone] /\ debug \in [Step -> DirOrNone]
      /\ step \in Step /\ DirFrom(step) \in Step /\ "bite" \in Step
      /\ live[s] # NoDir => live[s] \in Dir /\ live[s].file \in [File -> Value]
      /\ Absent \notin Run /\ Torn \notin Run
  BY FromFacts, DirTyped, StepBoundsAssumption
  DEF IInv, TypeOK, DirsOK, CommandOK, DirOrNone, Step, Run, Absent, Torn
<1>2. ASSUME live[s] # NoDir /\ live'[s] # NoDir => live'[s].file = live[s].file PROVE Preserved(s)
  BY <1>2 DEF Preserved
<1>3. ASSUME live[s] = NoDir \/ live'[s] = NoDir PROVE Preserved(s)
  BY <1>3 DEF Preserved
<1>4. CASE Command
  <2>1. live' = live \/ live' = [live EXCEPT !["bite"] = Ensured(@)]
    BY <1>4 DEF Command, StartBite, StartSpawn, StartGenerate, StartCleanUp, dirs
  <2>2. live[s] # NoDir => live'[s] = live[s]
    BY <1>1, <2>1 DEF Ensured
  <2> QED BY <1>2, <2>2
<1>5. CASE BiteFile \/ BiteConfig
  <2>1. CASE s # "bite"
    BY <1>1, <1>2, <1>5, <2>1, SetOthers DEF BiteFile, BiteConfig
  <2>2. CASE s = "bite"
    BY <1>5, <2>2 DEF BiteFile, BiteConfig, OInv, RelyInv, Preserved
  <2> QED BY <2>1, <2>2
<1>6. CASE \/ BiteReady \/ Startup \/ LoopEnds \/ Teardown \/ GenConfigRead \/ Finish
           \/ TouchStop \/ Rest \/ UNCHANGED vars
  <2>1. live' = live
    BY <1>6 DEF BiteReady, Startup, LoopEnds, Teardown, GenConfigRead, Finish, TouchStop, Rest,
                Panic, vars, dirs
  <2> QED BY <1>2, <2>1
<1>7. CASE Resolve
  <2>1. live'[s] \in {live[s], NoDir}
    BY <1>1, <1>7 DEF Resolve, MoveAside
  <2> QED BY <1>2, <1>3, <2>1
<1>8. CASE Localize \/ Repoint
  <2> DEFINE from == DirFrom(step)
  <2>1. live[from] # NoDir /\ live[from] \in Dir /\ config \in Config
    BY <1>1, <1>8, SpawnPlace DEF Localize, Repoint, IInv, DirInv, DirOrNone
  <2>2. live'[s] = live[s] \/ (s = from /\ live'[s].file = live[s].file)
    <3>1. CASE Repoint
      <4>1. live' = SetConfig(from, config)
        BY <3>1 DEF Repoint
      <4> QED BY <1>1, <2>1, <4>1, SetConfigTyped, SetOthers
    <3>2. CASE Localize
      <4>1. KeepOriginal(live[from]).file = live[from].file
        BY <2>1 DEF KeepOriginal, Dir
      <4>2. live' = live \/ live' = [live EXCEPT ![from] = KeepOriginal(@)]
        BY <3>2 DEF Localize, Panic, dirs
      <4> QED BY <1>1, <4>1, <4>2
    <3> QED BY <1>8, <3>1, <3>2
  <2> QED BY <1>2, <2>2
<1>9. CASE Load
  <2>1. live'[s] = live[s] \/ live[s] = NoDir
    BY <1>1, <1>9 DEF Load, Panic, dirs, OInv, RelyInv
  <2> QED BY <1>2, <1>3, <2>1
<1>10. CASE GenFile
  BY <1>10, GenFilePreserves
<1>11. CASE GenConfig
  <2>1. live' = live \/ \E c \in Config : live' = SetConfig(step, c) /\ live[step] # NoDir
    BY <1>11, SpawnPlace, RefsFacts DEF GenConfig, Full, Config, Panic, dirs, IInv, DirInv
  <2>2. live[s] # NoDir => live'[s].file = live[s].file
    BY <1>1, <2>1, SetConfigTyped, SetOthers
  <2> QED BY <1>2, <2>2
<1>12. CASE Publish
  <2>1. live' = live \/ \E b : live' = [live EXCEPT ![step].boots = b]
    BY <1>12 DEF Publish, PublishedIn
  <2>2. live[s] # NoDir => live'[s].file = live[s].file
    BY <1>1, <2>1 DEF Dir
  <2> QED BY <1>2, <2>2
<1>13. CASE RemoveDebug \/ RenameDir \/ CreateDir
  <2>1. live'[s] \in {live[s], NoDir} \/ live[s] = NoDir
    BY <1>1, <1>13 DEF RemoveDebug, RenameDir, CreateDir, Panic, dirs, CInv, CopiesInv
  <2> QED BY <1>2, <1>3, <2>1
<1>14. CASE MoveConfig
  <2>1. live' = live \/ \E c \in Config : live' = SetConfig(step, c) /\ live[step] # NoDir
    BY <1>1, <1>14, DirTyped DEF MoveConfig, Panic, dirs, IInv, DirInv, DirOrNone
  <2>2. live[s] # NoDir => live'[s].file = live[s].file
    BY <1>1, <2>1, SetConfigTyped, SetOthers
  <2> QED BY <1>2, <2>2
<1>15. CASE MoveFile
  <2> DEFINE g == Needed[at]
  <2>1. pc = "moveFiles"
    BY <1>15, Zenon DEF MoveFile
  <2>2. g \in File /\ at \in DOMAIN Needed
    BY <2>1, NeededTyped DEF IInv, PlaceInv
  <2>3. CASE Missing(g)
    BY <1>2, <1>15, <2>3 DEF MoveFile, Panic, dirs
  <2>4. CASE ~Missing(g)
    <3>1. /\ live'[step].file = [live[step].file EXCEPT ![g] = debug[step].file[g]]
          /\ \A t \in Step \ {step} : live'[t] = live[t]
      BY <1>15, <2>2, <2>4, MoveFileDirs
    <3>2. live[step].file[g] = Absent
      BY <2>1, <2>2, <2>4 DEF Missing, CInv, CopiesInv
    <3> HIDE DEF g
    <3>3. \A f \in File : f # g /\ live[step] # NoDir => live'[step].file[f] = live[step].file[f]
      BY <1>1, <2>2, <3>1, DirTyped DEF DirOrNone
    <3> QED BY <1>1, <3>1, <3>2, <3>3 DEF Preserved
  <2> QED BY <2>3, <2>4
<1>16. CASE Die
  <2>1. CASE live' = live
    BY <1>2, <2>1
  <2>2. CASE live' # live
    BY <1>16, <2>2, TornKeeps DEF Die, Preserved
  <2> QED BY <2>1, <2>2
<1> QED BY <1>4, <1>5, <1>6, <1>7, <1>8, <1>9, <1>10, <1>11, <1>12, <1>13, <1>14, <1>15, <1>16
        DEF Next, Process

\* The inductive invariant of everything that rests on one state per directory.
LEMMA AllInductive == ~Reuse /\ Spec => [](IInv /\ AInv /\ OInv /\ CInv)
<1> SUFFICES ASSUME ~Reuse PROVE Spec => [](IInv /\ AInv /\ OInv /\ CInv)
  OBVIOUS
<1>1. Init => IInv /\ AInv /\ OInv /\ CInv
  BY InitInv, OneStateEmpty, BiteConfigsTyped
  DEF Init, AInv, QuietInv, WrittenInv, MovedInv, Idle, OInv, SingleInv, RelyInv,
      CInv, ConfigsInv, CopiesInv, RunningPcs, Step
<1>2. IInv /\ AInv /\ OInv /\ CInv /\ [Next]_vars => (IInv /\ AInv /\ OInv /\ CInv)'
  BY StepInv, StepReady, StepOne, StepCopies
<1> QED BY <1>1, <1>2, PTL DEF Spec

\* A file of an earlier command is never replaced by a later one's, whatever
\* died before, if no bite is made over another.
THEOREM EarlierFilesStay == ~Reuse /\ Spec => ContentMovedAside
<1> SUFFICES ASSUME ~Reuse PROVE Spec => ContentMovedAside
  OBVIOUS
<1>1. IInv /\ OInv /\ CInv /\ [Next]_vars => [\A s \in Step : Preserved(s)]_live
  BY StepPreserves
<1> QED BY <1>1, AllInductive, PTL DEF Spec, ContentMovedAside, Preserved

-----------------------------------------------------------------------------
(* Bundles.                                                                *)

\* A bundle is of a step's directory.
BundleInv ==
  /\ bundle \in Bundles /\ packs \in 0 .. MaxPacks
  /\ bundle.dir # NoDir => NamesSpec(bundle.dir.config)

\* What is in a directory after entries of a bundle were written over it.
LEMMA OverlayFacts ==
  ASSUME bundle \in Bundles, bundle.dir # NoDir, NEW d \in DirOrNone,
         NEW S \in SUBSET Entries(bundle.dir), NEW torn \in SUBSET Entries(bundle.dir),
         NEW part \in Config
  PROVE  LET b == Ensured(d)
             c == bundle.dir
             e == Overlay(b, S, torn, part)
         IN
         /\ b \in Dir /\ c \in Dir /\ e \in Dir /\ e # NoDir
         /\ \A f \in File : e.file[f] = IF f \in torn THEN Torn
                                        ELSE IF f \in S THEN c.file[f] ELSE b.file[f]
         /\ \A f \in File : f \in torn \cup S => c.file[f] # Absent
         /\ e.config = IF ConfigEntry \in torn THEN part
                       ELSE IF ConfigEntry \in S THEN c.config ELSE b.config
         /\ e.original = IF OriginalEntry \in torn THEN part
                         ELSE IF OriginalEntry \in S THEN c.original ELSE b.original
<1> DEFINE b == Ensured(d)
<1> DEFINE c == bundle.dir
<1> DEFINE e == Overlay(b, S, torn, part)
<1>1. b \in Dir /\ c \in Dir
  BY DirTyped DEF Ensured, DirOrNone, Bundles
<1>2. Torn \in Value
  BY DEF Value
<1>3. \A f \in File : f \in torn \cup S => c.file[f] # Absent
  <2>1. ConfigEntry \notin File /\ OriginalEntry \notin File
    BY DEF ConfigEntry, OriginalEntry, File
  <2> QED BY <2>1 DEF Entries
<1> DEFINE fs == [f \in File |-> Written(b, f, S, torn)]
<1> DEFINE bs == [x \in Chains |-> IF <<"spec", x>> \in S THEN c.boots[x] ELSE b.boots[x]]
<1> DEFINE k == IF ConfigEntry \in torn THEN part ELSE IF ConfigEntry \in S THEN c.config ELSE b.config
<1> DEFINE o == IF OriginalEntry \in torn THEN part
                ELSE IF OriginalEntry \in S THEN c.original ELSE b.original
<1>4. e = [file |-> fs, boots |-> bs, config |-> k, original |-> o]
  BY DEF Overlay
<1>5. fs \in [File -> Value]
  <2>1. b.file \in [File -> Value] /\ bundle.dir.file \in [File -> Value]
    BY <1>1, DirTyped
  <2> HIDE DEF b
  <2>2. \A f \in File : Written(b, f, S, torn) \in Value
    BY <1>2, <2>1 DEF Written
  <2> QED BY <2>2
<1>6. bs \in [Chains -> {0} \cup Run]
  <2>1. b.boots \in [Chains -> {0} \cup Run] /\ c.boots \in [Chains -> {0} \cup Run]
    BY <1>1, DirTyped
  <2> HIDE DEF b, c
  <2> QED BY <2>1
<1>7. k \in Config /\ o \in Config
  <2>1. b.config \in Config /\ c.config \in Config /\ b.original \in Config /\ c.original \in Config
    BY <1>1, DirTyped
  <2> HIDE DEF b, c
  <2> QED BY <1>2, <2>1
<1>8. \A f \in File : fs[f] = IF f \in torn THEN Torn ELSE IF f \in S THEN c.file[f] ELSE b.file[f]
  BY DEF Written
<1> HIDE DEF b, c, e, fs, bs, k, o
<1>9. e \in Dir /\ e.file = fs /\ e.config = k /\ e.original = o
  BY <1>4, <1>5, <1>6, <1>7 DEF Dir, Value
<1> QED BY <1>1, <1>3, <1>8, <1>9, DirTyped DEF b, c, e, k, o

LEMMA OverlayFiles ==
  ASSUME NEW d, NEW S, NEW torn, NEW part
  PROVE  LET c == bundle.dir
             e == Overlay(d, S, torn, part)
         IN
         /\ \A f \in File : e.file[f] = IF f \in torn THEN Torn
                                        ELSE IF f \in S THEN c.file[f] ELSE d.file[f]
         /\ e.config = IF ConfigEntry \in torn THEN part
                       ELSE IF ConfigEntry \in S THEN c.config ELSE d.config
BY DEF Overlay, Written

\* With no entry written in part.
LEMMA OverlayWhole ==
  ASSUME NEW d, NEW S, NEW p, NEW q
  PROVE  Overlay(d, S, {}, p) = Overlay(d, S, {}, q)
BY DEF Overlay, Written

\* An unpacking, complete or not: the directory of the step is written over,
\* and a network is spawned next, or none.
LEMMA UnpackEffects ==
  ASSUME TypeOK, BundleInv, UnpackAndSpawn \/ UnpackFails
  PROVE  /\ Idle /\ bundle.dir # NoDir /\ bundle.step \in Step
         /\ ~Reuse => Fits(live[bundle.step])
         /\ \E S, torn \in SUBSET Entries(bundle.dir), part \in TornConfigs :
              live'[bundle.step] = Overlay(Ensured(live[bundle.step]), S, torn, part)
         /\ live' = [live EXCEPT ![bundle.step] = live'[bundle.step]]
         /\ UNCHANGED <<debug, moved, config, acked, bundle, packs>>
         /\ run' = run + 1 /\ run' \in Run
         /\ \/ UnpackAndSpawn /\ pc' = "resolve" /\ cmd' = "spawn" /\ step' \in Step \ {"bite"}
               /\ live'[DirFrom(step')] # NoDir
            \/ UnpackFails /\ pc' = "idle" /\ UNCHANGED <<cmd, step>>
         /\ ready' \in {Torn, Absent} \cup Run
         /\ announced' = 0 \/ (announced' = announced /\ ready' = ready /\ bundle.step # "bite")
<1>1. bundle.step \in Step /\ live \in [Step -> DirOrNone] /\ run \in {0} \cup Run
  BY DEF BundleInv, Bundles, TypeOK, DirsOK, CommandOK
<1>2. bundle.dir # NoDir /\ (~Reuse => Fits(live[bundle.step]))
  BY DEF UnpackAndSpawn, UnpackFails, Unpacking
<1>3. UNCHANGED <<debug, moved, config, acked, bundle, packs>>
  BY DEF UnpackAndSpawn, UnpackFails
<1>4. /\ Idle /\ run < MaxRuns /\ run' = run + 1
      /\ \/ UnpackAndSpawn /\ pc' = "resolve" /\ cmd' = "spawn" /\ step' \in Step \ {"bite"}
            /\ live'[DirFrom(step')] # NoDir
         \/ UnpackFails /\ pc' = "idle" /\ UNCHANGED <<cmd, step>>
  BY DEF UnpackAndSpawn, UnpackFails, Start, Once, Goto
<1>5. run' \in Run
  BY <1>1, <1>4, StepBoundsAssumption DEF Run
<1>6. \E S, torn \in SUBSET Entries(bundle.dir), part \in TornConfigs :
        live' = Unpacked(S, torn, part)
  <2>1. CASE live' = AllUnpacked
    <3>1. PICK part \in TornConfigs : TRUE
      BY DEF TornConfigs
    <3>2. Unpacked(Entries(bundle.dir), {}, NoConfig) = Unpacked(Entries(bundle.dir), {}, part)
      BY OverlayWhole DEF Unpacked
    <3> QED BY <2>1, <3>2 DEF AllUnpacked
  <2>2. CASE \E G \in SUBSET Groups :
               LET S == Entries(bundle.dir) \cap UNION G
                   missing == Entries(bundle.dir) \ S
               IN
               \E torn \in {{}} \cup {{x} : x \in missing}, part \in TornConfigs :
                 live' = Unpacked(S, torn, part)
    <3>1. PICK G \in SUBSET Groups :
            LET S == Entries(bundle.dir) \cap UNION G
                missing == Entries(bundle.dir) \ S
            IN
            \E torn \in {{}} \cup {{x} : x \in missing}, part \in TornConfigs :
              live' = Unpacked(S, torn, part)
      BY <2>2
    <3> QED BY <3>1
  <2> QED BY <2>1, <2>2 DEF UnpackAndSpawn, UnpackFails
<1>7. /\ ready' \in {Torn, Absent} \cup Run
      /\ announced' = 0 \/ (announced' = announced /\ ready' = ready /\ bundle.step # "bite")
  <2>1. ready \in {Torn, Absent} \cup Run /\ bundle.ready \in {Torn, Absent} \cup Run
    BY DEF BundleInv, Bundles, TypeOK, DirsOK
  <2> QED BY <2>1 DEF UnpackAndSpawn, UnpackFails, StillAnnounced
<1> QED BY <1>1, <1>2, <1>3, <1>4, <1>5, <1>6, <1>7 DEF Unpacked

\* A step of the program leaves the bundle.
LEMMA HereFacts ==
  ASSUME [BundleNext]_bundleVars
  PROVE  \/ [Next]_vars /\ UNCHANGED <<bundle, packs>>
         \/ Pack \/ UnpackAndSpawn \/ UnpackFails \/ Elsewhere
BY DEF BundleNext, Here, bundleVars

\* A bundle is packed: nothing else changes but the number of commands.
LEMMA PackEffects ==
  ASSUME TypeOK, BundleInv, Pack
  PROVE  /\ Idle /\ pc' = "idle" /\ run' = run + 1 /\ run' \in Run
         /\ packs' \in 0 .. MaxPacks
         /\ \E s \in Step : live[s] # NoDir /\ bundle'.dir = live[s] /\ bundle'.step = s
         /\ bundle' \in Bundles
         /\ UNCHANGED <<dirs, stop, cmd, step, publish, bites, at, config, signalled, acked, announced>>
<1>1. /\ Idle /\ pc' = "idle" /\ run' = run + 1 /\ run < MaxRuns /\ packs' = packs + 1 /\ packs < MaxPacks
      /\ UNCHANGED <<dirs, stop, cmd, step, publish, bites, at, config, signalled, acked, announced>>
  BY DEF Pack, Once
<1>2. run' \in Run /\ packs' \in 0 .. MaxPacks
  BY <1>1, StepBoundsAssumption, MaxPacksAssumption DEF Run, TypeOK, CommandOK, BundleInv
<1>3. PICK s \in Step, whole \in BOOLEAN :
        live[s] # NoDir /\ bundle' = [dir |-> live[s], step |-> s, ready |-> ready, whole |-> whole]
  BY DEF Pack
<1>4. live[s] \in DirOrNone /\ ready \in {Torn, Absent} \cup Run
  BY DEF TypeOK, DirsOK
<1>5. bundle' \in Bundles
  BY <1>3, <1>4, Zenon DEF Bundles
<1> QED BY <1>1, <1>2, <1>3, <1>5

\* The types, and where a command is, stay known when bundles are used.
LEMMA BundleStepInv == IInv /\ BundleInv /\ [BundleNext]_bundleVars => IInv' /\ BundleInv'
<1> SUFFICES ASSUME IInv, BundleInv, [BundleNext]_bundleVars PROVE IInv' /\ BundleInv'
  OBVIOUS
<1>0. TypeOK
  BY DEF IInv
<1>1. CASE [Next]_vars /\ UNCHANGED <<bundle, packs>>
  BY <1>1, StepInv DEF BundleInv
<1>2. CASE Pack
  <2>1. /\ Idle /\ pc' = "idle" /\ run' \in Run
        /\ UNCHANGED <<dirs, stop, cmd, step, publish, bites, at, config, signalled, acked, announced>>
    BY <1>0, <1>2, PackEffects
  <2>2. FlagsOK'
    BY <2>1, Zenon DEF IInv, TypeOK, FlagsOK
  <2>3. DirsOK' /\ CommandOK'
    BY <2>1 DEF IInv, TypeOK, DirsOK, CommandOK, dirs
  <2>4. PlaceInv' /\ CommandInv' /\ DirInv' /\ ArtifactInv'
    BY <2>1 DEF PlaceInv, CommandInv, DirInv, ArtifactInv, Idle, CleanPcs
  <2>5. ConfigInv'
    BY <2>1 DEF IInv, ConfigInv, NamesSpec, dirs
  <2>6. BundleInv'
    BY <1>0, <1>2, PackEffects DEF BundleInv, IInv, ConfigInv
  <2> QED BY <2>2, <2>3, <2>4, <2>5, <2>6 DEF IInv, TypeOK
<1>3. CASE UnpackAndSpawn \/ UnpackFails
  <2> DEFINE s == bundle.step
  <2>1. /\ bundle.dir # NoDir /\ s \in Step /\ live' = [live EXCEPT ![s] = live'[s]]
        /\ UNCHANGED <<debug, moved, config, acked, bundle, packs>>
        /\ run' \in Run
        /\ \/ UnpackAndSpawn /\ pc' = "resolve" /\ cmd' = "spawn" /\ step' \in Step \ {"bite"}
              /\ live'[DirFrom(step')] # NoDir
           \/ UnpackFails /\ pc' = "idle" /\ UNCHANGED <<cmd, step>>
    BY <1>0, <1>3, UnpackEffects
  <2>2. PICK S \in SUBSET Entries(bundle.dir), torn \in SUBSET Entries(bundle.dir), part \in TornConfigs :
          live'[s] = Overlay(Ensured(live[s]), S, torn, part)
    BY <1>0, <1>3, UnpackEffects
  <2>3. live[s] \in DirOrNone /\ live \in [Step -> DirOrNone] /\ debug \in [Step -> DirOrNone]
    BY <2>1 DEF IInv, TypeOK, DirsOK
  <2>4. live'[s] \in Dir
    <3>1. part \in Config /\ bundle \in Bundles
      BY <2>2, TornTyped DEF BundleInv
    <3> HIDE DEF s
    <3>2. Overlay(Ensured(live[s]), S, torn, part) \in Dir
      BY <2>1, <2>2, <2>3, <3>1, OverlayFacts
    <3> QED BY <2>2, <3>2
  <2>5. NamesSpec(live'[s].config)
    <3>1. \/ live'[s].config = part \/ live'[s].config = bundle.dir.config
          \/ live'[s].config = Ensured(live[s]).config
      <4>1. part \in Config /\ bundle \in Bundles
        BY <2>2, TornTyped DEF BundleInv
      <4> HIDE DEF s
      <4>2. Overlay(Ensured(live[s]), S, torn, part).config
              = IF ConfigEntry \in torn THEN part
                ELSE IF ConfigEntry \in S THEN bundle.dir.config ELSE Ensured(live[s]).config
        BY OverlayFiles
      <4> QED BY <2>2, <4>2
    <3>2. NamesSpec(part) /\ NamesSpec(NoConfig) /\ EmptyDir.config = NoConfig
      BY <2>2, TornTyped DEF NamesSpec, NoConfig, EmptyDir
    <3>3. NamesSpec(bundle.dir.config)
      BY <2>1 DEF BundleInv
    <3>4. live[s] # NoDir => NamesSpec(live[s].config)
      BY <2>1 DEF IInv, ConfigInv
    <3> QED BY <3>1, <3>2, <3>3, <3>4, Zenon DEF Ensured
  <2>6. FlagsOK'
    <3>1. stop' = stop /\ publish' \in BOOLEAN /\ signalled' \in BOOLEAN
      <4>1. CASE UnpackAndSpawn
        BY <4>1, Zenon DEF UnpackAndSpawn, Start
      <4>2. CASE UnpackFails
        BY <4>2, Zenon DEF UnpackFails, IInv, TypeOK, FlagsOK
      <4> QED BY <1>3, <4>1, <4>2
    <3> QED BY <3>1, Zenon DEF IInv, TypeOK, FlagsOK
  <2>7. DirsOK'
    <3>1. ready' \in {Torn, Absent} \cup Run
      BY <1>0, <1>3, UnpackEffects
    <3>2. live' \in [Step -> DirOrNone]
      BY <2>1, <2>3, <2>4 DEF DirOrNone
    <3> QED BY <2>1, <3>1, <3>2 DEF IInv, TypeOK, DirsOK
  <2>8. CommandOK'
    <3>1. bites' = bites /\ (at' = 1 \/ at' = at) /\ (announced' = announced \/ announced' = 0)
      BY <1>0, <1>3, UnpackEffects DEF UnpackAndSpawn, UnpackFails, Start, Goto
    <3> QED BY <2>1, <3>1 DEF IInv, TypeOK, CommandOK
  <2>9. PlaceInv' /\ CommandInv' /\ ArtifactInv'
    BY <2>1 DEF PlaceInv, CommandInv, ArtifactInv, Idle, CleanPcs
  <2>10. DirInv'
    BY <2>1 DEF DirInv
  <2>11. ConfigInv'
    <3>1. \A t \in Step : live'[t] # NoDir => NamesSpec(live'[t].config)
      BY <2>1, <2>3, <2>5 DEF IInv, ConfigInv
    <3> QED BY <2>1, <3>1 DEF IInv, ConfigInv, NamesSpec
  <2>12. BundleInv'
    BY <2>1 DEF BundleInv
  <2> QED BY <2>6, <2>7, <2>8, <2>9, <2>10, <2>11, <2>12 DEF IInv, TypeOK
<1>4. CASE Elsewhere
  <2>1. /\ pc' = "idle" /\ cmd' = "none" /\ step' = "bite" /\ at' = 1 /\ config' = NoConfig
        /\ live' = [t \in Step |-> NoDir] /\ debug' = live' /\ moved' = [t \in Step |-> <<>>]
        /\ ready' = Absent /\ acked' = {} /\ announced' = 0
        /\ UNCHANGED <<run, bites, bundle, packs>>
    BY <1>4 DEF Elsewhere
  <2>2. FlagsOK'
    BY <1>4, Zenon DEF Elsewhere, FlagsOK
  <2>3. NoConfig \in Config
    BY DEF NoConfig, Config
  <2>4. DirsOK' /\ CommandOK'
    BY <2>1, <2>3 DEF IInv, TypeOK, DirsOK, CommandOK, DirOrNone, Step
  <2>5. PlaceInv' /\ CommandInv' /\ DirInv' /\ ArtifactInv'
    BY <2>1 DEF PlaceInv, CommandInv, DirInv, ArtifactInv, Idle, CleanPcs
  <2>6. ConfigInv'
    BY <2>1 DEF ConfigInv, NamesSpec, NoConfig
  <2>7. BundleInv'
    BY <2>1 DEF BundleInv
  <2> QED BY <2>2, <2>4, <2>5, <2>6, <2>7 DEF IInv, TypeOK
<1> QED BY <1>1, <1>2, <1>3, <1>4, HereFacts

\* Commands and bundles, in any order, keep the types and the places.
LEMMA BundleInductive == BundleSpec => [](IInv /\ BundleInv)
<1>1. BundleInit => IInv /\ BundleInv
  <2>1. NoBundle \in Bundles
    BY DEF NoBundle, Bundles, DirOrNone, Step
  <2> QED BY <2>1, InitInv, MaxPacksAssumption DEF BundleInit, BundleInv, NoBundle
<1> QED BY <1>1, BundleStepInv, PTL DEF BundleSpec

\* The states are well typed with bundles too.
THEOREM BundleTypes == BundleSpec => []BundleTypeOK
<1>1. IInv /\ BundleInv => BundleTypeOK
  BY DEF IInv, BundleInv, BundleTypeOK
<1> QED BY <1>1, BundleInductive, PTL

\* A step that could start a network when it was packed, and was packed whole,
\* can start one where it is unpacked, over whatever is there.
THEOREM UnpackedLoads == BundleSpec => UnpackedStepLoads
<1>1. IInv /\ BundleInv /\ [BundleNext]_bundleVars
        => [UnpackAndSpawn /\ Loads(bundle.dir) => Loads(live'[bundle.step])]_bundleVars
  <2> SUFFICES ASSUME IInv, BundleInv, UnpackAndSpawn, Loads(bundle.dir)
               PROVE  Loads(live'[bundle.step])
    BY Zenon
  <2> DEFINE S == Entries(bundle.dir)
  <2> DEFINE s == bundle.step
  <2> DEFINE e == Overlay(Ensured(live[s]), S, {}, NoConfig)
  <2>1. /\ bundle.dir # NoDir /\ bundle.dir \in Dir /\ s \in Step /\ live \in [Step -> DirOrNone]
        /\ live' = Unpacked(S, {}, NoConfig)
    BY DEF UnpackAndSpawn, AllUnpacked, Unpacking, BundleInv, Bundles, DirOrNone, IInv, TypeOK, DirsOK
  <2>2. live'[s] = e
    BY <2>1 DEF Unpacked
  <2>3. ConfigEntry \in S /\ \A f \in bundle.dir.config.refs : f \in File /\ f \in S
    <3>1. bundle.dir.config.refs \subseteq File
      BY <2>1, DirTyped DEF Config
    <3> QED BY <3>1, StepBoundsAssumption DEF Loads, Entries, Run, Absent
  <2>4. /\ e.config = bundle.dir.config
        /\ \A f \in File : f \in S => e.file[f] = bundle.dir.file[f]
    <3>3. e.config = IF ConfigEntry \in {} THEN NoConfig
                     ELSE IF ConfigEntry \in S THEN bundle.dir.config ELSE Ensured(live[s]).config
      BY OverlayFiles
    <3>4. \A f \in File : e.file[f] = IF f \in {} THEN Torn
                            ELSE IF f \in S THEN bundle.dir.file[f] ELSE Ensured(live[s]).file[f]
      BY OverlayFiles
    <3> HIDE DEF e, S
    <3> QED BY <2>3, <3>3, <3>4
  <2> QED BY <2>2, <2>3, <2>4 DEF Loads
<1> QED BY <1>1, BundleInductive, PTL DEF BundleSpec, UnpackedStepLoads

\* Packing, unpacking and going elsewhere are for a user who runs no command,
\* and acknowledge nothing.
LEMMA BundleOutside ==
  ASSUME TypeOK, BundleInv, Pack \/ UnpackAndSpawn \/ UnpackFails \/ Elsewhere
  PROVE  Idle /\ acked' \ acked = {}
<1>1. CASE Pack
  BY <1>1, PackEffects
<1>2. CASE UnpackAndSpawn \/ UnpackFails
  BY <1>2, UnpackEffects
<1>3. CASE Elsewhere
  BY <1>3 DEF Elsewhere
<1> QED BY <1>1, <1>2, <1>3

\* A signal is acknowledged with the artifacts in place, also where the step
\* before came out of a bundle.
THEOREM BundleAcks == BundleSpec => AckMeansArtifacts
<1>1. IInv /\ BundleInv /\ [BundleNext]_bundleVars => [Acknowledged]_vars
  <2> SUFFICES ASSUME IInv, BundleInv, [BundleNext]_bundleVars PROVE Acknowledged
    OBVIOUS
  <2>1. CASE [Next]_vars
    BY <2>1, StepAcks
  <2>2. CASE Pack \/ UnpackAndSpawn \/ UnpackFails \/ Elsewhere
    BY <2>2, BundleOutside DEF IInv, Acknowledged
  <2> QED BY <2>1, <2>2, HereFacts
<1> QED BY <1>1, BundleInductive, PTL DEF BundleSpec, AckMeansArtifacts, Acknowledged

\* The teardown of two validators' network never panics, also where the step
\* before came out of a bundle.
THEOREM BundleTearsDown == Validators = 2 /\ BundleSpec => TeardownNeverPanics
<1> SUFFICES ASSUME Validators = 2 PROVE BundleSpec => TeardownNeverPanics
  OBVIOUS
<1>1. IInv /\ BundleInv /\ [BundleNext]_bundleVars
        => [cmd = "spawn" /\ pc \in TeardownPcs => pc' # "panicked"]_vars
  <2> SUFFICES ASSUME IInv, BundleInv, [BundleNext]_bundleVars, cmd = "spawn", pc \in TeardownPcs
               PROVE  pc' # "panicked"
    BY Zenon
  <2>1. CASE [Next]_vars
    BY <2>1, TeardownStep
  <2>2. CASE Pack \/ UnpackAndSpawn \/ UnpackFails \/ Elsewhere
    BY <2>2, BundleOutside DEF IInv, Idle, TeardownPcs
  <2> QED BY <2>1, <2>2, HereFacts
<1> QED BY <1>1, BundleInductive, PTL DEF BundleSpec, TeardownNeverPanics

-----------------------------------------------------------------------------
(* Bundles, and what a network is started from.                            *)

\* A bundle holds one state, and a bite's only a bite's configs.
PackedInv ==
  bundle.dir # NoDir =>
    OneState(bundle.step, bundle.dir) /\ (bundle.step = "bite" => Bitten(bundle.dir))

LInv == AInv /\ OInv /\ CInv /\ PackedInv

\* What is in the directory an unpacking wrote into: the bundle's files, or those
\* of an earlier try, complete or not.
LEMMA UnpackFiles ==
  ASSUME ~Reuse, IInv, BundleInv, UnpackAndSpawn \/ UnpackFails
  PROVE  LET s == bundle.step
             b == Ensured(live[s])
             c == bundle.dir
             e == live'[s]
         IN
         /\ s \in Step /\ c # NoDir /\ c \in Dir /\ b \in Dir /\ e \in Dir
         /\ b # NoDir /\ e # NoDir
         /\ \A t \in Step \ {s} : live'[t] = live[t]
         /\ ~HasConfig(b) /\ (live[s] # NoDir => b = live[s])
         /\ \A f \in File : b.file[f] \in {Absent, Torn, c.file[f]}
         /\ \A f \in File : e.file[f] \in {Torn, b.file[f], c.file[f]}
         /\ \A f \in File : c.file[f] = Absent => e.file[f] = b.file[f]
         /\ e.config \in {b.config, c.config} \cup TornConfigs
         /\ e.original \in {b.original, c.original} \cup TornConfigs
<1> DEFINE s == bundle.step
<1> DEFINE b == Ensured(live[s])
<1> DEFINE c == bundle.dir
<1> DEFINE e == live'[s]
<1>1. /\ s \in Step /\ Fits(live[s]) /\ live[s] \in DirOrNone
      /\ live \in [Step -> DirOrNone] /\ live' = [live EXCEPT ![s] = live'[s]]
      /\ bundle \in Bundles /\ bundle.dir # NoDir
  BY UnpackEffects DEF IInv, TypeOK, DirsOK, BundleInv
<1>2. PICK S \in SUBSET Entries(bundle.dir), torn \in SUBSET Entries(bundle.dir), part \in TornConfigs :
        e = Overlay(b, S, torn, part)
  BY UnpackEffects DEF IInv
<1> DEFINE o == Overlay(b, S, torn, part)
<1>3. bundle \in Bundles /\ bundle.dir # NoDir /\ live[s] \in DirOrNone
  BY <1>1
<1>4. S \in SUBSET Entries(bundle.dir) /\ torn \in SUBSET Entries(bundle.dir) /\ part \in Config
  BY <1>2, TornTyped
<1>5. e = o
  BY <1>2
<1>6. c \in Dir /\ b \in Dir /\ e \in Dir /\ e # NoDir
  <2> HIDE DEF s
  <2>1. b \in Dir
    BY <1>3, DirTyped DEF Ensured, DirOrNone
  <2>3. o \in Dir
    BY <1>3, <1>4, OverlayFacts
  <2>4. o # NoDir
    BY <2>3, DirTyped
  <2>2. c \in Dir
    BY <1>3 DEF Bundles, DirOrNone
  <2> HIDE DEF o, b, c, e
  <2> QED BY <1>5, <2>1, <2>2, <2>3, <2>4
<1>7. \A f \in File : e.file[f] = IF f \in torn THEN Torn ELSE IF f \in S THEN c.file[f] ELSE b.file[f]
  <2> HIDE DEF s
  <2>1. \A f \in File : o.file[f] = IF f \in torn THEN Torn ELSE IF f \in S THEN c.file[f] ELSE b.file[f]
    BY OverlayFiles
  <2> HIDE DEF o, b, c, e
  <2> QED BY <1>5, <2>1
<1>8. \A f \in File : f \in torn \cup S => c.file[f] # Absent
  <2> HIDE DEF s
  <2> QED BY <1>3, <1>4, OverlayFacts
<1>9. /\ e.config \in {b.config, c.config} \cup TornConfigs
      /\ e.original \in {b.original, c.original} \cup TornConfigs
  <2> HIDE DEF s
  <2>1. o.config = IF ConfigEntry \in torn THEN part
                   ELSE IF ConfigEntry \in S THEN c.config ELSE b.config
    BY <1>3, <1>4, OverlayFacts
  <2>2. o.original = IF OriginalEntry \in torn THEN part
                     ELSE IF OriginalEntry \in S THEN c.original ELSE b.original
    BY <1>3, <1>4, OverlayFacts
  <2> HIDE DEF o, b, c, e
  <2> QED BY <1>2, <1>5, <2>1, <2>2
<1>10. (\A f \in File : b.file[f] \in {Absent, Torn, c.file[f]}) /\ ~HasConfig(b)
  <2>1. CASE live[s] = NoDir
    BY <2>1 DEF Ensured, EmptyDir, HasConfig, NoConfig
  <2>2. CASE live[s] # NoDir
    BY <1>1, <2>2 DEF Ensured, Fits
  <2> QED BY <2>1, <2>2
<1>11. b # NoDir /\ (live[s] # NoDir => b = live[s])
  BY <1>6, DirTyped DEF Ensured
<1>12. \A t \in Step \ {s} : live'[t] = live[t]
  BY <1>1
<1>13. (\A f \in File : e.file[f] \in {Torn, b.file[f], c.file[f]})
       /\ \A f \in File : c.file[f] = Absent => e.file[f] = b.file[f]
  <2> HIDE DEF b, c, e
  <2> QED BY <1>7, <1>8
<1>14. s \in Step /\ c # NoDir
  BY <1>1
<1> HIDE DEF b, c, e, o, s
<1> QED BY <1>6, <1>9, <1>10, <1>11, <1>12, <1>13, <1>14 DEF b, c, e, s

\* An unpacking fits the directory it is written into.
LEMMA UnpackOne ==
  ASSUME ~Reuse, IInv, BundleInv, LInv, UnpackAndSpawn \/ UnpackFails
  PROVE  LET s == bundle.step IN
         /\ OneState(s, live'[s]) /\ (s = "bite" => Bitten(live'[s]))
         /\ live[s] # NoDir => ~HasConfig(live[s])
         /\ live[s] # NoDir => \A f \in File :
              live[s].file[f] \in Run => live'[s].file[f] \in {live[s].file[f], Torn}
         /\ live'[s] # NoDir
         /\ \A t \in Step \ {s} : live'[t] = live[t]
<1> DEFINE s == bundle.step
<1> DEFINE b == Ensured(live[s])
<1> DEFINE c == bundle.dir
<1> DEFINE e == live'[s]
<1>1. /\ s \in Step /\ c # NoDir /\ b # NoDir /\ e # NoDir
      /\ \A t \in Step \ {s} : live'[t] = live[t]
      /\ ~HasConfig(b) /\ (live[s] # NoDir => b = live[s])
  BY UnpackFiles
<1>2. /\ \A f \in File : b.file[f] \in {Absent, Torn, c.file[f]}
      /\ \A f \in File : e.file[f] \in {Torn, b.file[f], c.file[f]}
      /\ \A f \in File : c.file[f] = Absent => e.file[f] = b.file[f]
  BY UnpackFiles
<1>3. /\ e.config \in {b.config, c.config} \cup TornConfigs
      /\ e.original \in {b.original, c.original} \cup TornConfigs
  BY UnpackFiles
<1>4. OneState(s, c) /\ (s = "bite" => Bitten(c)) /\ OneState(s, b) /\ (s = "bite" => Bitten(b))
  BY <1>1, OneStateEmpty, BiteConfigsTyped DEF LInv, PackedInv, OInv, SingleInv, CInv, ConfigsInv, Ensured
<1>5. Absent \notin Run /\ Torn \notin Run /\ StateFile \subseteq File
  BY StepBoundsAssumption DEF Absent, Torn, Run, StateFile
<1> HIDE DEF s, b, c, e
<1>6. OneState(s, e)
  <2>1. HasConfig(e) => HasConfig(c)
    BY <1>1, <1>3, TornTyped DEF HasConfig
  <2>2. s # "bite" \/ HasConfig(e) => \E r \in Value : Of(e, r)
    <3> SUFFICES ASSUME s # "bite" \/ HasConfig(e) PROVE \E r \in Value : Of(e, r)
      OBVIOUS
    <3>1. PICK r \in Value : Of(c, r)
      BY <1>4, <2>1 DEF OneState
    <3>2. \A f \in StateFile : e.file[f] \in {Absent, Torn, r}
      BY <1>1, <1>2, <1>5, <3>1 DEF Of
    <3> QED BY <3>2 DEF Of
  <2>3. ASSUME s = "bite", NEW f \in StateFile, f[1] # "snap" PROVE e.file[f] = Absent
    <3>1. c.file[f] = Absent /\ b.file[f] = Absent
      BY <1>1, <1>4, <2>3 DEF OneState
    <3> QED BY <1>2, <1>5, <3>1
  <2> QED BY <2>2, <2>3 DEF OneState
<1>7. s = "bite" => Bitten(e)
  BY <1>1, <1>3, <1>4 DEF Bitten, BiteConfigs
<1>8. live[s] # NoDir => ~HasConfig(live[s]) /\ \A f \in File :
        live[s].file[f] \in Run => e.file[f] \in {live[s].file[f], Torn}
  BY <1>1, <1>2, <1>5
<1> QED BY <1>1, <1>6, <1>7, <1>8 DEF s, e

\* Bundles keep all that is known of one state per directory.
LEMMA BundleStepOne ==
  ~Reuse /\ IInv /\ IInv' /\ BundleInv /\ LInv /\ [BundleNext]_bundleVars => LInv'
<1> SUFFICES ASSUME ~Reuse, IInv, IInv', BundleInv, LInv, [BundleNext]_bundleVars PROVE LInv'
  OBVIOUS
<1>0. TypeOK /\ "bite" \in Step
  BY DEF IInv, Step
<1>1. CASE [Next]_vars /\ UNCHANGED <<bundle, packs>>
  <2>1. AInv' /\ OInv' /\ CInv'
    BY <1>1, StepReady, StepOne, StepCopies DEF LInv
  <2>2. PackedInv'
    BY <1>1 DEF LInv, PackedInv, OneState, Of, HasConfig, Bitten
  <2> QED BY <2>1, <2>2 DEF LInv
<1>2. CASE Pack
  <2>1. /\ Idle /\ pc' = "idle" /\ UNCHANGED <<dirs, cmd, step, announced>>
        /\ \E s \in Step : live[s] # NoDir /\ bundle'.dir = live[s] /\ bundle'.step = s
    BY <1>0, <1>2, PackEffects
  <2>2. UNCHANGED <<live, debug, moved, ready>>
    BY <2>1 DEF dirs
  <2>3. AInv'
    BY <2>1, <2>2, Undisturbed DEF LInv, BiteSame
  <2>4. OInv'
    BY <2>1, <2>2, NoDirs, FreeRely DEF LInv, OInv, FreePcs
  <2>5. CInv'
    BY <2>1, <2>2, ConfigsKept, CopiesFree DEF LInv, CInv, ConfigsInv, RunningPcs, CleanPcs
  <2>6. PackedInv'
    BY <2>1 DEF LInv, OInv, SingleInv, CInv, ConfigsInv, PackedInv, OneState, Of, HasConfig, Bitten
  <2> QED BY <2>3, <2>4, <2>5, <2>6 DEF LInv
<1>3. CASE UnpackAndSpawn \/ UnpackFails
  <2> DEFINE s == bundle.step
  <2>1. /\ s \in Step /\ OneState(s, live'[s]) /\ (s = "bite" => Bitten(live'[s]))
        /\ live[s] # NoDir => ~HasConfig(live[s])
        /\ live'[s] # NoDir /\ \A t \in Step \ {s} : live'[t] = live[t]
    BY <1>0, <1>3, UnpackOne, UnpackEffects
  <2>2. /\ Idle /\ UNCHANGED <<debug, bundle>>
        /\ \/ UnpackAndSpawn /\ pc' = "resolve" /\ cmd' = "spawn" /\ step' \in Step \ {"bite"}
           \/ UnpackFails /\ pc' = "idle" /\ UNCHANGED <<cmd, step>>
    BY <1>0, <1>3, UnpackEffects
  <2>3. announced' = 0 \/ (announced' = announced /\ ready' = ready /\ s # "bite")
    BY <1>0, <1>3, UnpackEffects
  <2>4. OInv'
    BY <2>1, <2>2, OneDir, FreeRely DEF LInv, OInv, FreePcs
  <2>5. CInv'
    <3>1. Bitten(live'["bite"]) /\ Bitten(debug'["bite"])
      BY <1>0, <2>1, <2>2 DEF LInv, CInv, ConfigsInv
    <3> QED BY <2>2, <3>1, ConfigsKept, CopiesFree DEF CInv, RunningPcs, CleanPcs
  <2>6. AInv'
    <3>1. CASE announced' = 0
      BY <2>2, <3>1, Unannounced
    <3>2. CASE announced' # 0
      <4>1. live'["bite"] = live["bite"] /\ announced' = announced /\ ready' = ready
        BY <1>0, <2>1, <2>3, <3>2
      <4> QED BY <2>2, <4>1, Undisturbed DEF LInv, BiteSame
    <3> QED BY <3>1, <3>2
  <2>7. PackedInv'
    BY <2>2 DEF LInv, PackedInv, OneState, Of, HasConfig, Bitten
  <2> QED BY <2>4, <2>5, <2>6, <2>7 DEF LInv
<1>4. CASE Elsewhere
  <2>1. /\ pc' = "idle" /\ cmd' = "none" /\ announced' = 0 /\ bundle' = bundle
        /\ \A s \in Step : live'[s] = NoDir /\ debug'[s] = NoDir
    BY <1>4 DEF Elsewhere
  <2>2. AInv'
    BY <2>1, Unannounced
  <2>3. OInv'
    BY <2>1, OneStateEmpty, FreeRely DEF OInv, SingleInv, FreePcs
  <2>4. CInv'
    BY <1>0, <2>1, BiteConfigsTyped, ConfigsKept, CopiesFree DEF CInv, RunningPcs
  <2>5. PackedInv'
    BY <2>1 DEF LInv, PackedInv, OneState, Of, HasConfig, Bitten
  <2> QED BY <2>2, <2>3, <2>4, <2>5 DEF LInv
<1> QED BY <1>1, <1>2, <1>3, <1>4, HereFacts

LEMMA BundleOneInductive == ~Reuse /\ BundleSpec => [](IInv /\ BundleInv /\ LInv)
<1> SUFFICES ASSUME ~Reuse PROVE BundleSpec => [](IInv /\ BundleInv /\ LInv)
  OBVIOUS
<1>1. BundleInit => LInv
  <2> SUFFICES ASSUME BundleInit PROVE LInv
    OBVIOUS
  <2>1. Init /\ bundle.dir = NoDir /\ announced = 0
    BY DEF BundleInit, NoBundle, Init
  <2>2. AInv /\ OInv /\ CInv
    BY <2>1, OneStateEmpty, BiteConfigsTyped
    DEF Init, AInv, QuietInv, WrittenInv, MovedInv, Idle, OInv, SingleInv, RelyInv,
        CInv, ConfigsInv, CopiesInv, RunningPcs, Step
  <2> QED BY <2>1, <2>2 DEF LInv, PackedInv
<1>2. IInv /\ IInv' /\ BundleInv /\ LInv /\ [BundleNext]_bundleVars => LInv'
  BY BundleStepOne
<1> QED BY <1>1, <1>2, BundleInductive, PTL DEF BundleSpec

\* Whatever is packed, unpacked in part or over what is left of another try, and
\* spawned: a network starts from snapshots of one moment.
THEOREM BundleOneState == ~Reuse /\ BundleSpec => []RunsOnOneState
<1>1. IInv /\ LInv => RunsOnOneState
  BY OneStateThere DEF LInv
<1> QED BY <1>1, BundleOneInductive, PTL

\* What ready.json announces exists, also when bundles are unpacked over bite/.
THEOREM BundleAnnounced == ~Reuse /\ BundleSpec => []ReadyHasArtifacts
<1>1. LInv => ReadyHasArtifacts
  BY DEF LInv, AInv, MovedInv, Somewhere, ReadyHasArtifacts
<1> QED BY <1>1, BundleOneInductive, PTL

\* The bite can start the next network too, however many were started from it
\* and wherever they and the commands of other steps died, also when bundles
\* are packed from it and unpacked.
THEOREM BiteStaysWhole == ~Reuse /\ BundleSpec => BiteLeftUntouched
<1> SUFFICES ASSUME ~Reuse PROVE BundleSpec => BiteLeftUntouched
  OBVIOUS
<1>1. IInv /\ BundleInv /\ LInv /\ [BundleNext]_bundleVars => [BiteKept \/ Elsewhere]_bundleVars
  <2> SUFFICES ASSUME IInv, BundleInv, LInv, [BundleNext]_bundleVars, ~Elsewhere PROVE BiteKept
    BY Zenon
  <2>1. CASE [Next]_vars
    BY <2>1, StepWhole DEF LInv
  <2>2. CASE Pack \/ UnpackAndSpawn \/ UnpackFails
    <3> SUFFICES ASSUME BiteIsWhole PROVE BiteIsWhole'
      BY DEF BiteKept
    <3>1. ~Rewriting("bite") /\ ~Rewriting("bite")'
      BY <2>2, PackEffects, UnpackEffects DEF IInv, Idle, Rewriting
    <3>2. live'["bite"] = live["bite"]
      <4>1. CASE Pack
        BY <4>1, PackEffects DEF IInv, dirs
      <4>2. CASE UnpackAndSpawn \/ UnpackFails
        <5>1. HasConfig(live["bite"])
          BY <3>1, WholeFacts DEF LInv, HasConfig, Full
        <5>2. bundle.step # "bite"
          BY <4>2, <5>1, UnpackOne DEF HasConfig
        <5> QED BY <4>2, <5>2, UnpackOne DEF Step
      <4> QED BY <2>2, <4>1, <4>2
    <3> QED BY <3>1, <3>2, BiteUnmoved DEF LInv
  <2> QED BY <2>1, <2>2, HereFacts
<1> QED BY <1>1, BundleOneInductive, PTL DEF BundleSpec, BiteLeftUntouched

\* No file of an earlier command is replaced by another's, and none by an
\* unpacking.
THEOREM BundleFilesStay == ~Reuse /\ BundleSpec => ContentMovedAside
<1> SUFFICES ASSUME ~Reuse PROVE BundleSpec => ContentMovedAside
  OBVIOUS
<1>1. IInv /\ BundleInv /\ LInv /\ [BundleNext]_bundleVars => [\A s \in Step : Preserved(s)]_live
  <2> SUFFICES ASSUME IInv, BundleInv, LInv, [BundleNext]_bundleVars PROVE \A s \in Step : Preserved(s)
    OBVIOUS
  <2>1. CASE [Next]_vars
    BY <2>1, StepPreserves DEF LInv
  <2>2. CASE Pack
    <3>1. live' = live
      BY <2>2, PackEffects DEF IInv, dirs
    <3> QED BY <3>1 DEF Preserved
  <2>3. CASE UnpackAndSpawn \/ UnpackFails
    BY <2>3, UnpackOne DEF Preserved
  <2>4. CASE Elsewhere
    BY <2>4 DEF Elsewhere, Preserved
  <2> QED BY <2>1, <2>2, <2>3, <2>4, HereFacts
<1> QED BY <1>1, BundleOneInductive, PTL DEF BundleSpec, ContentMovedAside, Preserved

=============================================================================
