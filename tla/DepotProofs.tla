------------------------------ MODULE DepotProofs ------------------------------
(***************************************************************************)
(* StepDirs implements Depot, and so does Bundle: for any parachains, and  *)
(* any number of bites, spawns, helper commands, bundles and deaths, the   *)
(* completed runs come and go in single steps, and none is lost.           *)
(***************************************************************************)
EXTENDS ReadyProofs

Alice(d) == d.file[<<"alice", RC>>]
Data(d) == d.file[<<"data", RC>>]

\* The runs whose state a directory holds, as a snapshot or as nodes' data.
States(d) == IF d = NoDir THEN {} ELSE {Alice(d), Data(d)}

Busy == ~Idle /\ pc # "resolve"
MovePcs == {"createDir", "moveConfig", "moveFiles"}

\* Nothing on disk is of a later run, and no run is promised before it ends.
NumberInv ==
  /\ \A s \in Step : /\ \A r \in States(live[s]) \cup States(debug[s]) : r <= run
                     /\ \A i \in DOMAIN moved[s] : Alice(moved[s][i]) <= run
  /\ \A r \in acked : r <= run
  /\ ~Idle => run \notin acked

\* While a spawn runs, its state is in its own directory only.
OwnInv ==
  ~Idle /\ cmd = "spawn" =>
    \A s \in Step : /\ s # step \/ pc = "resolve" => run \notin States(live[s])
                    /\ \A i \in DOMAIN moved[s] : Alice(moved[s][i]) # run

\* No promised run has its data in a directory, and none is where a command works.
FreeInv ==
  /\ \A s \in Step : live[s] # NoDir => Data(live[s]) \notin acked
  /\ live["bite"] # NoDir => Alice(live["bite"]) \notin acked
  /\ Busy => States(live[step]) \cap acked = {}
  /\ pc \in MovePcs => States(debug[step]) \cap acked = {}

\* The clean-up of a teardown leaves the data behind.
DataInv ==
  cmd = "spawn" /\ (pc \in {"moveConfig", "moveFiles", "publish"} \/ (pc = "finish" /\ signalled)) =>
    Data(live[step]) = Absent

\* Where a config is re-pointed there is none meanwhile.
GapInv == pc = "repoint" => live[DirFrom(step)].config = NoConfig

RInv == NumberInv /\ OwnInv /\ FreeInv /\ DataInv /\ GapInv

-----------------------------------------------------------------------------
(* A step that works in the running command's directory, with its own state *)
(* and what was there, and leaves the states of the others.                 *)

Same(t) ==
  /\ live'[t] = NoDir <=> live[t] = NoDir
  /\ live[t] # NoDir => live'[t].file = live[t].file
  /\ \A r : Holds(Seen(t)', r) <=> Holds(Seen(t), r)

Local ==
  {Absent, Torn, run} \cup States(live[step])
    \cup (IF pc \in MovePcs THEN States(debug[step]) ELSE {})

Tame ==
  /\ Busy /\ pc' # "resolve"
  /\ UNCHANGED <<moved, acked, cmd, step, run>>
  /\ GapInv'
  /\ \A t \in Step \ {step} : Same(t) /\ debug'[t] = debug[t]
  /\ Seen(step) = live[step] /\ Seen(step)' = live'[step]
  /\ States(live'[step]) \subseteq Local
  /\ States(debug'[step]) \subseteq Local \cup States(debug[step])
  /\ pc' \in MovePcs => States(debug'[step]) \subseteq Local

\* What the files of a directory can be.
LEMMA StateValues ==
  ASSUME TypeOK
  PROVE  /\ Run \subseteq Nat \ {0} /\ Absent \notin Run /\ Torn \notin Run
         /\ acked \subseteq Run /\ step \in Step /\ run \in Nat
         /\ \A s \in Step : States(live[s]) \subseteq Value /\ States(debug[s]) \subseteq Value
         /\ \A s \in Step : \A i \in DOMAIN moved[s] : moved[s][i] \in Dir
         /\ \A d \in Dir : d # NoDir /\ Alice(d) \in Value /\ Data(d) \in Value
         /\ Value \subseteq Int
<1>1. Run \subseteq Nat \ {0} /\ Absent \notin Run /\ Torn \notin Run /\ Value \subseteq Int
  BY StepBoundsAssumption DEF Run, Absent, Torn, Value
<1>2. acked \subseteq Run /\ step \in Step /\ run \in Nat
  BY <1>1 DEF TypeOK, CommandOK
<1>3. \A d \in Dir : d # NoDir /\ Alice(d) \in Value /\ Data(d) \in Value
  BY DirTyped, FileFacts DEF Alice, Data
<1>4. \A s \in Step : States(live[s]) \subseteq Value /\ States(debug[s]) \subseteq Value
  BY <1>3 DEF TypeOK, DirsOK, DirOrNone, States
<1>5. \A s \in Step : \A i \in DOMAIN moved[s] : moved[s][i] \in Dir
  BY DEF TypeOK, DirsOK
<1> QED BY <1>1, <1>2, <1>3, <1>4, <1>5

\* What is on disk is what is seen, but for a config that is re-pointed.
LEMMA SeenLive ==
  /\ pc # "repoint" => \A s : Seen(s) = live[s]
  /\ \A s : s # DirFrom(step) => Seen(s) = live[s]
BY DEF Seen, Rewriting

LEMMA SeenLiveNext ==
  /\ pc' # "repoint" => \A s : Seen(s)' = live'[s]
  /\ \A s : s # DirFrom(step)' => Seen(s)' = live'[s]
BY DEF Seen, Rewriting

\* A directory that only its config tells from another.
LEMMA HoldsWith ==
  ASSUME NEW d \in Dir, NEW c \in Config, NEW r
  PROVE  /\ Holds([d EXCEPT !.config = c], r) <=>
               c.state = "full" /\ Alice(d) = r /\ d.file[<<"spec", RC>>] \in Run
         /\ Holds(d, r) <=> d.config.state = "full" /\ Alice(d) = r /\ d.file[<<"spec", RC>>] \in Run
BY WithConfig, DirTyped DEF Holds, HasConfig, Alice

\* Nothing a command works with is promised, or of a later run.
LEMMA LocalFacts ==
  ASSUME IInv, NumberInv, FreeInv, Busy
  PROVE  Local \cap acked = {} /\ \A r \in Local : r <= run
<1>1. /\ Absent \notin Run /\ Torn \notin Run /\ acked \subseteq Run /\ step \in Step
      /\ run \in Nat
  BY StateValues DEF IInv
<1>2. /\ run \notin acked
      /\ \A r \in States(live[step]) \cup States(debug[step]) : r <= run
  BY <1>1 DEF NumberInv, Busy
<1>3. /\ States(live[step]) \cap acked = {}
      /\ pc \in MovePcs => States(debug[step]) \cap acked = {}
  BY DEF FreeInv
<1>4. Absent <= run /\ Torn <= run /\ run <= run
  BY <1>1 DEF Absent, Torn
<1> QED BY <1>1, <1>2, <1>3, <1>4 DEF Local

LEMMA TameKeeps ==
  ASSUME IInv, NumberInv, OwnInv, FreeInv, Tame
  PROVE  NumberInv' /\ OwnInv' /\ FreeInv'
<1>1. Local \cap acked = {} /\ (\A r \in Local : r <= run) /\ step \in Step
  BY LocalFacts, StateValues DEF Tame, IInv
<1>2. /\ UNCHANGED <<moved, acked, cmd, step, run>>
      /\ pc' # "resolve" /\ ~Idle /\ pc # "resolve"
  BY DEF Tame, Busy
<1>3. \A t \in Step \ {step} :
        /\ States(live'[t]) = States(live[t]) /\ States(debug'[t]) = States(debug[t])
        /\ live'[t] = NoDir <=> live[t] = NoDir
        /\ live[t] # NoDir => Data(live'[t]) = Data(live[t]) /\ Alice(live'[t]) = Alice(live[t])
  BY DEF Tame, Same, States, Alice, Data
<1>4. /\ States(live'[step]) \subseteq Local
      /\ States(debug'[step]) \subseteq Local \cup States(debug[step])
      /\ pc' \in MovePcs => States(debug'[step]) \subseteq Local
  BY DEF Tame
<1>5. NumberInv'
  <2>1. \A s \in Step : \A r \in States(live'[s]) \cup States(debug'[s]) : r <= run
    BY <1>1, <1>3, <1>4 DEF NumberInv
  <2> QED BY <1>2, <2>1 DEF NumberInv, States, Alice, Data
<1>6. OwnInv'
  <2>1. \A s \in Step : s # step => States(live'[s]) = States(live[s])
    BY <1>3
  <2> QED BY <1>2, <2>1 DEF OwnInv, Idle, States, Alice, Data
<1>7. FreeInv'
  <2>1. States(live'[step]) \cap acked = {}
    BY <1>1, <1>4
  <2>2. pc' \in MovePcs => States(debug'[step]) \cap acked = {}
    BY <1>1, <1>4
  <2>3. \A s \in Step : live'[s] # NoDir =>
          /\ Data(live'[s]) \notin acked
          /\ s = "bite" => Alice(live'[s]) \notin acked
    <3>1. ASSUME NEW s \in Step \ {step}, live'[s] # NoDir
          PROVE  /\ Data(live'[s]) \notin acked
                 /\ s = "bite" => Alice(live'[s]) \notin acked
      BY <1>3, <3>1 DEF FreeInv
    <3>2. ASSUME live'[step] # NoDir
          PROVE  Data(live'[step]) \notin acked /\ Alice(live'[step]) \notin acked
      BY <2>1, <3>2 DEF States
    <3> QED BY <3>1, <3>2
  <2>4. "bite" \in Step
    BY DEF Step
  <2> QED BY <1>2, <2>1, <2>2, <2>3, <2>4 DEF FreeInv, Busy, States, Alice, Data
<1> QED BY <1>5, <1>6, <1>7

\* A directory that holds what it held.
LEMMA HeldKept ==
  ASSUME acked' = acked,
         \A s \in Step \ {"bite"} : \A r \in acked : Holds(Seen(s)', r) <=> Holds(Seen(s), r)
  PROVE  held' = held
<1>1. ASSUME NEW s \in Step \ {"bite"} PROVE held'[s] = held[s]
  <2>1. held'[s] = IF \E r \in acked : Holds(Seen(s)', r) THEN Alice(Seen(s)') ELSE Absent
    BY DEF held, Alice
  <2>2. held[s] = IF \E r \in acked : Holds(Seen(s), r) THEN Alice(Seen(s)) ELSE Absent
    BY DEF held, Alice
  <2>3. \A d, r : Holds(d, r) => Alice(d) = r
    BY DEF Holds, Alice
  <2> QED BY <2>1, <2>2, <2>3
<1>2. held = [s \in Step \ {"bite"} |-> held[s]] /\ held' = [s \in Step \ {"bite"} |-> held'[s]]
  BY DEF held
<1> HIDE DEF held
<1> QED BY <1>1, <1>2

\* The depot does not see such a step.
LEMMA TameStutters ==
  ASSUME IInv, NumberInv, FreeInv, Tame
  PROVE  held' = held /\ attic' = attic /\ acked' = acked
<1>1. UNCHANGED <<moved, acked>> /\ step \in Step
  BY StateValues DEF Tame, IInv
<1>2. attic' = attic
  BY <1>1 DEF attic, InNumbered, Holds, HasConfig
<1>3. Local \cap acked = {}
  BY LocalFacts DEF Tame
<1>4. ASSUME NEW d, States(d) \subseteq Local, NEW r \in acked PROVE ~Holds(d, r)
  BY <1>3, <1>4 DEF Holds, HasConfig, States, Alice
<1>5. ASSUME NEW s \in Step, NEW r \in acked
      PROVE  Holds(Seen(s)', r) <=> Holds(Seen(s), r)
  <2>1. CASE s = step
    <3>1. States(Seen(s)) \subseteq Local /\ States(Seen(s)') \subseteq Local
      BY <2>1 DEF Tame, Local
    <3> QED BY <1>4, <3>1
  <2>2. CASE s # step
    BY <2>2 DEF Tame, Same
  <2> QED BY <2>1, <2>2
<1>6. held' = held
  BY <1>1, <1>5, HeldKept
<1> QED BY <1>1, <1>2, <1>6

-----------------------------------------------------------------------------
(* What the steps of the process do to it, and to DataInv.                 *)

\* A step in the directory of the command.
LEMMA InStepTame ==
  ASSUME Busy, pc # "repoint", pc' \notin {"resolve", "repoint"}, pc' \in MovePcs => pc \in MovePcs,
         UNCHANGED <<debug, moved, acked, cmd, step, run>>,
         \A t \in Step \ {step} : live'[t] = live[t],
         States(live'[step]) \subseteq Local
  PROVE  Tame
<1>1. /\ \A t \in Step \ {step} : Same(t)
      /\ Seen(step) = live[step] /\ Seen(step)' = live'[step]
  BY SeenLive, SeenLiveNext DEF Same
<1>2. States(debug[step]) \subseteq Local \cup States(debug[step])
  OBVIOUS
<1>3. pc \in MovePcs => States(debug[step]) \subseteq Local
  BY DEF Local
<1> QED BY <1>1, <1>2, <1>3 DEF Tame, GapInv

\* Nothing on disk changes.
LEMMA StillTame ==
  ASSUME Busy, pc # "repoint", pc' \notin MovePcs \cup {"resolve", "repoint"},
         UNCHANGED <<live, debug, moved, acked, cmd, step, run>>
  PROVE  Tame
<1>1. States(live'[step]) \subseteq Local
  BY DEF Local
<1> QED BY <1>1, InStepTame

LEMMA StillSteps ==
  ASSUME IInv, RInv, Busy, pc # "repoint",
         BiteReady \/ Startup \/ LoopEnds \/ Teardown \/ GenConfigRead \/ Panic
  PROVE  Tame /\ DataInv'
<1>1. /\ UNCHANGED <<live, debug, moved, acked, cmd, step, run>>
      /\ pc' \in {"removeDebug", "loop", "teardown", "genConfigRead", "finish", "genFiles", "panicked"}
  BY DEF BiteReady, Startup, LoopEnds, Teardown, GenConfigRead, Panic, Goto, dirs, args
<1>2. Tame
  BY <1>1, StillTame DEF MovePcs
<1>3. pc' = "finish" => ~signalled'
  <2>1. pc' = "finish" => Teardown /\ ~stop
    BY Zenon DEF BiteReady, Startup, LoopEnds, Teardown, GenConfigRead, Panic, Goto
  <2> QED BY <2>1, Zenon DEF Teardown
<1>4. DataInv'
  BY <1>1, <1>3, Zenon DEF DataInv
<1> QED BY <1>2, <1>4

\* The states of a directory one of whose files is replaced.
LEMMA SetFileStates ==
  ASSUME live \in [Step -> DirOrNone],
         NEW s \in Step, live[s] # NoDir, NEW f \in File, NEW r \in Value
  PROVE  /\ States(SetFile(s, f, r)[s]) \subseteq {r} \cup States(live[s])
         /\ f[1] # "data" => Data(SetFile(s, f, r)[s]) = Data(live[s])
         /\ SetFile(s, f, r)[s] # NoDir
<1>1. /\ SetFile(s, f, r)[s] \in Dir
      /\ SetFile(s, f, r)[s].file = [live[s].file EXCEPT ![f] = r]
  BY SetFileTyped
<1>2. live[s] \in Dir
  BY DEF DirOrNone
<1>3. /\ live[s].file \in [File -> Value]
      /\ <<"alice", RC>> \in File /\ <<"data", RC>> \in File
  BY <1>2, DirTyped, FileFacts
<1>4. /\ Alice(SetFile(s, f, r)[s]) \in {r, Alice(live[s])}
      /\ Data(SetFile(s, f, r)[s]) \in {r, Data(live[s])}
      /\ f[1] # "data" => Data(SetFile(s, f, r)[s]) = Data(live[s])
  BY <1>1, <1>3 DEF Alice, Data
<1>5. SetFile(s, f, r)[s] # NoDir
  BY <1>1, DirTyped
<1> QED BY <1>4, <1>5 DEF States

\* A file of the directory is written, or is left torn.
LEMMA FileTame ==
  ASSUME IInv, Busy, pc # "repoint", pc' \notin {"resolve", "repoint"},
         pc' \in MovePcs => pc \in MovePcs,
         UNCHANGED <<debug, moved, acked, cmd, step, run>>,
         live[step] # NoDir, NEW f \in File, NEW r \in {Torn, run}, r \in Value,
         live' = SetFile(step, f, r)
  PROVE  Tame
<1>1. live \in [Step -> DirOrNone] /\ step \in Step
  BY DEF IInv, TypeOK, DirsOK, CommandOK
<1>2. States(live'[step]) \subseteq {r} \cup States(live[step])
  BY <1>1, SetFileStates
<1>3. \A t \in Step \ {step} : live'[t] = live[t]
  BY <1>1, SetOthers
<1>4. States(live'[step]) \subseteq Local
  BY <1>2 DEF Local
<1> QED BY <1>3, <1>4, InStepTame

\* So is a config.
LEMMA ConfigTame ==
  ASSUME IInv, Busy, pc # "repoint", pc' \notin MovePcs \cup {"resolve", "repoint"},
         UNCHANGED <<debug, moved, acked, cmd, step, run>>,
         live[step] # NoDir, NEW c \in Config,
         live' = SetConfig(step, c)
  PROVE  Tame
<1>1. live \in [Step -> DirOrNone] /\ step \in Step
  BY DEF IInv, TypeOK, DirsOK, CommandOK
<1>2. live'[step].file = live[step].file /\ live'[step] # NoDir
  BY <1>1, SetConfigTyped, DirTyped
<1>3. \A t \in Step \ {step} : live'[t] = live[t]
  BY <1>1, SetOthers
<1>4. States(live'[step]) \subseteq Local
  BY <1>2 DEF Local, States, Alice, Data
<1> QED BY <1>3, <1>4, InStepTame

LEMMA BiteTame ==
  ASSUME IInv, RInv, BiteFile \/ BiteConfig
  PROVE  Tame /\ DataInv'
<1>1. /\ Busy /\ cmd = "bite" /\ step = "bite" /\ run \in Run /\ live[step] # NoDir
      /\ pc \in {"biteFiles", "biteConfig"}
  BY DEF Busy, Idle, BiteFile, BiteConfig, IInv, CommandInv, DirInv
<1>2. /\ UNCHANGED <<debug, moved, acked, cmd, step, run, config>>
      /\ pc' \in {"biteFiles", "biteConfig", "biteReady"}
  BY DEF BiteFile, BiteConfig, Goto, args
<1>3. Tame
  <2>1. CASE BiteFile
    <3>1. BiteFiles[at] \in File
      BY <2>1, ListsTyped DEF BiteFile, IInv, PlaceInv
    <3>2. run \in Value /\ live' = SetFile(step, BiteFiles[at], run)
      BY <1>1, <2>1 DEF BiteFile, Value
    <3> QED BY <1>1, <1>2, <3>1, <3>2, FileTame DEF MovePcs
  <2>2. CASE BiteConfig
    <3>1. Full(BiteRefs) \in Config
      BY RefsFacts DEF Full, Config
    <3>2. live' = SetConfig(step, Full(BiteRefs))
      BY <1>1, <2>2 DEF BiteConfig
    <3> QED BY <1>1, <1>2, <3>1, <3>2, ConfigTame DEF MovePcs
  <2> QED BY <2>1, <2>2
<1>4. DataInv'
  BY <1>1, <1>2 DEF DataInv
<1> QED BY <1>3, <1>4

\* A panic of a command that is working.
LEMMA PanicTame ==
  ASSUME IInv, RInv, Busy, pc # "repoint", Panic
  PROVE  Tame /\ DataInv'
BY StillSteps

\* The config of the directory spawned from is on its way, or back.
LEMMA FromTame ==
  ASSUME IInv, Busy, pc' \notin MovePcs \cup {"resolve"},
         UNCHANGED <<debug, moved, acked, cmd, step, run>>,
         NEW from \in Step, from = DirFrom(step), from # step, live[from] # NoDir,
         NEW c \in Config, NEW o \in Config,
         live' = [live EXCEPT ![from] = [live[from] EXCEPT !.original = o, !.config = c]],
         pc' = "repoint" => c = NoConfig,
         \A r : Holds(Seen(from)', r) <=> Holds(Seen(from), r)
  PROVE  Tame
<1>1. live \in [Step -> DirOrNone] /\ step \in Step /\ live[from] \in Dir
  BY DEF IInv, TypeOK, DirsOK, CommandOK, DirOrNone
<1> DEFINE e == [live[from] EXCEPT !.original = o, !.config = c]
<1>2. e \in Dir /\ e.file = live[from].file /\ e.config = c
  BY <1>1 DEF Dir
<1> HIDE DEF e
<1>3. live'[from] = e /\ (\A t \in Step \ {from} : live'[t] = live[t]) /\ e # NoDir
  BY <1>1, <1>2, DirTyped DEF e
<1>4. \A t \in Step \ {from} : Seen(t) = live[t] /\ Seen(t)' = live'[t]
  BY SeenLive, SeenLiveNext
<1>5. \A t \in Step : Same(t)
  <2>1. Same(from)
    BY <1>2, <1>3 DEF Same
  <2>2. ASSUME NEW t \in Step \ {from} PROVE Same(t)
    BY <1>3, <1>4 DEF Same
  <2> QED BY <2>1, <2>2
<1>6. States(live'[step]) = States(live[step])
  BY <1>1, <1>3
<1>7. GapInv'
  BY <1>2, <1>3 DEF GapInv
<1> QED BY <1>1, <1>4, <1>5, <1>6, <1>7 DEF Tame, Local

LEMMA LocalizeTame ==
  ASSUME IInv, RInv, Localize
  PROVE  Tame /\ DataInv'
<1> DEFINE from == DirFrom(step)
<1>1. /\ Busy /\ pc = "localize" /\ step \in Step /\ from \in Step /\ from # step
      /\ live[from] \in Dir /\ live[from] # NoDir
      /\ live[from].config \in Config
      /\ live \in [Step -> DirOrNone]
  <2>1. pc = "localize" /\ step # "bite" /\ step \in Step /\ live[from] # NoDir
    BY DEF Localize, IInv, TypeOK, CommandOK, CommandInv, DirInv
  <2> QED BY <2>1, FromFacts, DirTyped DEF Busy, Idle, IInv, TypeOK, DirsOK, DirOrNone
<1>2. CASE live[from].config.state = "none"
  BY <1>1, <1>2, PanicTame DEF Localize
<1>3. CASE live[from].config.state # "none"
  <2>1. /\ UNCHANGED <<debug, moved, acked, cmd, step, run>>
        /\ config' = live[from].config
        /\ IF config'.refs = {} THEN pc' = "load" /\ live' = live
           ELSE pc' = "repoint" /\ live' = [live EXCEPT ![from] = KeepOriginal(@)]
    BY <1>3 DEF Localize, Goto, args
  <2>2. Tame
    <3>1. CASE config'.refs = {}
      BY <1>1, <2>1, <3>1, StillTame DEF MovePcs
    <3>2. CASE config'.refs # {}
      <4> DEFINE d == live[from]
      <4> DEFINE e == [d EXCEPT !.original = d.config, !.config = NoConfig]
      <4>1. NoConfig \in Config /\ NoConfig.state = "none"
        BY DEF NoConfig, Config
      <4>2. live' = [live EXCEPT ![from] = e] /\ pc' = "repoint"
        BY <2>1, <3>2 DEF KeepOriginal
      <4>3. e \in Dir /\ e.file = d.file /\ e.config = NoConfig
        BY <1>1, <4>1 DEF Dir
      <4>4. live'[from] = e
        BY <1>1, <4>2
      <4> HIDE DEF e
      <4>5. Seen(from) = d
        BY <1>1, SeenLive
      <4>6. Seen(from)' = IF d.config.state = "full" THEN [e EXCEPT !.config = d.config] ELSE e
        BY <1>1, <2>1, <4>2, <4>4 DEF Seen, Rewriting
      <4>7. ASSUME NEW r PROVE Holds(Seen(from)', r) <=> Holds(Seen(from), r)
        <5> HIDE DEF d
        <5>1. /\ Holds([e EXCEPT !.config = d.config], r) <=>
                   d.config.state = "full" /\ Alice(e) = r /\ e.file[<<"spec", RC>>] \in Run
              /\ Holds(e, r) => e.config.state = "full"
          BY <1>1, <4>3, HoldsWith DEF d
        <5>2. Holds(d, r) <=> d.config.state = "full" /\ Alice(d) = r /\ d.file[<<"spec", RC>>] \in Run
          BY <1>1, HoldsWith DEF d
        <5>3. Alice(e) = Alice(d)
          BY <4>3 DEF Alice
        <5> QED BY <4>1, <4>3, <4>5, <4>6, <5>1, <5>2, <5>3
      <4>8. live' = [live EXCEPT ![from] = [live[from] EXCEPT !.original = live[from].config, !.config = NoConfig]]
        BY <4>2 DEF e
      <4> HIDE DEF d
      <4> QED BY <1>1, <2>1, <4>1, <4>2, <4>7, <4>8, FromTame DEF MovePcs
    <3> QED BY <3>1, <3>2
  <2>3. DataInv'
    BY <2>1 DEF DataInv
  <2> QED BY <2>2, <2>3
<1> QED BY <1>2, <1>3

LEMMA RepointTame ==
  ASSUME IInv, RInv, Repoint
  PROVE  Tame /\ DataInv'
<1> DEFINE from == DirFrom(step)
<1> DEFINE d == live[from]
<1>1. /\ Busy /\ pc = "repoint" /\ step \in Step /\ from \in Step /\ from # step
      /\ d \in Dir /\ d # NoDir /\ config \in Config
      /\ live \in [Step -> DirOrNone]
  <2>1. /\ pc = "repoint" /\ step # "bite" /\ step \in Step /\ live[from] # NoDir
        /\ config \in Config
    BY DEF Repoint, IInv, TypeOK, CommandOK, CommandInv, DirInv
  <2> QED BY <2>1, FromFacts DEF Busy, Idle, IInv, TypeOK, DirsOK, DirOrNone
<1>2. /\ UNCHANGED <<debug, moved, acked, cmd, step, run, config>>
      /\ pc' = "load" /\ live' = [live EXCEPT ![from].config = config]
  BY DEF Repoint, Goto, args, SetConfig
<1>3. live' = [live EXCEPT ![from] = [live[from] EXCEPT !.original = live[from].original, !.config = config]]
  <2>1. [d EXCEPT !.original = d.original, !.config = config] = [d EXCEPT !.config = config]
    BY <1>1 DEF Dir
  <2> QED BY <1>2, <2>1
<1>4. d.config = NoConfig /\ NoConfig.state = "none"
  BY <1>1 DEF RInv, GapInv, NoConfig
<1> DEFINE e == [d EXCEPT !.config = config]
<1>5. Seen(from)' = e
  <2>1. live'[from] = e
    BY <1>1, <1>2
  <2> QED BY <1>2, <2>1, SeenLiveNext
<1>6. Seen(from) = IF config.state = "full" THEN e ELSE d
  BY <1>1 DEF Seen, Rewriting
<1>7. ASSUME NEW r PROVE Holds(Seen(from)', r) <=> Holds(Seen(from), r)
  <2>1. /\ Holds(e, r) => config.state = "full"
        /\ Holds(d, r) => d.config.state = "full"
    BY <1>1, HoldsWith
  <2> HIDE DEF e, d
  <2> QED BY <1>4, <1>5, <1>6, <2>1
<1>8. d.original \in Config
  BY <1>1, DirTyped
<1>9. Tame
  BY <1>1, <1>2, <1>3, <1>7, <1>8, FromTame DEF MovePcs
<1>10. DataInv'
  BY <1>2 DEF DataInv
<1> QED BY <1>9, <1>10

LEMMA LoadTame ==
  ASSUME IInv, RInv, Load
  PROVE  Tame /\ DataInv'
<1>1. /\ Busy /\ pc = "load" /\ step \in Step /\ live \in [Step -> DirOrNone]
      /\ <<"data", RC>> \in File /\ run \in Value
  BY FileFacts DEF Load, Busy, Idle, IInv, TypeOK, DirsOK, CommandOK, CommandInv, Value
<1>2. CASE ~Loads(live[DirFrom(step)])
  BY <1>1, <1>2, PanicTame DEF Load
<1>3. CASE Loads(live[DirFrom(step)])
  <2> DEFINE d == Ensured(live[step])
  <2> DEFINE e == [d EXCEPT !.file[<<"data", RC>>] = run]
  <2>1. /\ UNCHANGED <<debug, moved, acked, cmd, step, run, config>>
        /\ pc' = "startup" /\ live' = [live EXCEPT ![step] = e]
    BY <1>3 DEF Load, Goto, args
  <2>2. d \in Dir /\ Alice(d) \in {Absent} \cup States(live[step])
    <3>1. Alice(EmptyDir) = Absent
      BY FileFacts DEF EmptyDir, Alice
    <3> QED BY <1>1, <3>1, DirTyped DEF Ensured, DirOrNone, States
  <2>3. /\ e \in Dir
        /\ e.file = [d.file EXCEPT ![<<"data", RC>>] = run]
    BY <1>1, <2>2 DEF Dir, Value
  <2> HIDE DEF e
  <2>4. /\ live'[step] = e /\ e # NoDir
        /\ \A t \in Step \ {step} : live'[t] = live[t]
    BY <1>1, <2>1, <2>3, DirTyped
  <2>5. States(e) \subseteq Local
    <3>1. <<"alice", RC>> \in File /\ d.file \in [File -> Value]
      BY <2>2, FileFacts, DirTyped
    <3>2. Data(e) = run /\ Alice(e) = Alice(d)
      BY <1>1, <2>3, <3>1 DEF Data, Alice
    <3> QED BY <2>2, <3>2 DEF States, Local
  <2>6. Tame
    BY <1>1, <2>1, <2>4, <2>5, InStepTame DEF MovePcs
  <2>7. DataInv'
    BY <2>1 DEF DataInv
  <2> QED BY <2>6, <2>7
<1> QED BY <1>2, <1>3

LEMMA GenFileTame ==
  ASSUME IInv, RInv, GenFile
  PROVE  Tame /\ DataInv'
<1> DEFINE f == TeardownFiles[at]
<1> DEFINE from == live[DirFrom(step)]
<1>1. /\ Busy /\ pc = "genFiles" /\ step \in Step /\ live[step] # NoDir /\ live[step] \in Dir
      /\ live \in [Step -> DirOrNone]
      /\ f \in File /\ at \in DOMAIN TeardownFiles
  BY ListsTyped DEF GenFile, Busy, Idle, IInv, TypeOK, DirsOK, CommandOK, DirInv, PlaceInv, DirOrNone
<1>2. /\ UNCHANGED <<debug, moved, acked, cmd, step, run, config>>
      /\ pc' \in {"genFiles", "genConfig", "panicked"}
  BY <1>1 DEF GenFile, Goto, args
<1>3. /\ live' \in [Step -> DirOrNone] /\ live'[step] # NoDir
      /\ \A t \in Step \ {step} : live'[t] = live[t]
      /\ \A g \in File \ {f} : live'[step].file[g] = live[step].file[g]
  BY GenFileDirs
<1>4. f[1] # "spec" => live'[step].file[f] \in {Torn, Data(live[step])}
  <2>1. ASSUME f[1] # "spec"
        PROVE live' = SetFile(step, f, IF Data(live[step]) = Absent THEN Torn ELSE Data(live[step]))
    BY <2>1 DEF GenFile, Data
  <2>2. Data(live[step]) \in Value /\ Torn \in Value
    BY <1>1, DirTyped, FileFacts DEF Data, Value
  <2>3. ASSUME NEW r \in Value
        PROVE SetFile(step, f, r)[step].file[f] = r
    <3>1. SetFile(step, f, r)[step].file = [live[step].file EXCEPT ![f] = r]
      BY <1>1, <2>3, SetFileTyped
    <3> QED BY <1>1, <3>1, DirTyped
  <2> QED BY <2>1, <2>2, <2>3
<1>5. States(live'[step]) \subseteq Local
  <2>1. <<"alice", RC>> \in File /\ <<"data", RC>> \in File
    BY FileFacts
  <2>2. Alice(live'[step]) \in {Torn} \cup States(live[step])
    BY <1>1, <1>3, <1>4, <2>1 DEF Alice, Data, States
  <2>3. Data(live'[step]) \in {Torn} \cup States(live[step])
    BY <1>1, <1>3, <1>4, <2>1 DEF Data, States
  <2> QED BY <1>3, <2>2, <2>3 DEF States, Local
<1>6. Tame
  BY <1>1, <1>2, <1>3, <1>5, InStepTame DEF MovePcs
<1>7. DataInv'
  BY <1>2 DEF DataInv
<1> QED BY <1>6, <1>7

LEMMA GenConfigTame ==
  ASSUME IInv, RInv, GenConfig
  PROVE  Tame /\ DataInv'
<1> DEFINE insert == Cardinality(Snapshots(config.refs)) # 2 + Len(Paras)
<1>1. /\ Busy /\ pc = "genConfig" /\ step \in Step /\ live[step] # NoDir
      /\ config \in Config /\ config.state = "full"
  BY DEF GenConfig, Busy, Idle, IInv, TypeOK, CommandOK, DirInv, ConfigInv
<1>2. CASE insert /\ Validators > 2
  BY <1>1, <1>2, PanicTame DEF GenConfig
<1>3. CASE ~(insert /\ Validators > 2)
  <2> DEFINE c == Full(IF insert THEN NodeRefs ELSE config.refs)
  <2>1. /\ UNCHANGED <<debug, moved, acked, cmd, step, run, config>>
        /\ pc' \in {"removeDebug", "idle"} /\ live' = SetConfig(step, c)
    BY <1>3 DEF GenConfig, Goto, args
  <2> HIDE DEF insert
  <2>2. c \in Config
    BY <1>1, RefsFacts DEF Full, Config
  <2> HIDE DEF c
  <2>3. Tame
    BY <1>1, <2>1, <2>2, ConfigTame DEF MovePcs
  <2>4. DataInv'
    BY <2>1 DEF DataInv
  <2> QED BY <2>3, <2>4
<1> QED BY <1>2, <1>3

\* Where a clean-up works.
LEMMA CleanFacts ==
  ASSUME IInv, pc \in CleanPcs
  PROVE  /\ Busy /\ pc # "repoint" /\ step \in Step
         /\ live \in [Step -> DirOrNone] /\ debug \in [Step -> DirOrNone]
BY DEF IInv, TypeOK, DirsOK, CommandOK, CleanPcs, Busy, Idle

LEMMA CleanDirsTame ==
  ASSUME IInv, RInv, RemoveDebug \/ RenameDir \/ CreateDir
  PROVE  Tame /\ DataInv'
<1>1. /\ Busy /\ pc # "repoint" /\ step \in Step
      /\ live \in [Step -> DirOrNone] /\ debug \in [Step -> DirOrNone]
  BY CleanFacts DEF RemoveDebug, RenameDir, CreateDir, CleanPcs
<1>2. CASE RenameDir /\ live[step] = NoDir
  BY <1>1, <1>2, PanicTame DEF RenameDir
<1>3. CASE RemoveDebug
  <2>1. /\ UNCHANGED <<live, moved, acked, cmd, step, run, config>>
        /\ pc' = "renameDir" /\ debug' = [debug EXCEPT ![step] = NoDir]
    BY <1>3 DEF RemoveDebug, Goto, args
  <2>2. debug'[step] = NoDir /\ \A t \in Step \ {step} : debug'[t] = debug[t]
    BY <1>1, <2>1
  <2>3. Tame
    BY <1>1, <2>1, <2>2, SeenLive, SeenLiveNext DEF Tame, GapInv, Same, Local, States, MovePcs
  <2>4. DataInv'
    BY <2>1 DEF DataInv
  <2> QED BY <2>3, <2>4
<1>4. CASE RenameDir /\ live[step] # NoDir
  <2>1. /\ UNCHANGED <<moved, acked, cmd, step, run, config>>
        /\ pc' = "createDir" /\ debug' = [debug EXCEPT ![step] = live[step]]
        /\ live' = [live EXCEPT ![step] = NoDir]
    BY <1>4 DEF RenameDir, Goto, args
  <2>2. /\ debug'[step] = live[step] /\ live'[step] = NoDir
        /\ \A t \in Step \ {step} : debug'[t] = debug[t] /\ live'[t] = live[t]
    BY <1>1, <2>1
  <2>3. Tame
    BY <1>1, <2>1, <2>2, SeenLive, SeenLiveNext DEF Tame, GapInv, Same, Local, States
  <2>4. DataInv'
    BY <2>1 DEF DataInv
  <2> QED BY <2>3, <2>4
<1>5. CASE CreateDir
  <2>1. /\ UNCHANGED <<debug, moved, acked, cmd, step, run, config>>
        /\ pc = "createDir" /\ pc' = "moveConfig" /\ live' = [live EXCEPT ![step] = EmptyDir]
    BY <1>5 DEF CreateDir, Goto, args
  <2>2. live'[step] = EmptyDir /\ \A t \in Step \ {step} : live'[t] = live[t]
    BY <1>1, <2>1
  <2>3. Alice(EmptyDir) = Absent /\ Data(EmptyDir) = Absent
    BY FileFacts DEF EmptyDir, Alice, Data
  <2>4. States(live'[step]) \subseteq Local
    BY <2>2, <2>3 DEF Local, States
  <2>5. Tame
    BY <1>1, <2>1, <2>2, <2>4, InStepTame DEF MovePcs
  <2>6. DataInv'
    BY <2>1, <2>2, <2>3 DEF DataInv
  <2> QED BY <2>5, <2>6
<1> QED BY <1>2, <1>3, <1>4, <1>5

LEMMA MoveConfigTame ==
  ASSUME IInv, RInv, MoveConfig
  PROVE  Tame /\ DataInv'
<1>1. /\ Busy /\ step \in Step /\ pc = "moveConfig"
      /\ live \in [Step -> DirOrNone] /\ debug \in [Step -> DirOrNone]
      /\ live[step] # NoDir /\ debug[step] # NoDir /\ debug[step] \in Dir
  BY CleanFacts DEF MoveConfig, CleanPcs, IInv, DirInv, DirOrNone
<1>2. CASE debug[step].config.state = "none"
  BY <1>1, <1>2, PanicTame DEF MoveConfig
<1>3. CASE debug[step].config.state # "none"
  <2> DEFINE c == debug[step].config
  <2>1. /\ UNCHANGED <<moved, acked, cmd, step, run, config>>
        /\ pc' = "moveFiles" /\ live' = SetConfig(step, c)
        /\ debug' = [debug EXCEPT ![step].config = NoConfig]
    BY <1>3 DEF MoveConfig, Goto, args
  <2>2. c \in Config
    BY <1>1, DirTyped
  <2>3. /\ live'[step].file = live[step].file /\ live'[step] # NoDir
        /\ \A t \in Step \ {step} : live'[t] = live[t]
    BY <1>1, <2>1, <2>2, SetConfigTyped, SetOthers, DirTyped
  <2> HIDE DEF c
  <2>4. /\ debug'[step] = [debug[step] EXCEPT !.config = NoConfig]
        /\ \A t \in Step \ {step} : debug'[t] = debug[t]
    BY <1>1, <2>1
  <2>5. debug'[step].file = debug[step].file
    BY <1>1, <2>4 DEF Dir
  <2>6. /\ States(live'[step]) = States(live[step])
        /\ States(debug'[step]) \subseteq States(debug[step])
    BY <1>1, <2>3, <2>5 DEF States, Alice, Data
  <2>7. Tame
    BY <1>1, <2>1, <2>3, <2>4, <2>6, SeenLive, SeenLiveNext DEF Tame, GapInv, Same, Local, MovePcs
  <2>8. DataInv'
    BY <1>1, <2>1, <2>3 DEF RInv, DataInv, Data
  <2> QED BY <2>7, <2>8
<1> QED BY <1>2, <1>3

LEMMA MoveFileTame ==
  ASSUME IInv, RInv, MoveFile
  PROVE  Tame /\ DataInv'
<1> DEFINE f == Needed[at]
<1>1. /\ Busy /\ step \in Step /\ pc = "moveFiles"
      /\ live \in [Step -> DirOrNone] /\ debug \in [Step -> DirOrNone]
      /\ live[step] # NoDir /\ debug[step] # NoDir
      /\ f \in File /\ at \in DOMAIN Needed
      /\ cmd = "spawn" => step # "bite"
  BY CleanFacts, NeededTyped
  DEF MoveFile, CleanPcs, IInv, DirInv, PlaceInv, CommandInv
<1>2. CASE Missing(f)
  BY <1>1, <1>2, PanicTame DEF MoveFile
<1>3. CASE ~Missing(f)
  <2>1. /\ live'[step] # NoDir
        /\ live'[step].file = [live[step].file EXCEPT ![f] = debug[step].file[f]]
        /\ debug'[step] # NoDir
        /\ debug'[step].file = [debug[step].file EXCEPT ![f] = Absent]
    BY <1>1, <1>3, MoveFileDirs
  <2>2. \A t \in Step \ {step} : live'[t] = live[t] /\ debug'[t] = debug[t]
    BY <1>1, <1>3, MoveFileDirs
  <2>3. /\ UNCHANGED <<moved, acked, cmd, step, run, config>>
        /\ pc' \in {"moveFiles", "publish", "idle"}
    BY <1>1, <1>3, Zenon DEF MoveFile, Goto, args
  <2>4. /\ live[step].file \in [File -> Value] /\ debug[step].file \in [File -> Value]
        /\ <<"alice", RC>> \in File /\ <<"data", RC>> \in File
    BY <1>1, DirTyped, FileFacts DEF DirOrNone
  <2>5. States(live'[step]) \subseteq Local
    <3>1. /\ Alice(live'[step]) \in {Alice(live[step]), Alice(debug[step])}
          /\ Data(live'[step]) \in {Data(live[step]), Data(debug[step])}
      BY <2>1, <2>4 DEF Alice, Data
    <3> QED BY <1>1, <2>1, <3>1 DEF States, Local, MovePcs
  <2>6. States(debug'[step]) \subseteq Local
    <3>1. /\ Alice(debug'[step]) \in {Absent, Alice(debug[step])}
          /\ Data(debug'[step]) \in {Absent, Data(debug[step])}
      BY <2>1, <2>4 DEF Alice, Data
    <3> QED BY <1>1, <2>1, <3>1 DEF States, Local, MovePcs
  <2>7. Tame
    BY <1>1, <2>2, <2>3, <2>5, <2>6, SeenLive, SeenLiveNext DEF Tame, GapInv, Same
  <2>8. DataInv'
    <3>1. CASE cmd = "spawn"
      <4>1. Needed = <<<<"spec", RC>>, <<"alice", RC>>>>
        BY <1>1, <3>1, NeededTyped
      <4>2. f # <<"data", RC>>
        BY <1>1, <4>1
      <4>3. Data(live'[step]) = Data(live[step])
        BY <2>1, <2>4, <4>2 DEF Data
      <4> QED BY <1>1, <2>3, <4>3 DEF RInv, DataInv
    <3>2. CASE cmd # "spawn"
      BY <2>3, <3>2 DEF DataInv
    <3> QED BY <3>1, <3>2
  <2> QED BY <2>7, <2>8
<1> QED BY <1>2, <1>3

LEMMA PublishTame ==
  ASSUME IInv, RInv, Publish
  PROVE  Tame /\ DataInv'
<1>1. /\ Busy /\ step \in Step /\ pc = "publish"
      /\ live \in [Step -> DirOrNone] /\ live[step] # NoDir /\ live[step] \in Dir
  BY DEF Publish, Busy, Idle, IInv, TypeOK, DirsOK, CommandOK, DirInv, DirOrNone
<1>2. /\ UNCHANGED <<debug, moved, acked, cmd, step, run, config>> /\ pc' = "finish"
  BY DEF Publish, Goto, args
<1>3. /\ live'[step] # NoDir /\ live'[step].file = live[step].file
      /\ \A t \in Step \ {step} : live'[t] = live[t]
  <2>1. CASE ~publish
    BY <1>1, <2>1, Zenon DEF Publish
  <2>2. CASE publish
    <3> DEFINE b == [c \in Chains |-> IF live[step].file[<<"spec", c>>] \in Run THEN run
                                      ELSE live[step].boots[c]]
    <3> DEFINE n == [live[step] EXCEPT !.boots = b]
    <3>1. live' = [live EXCEPT ![step].boots =
                     [c \in Chains |-> IF live[step].file[<<"spec", c>>] \in Run THEN run ELSE @[c]]]
      BY <2>2, Zenon DEF Publish, PublishedIn
    <3>2. live' = [live EXCEPT ![step] = n]
      BY <3>1
    <3>3. b \in [Chains -> {0} \cup Run]
      BY <1>1, DirTyped DEF IInv, CommandInv, Busy
    <3> HIDE DEF b
    <3>4. n \in Dir /\ n.file = live[step].file
      BY <1>1, <3>3 DEF Dir
    <3> HIDE DEF n
    <3> QED BY <1>1, <3>2, <3>4, DirTyped
  <2> QED BY <2>1, <2>2
<1>4. States(live'[step]) = States(live[step])
  BY <1>1, <1>3 DEF States, Alice, Data
<1>5. Tame
  BY <1>1, <1>2, <1>3, <1>4, InStepTame DEF MovePcs, Local
<1>6. DataInv'
  BY <1>1, <1>2, <1>3 DEF RInv, DataInv, Data
<1> QED BY <1>5, <1>6

\* A death in the middle of a write, of any file but the config spawned from.
LEMMA DieTame ==
  ASSUME IInv, RInv, Busy, pc # "repoint", Die
  PROVE  Tame /\ DataInv'
<1>1. /\ step \in Step /\ live \in [Step -> DirOrNone] /\ Torn \in Value
      /\ pc' = "idle" /\ UNCHANGED <<debug, moved, acked, cmd, step, run, config>>
  BY DEF Die, args, IInv, TypeOK, DirsOK, CommandOK, Value
<1>2. DataInv'
  BY <1>1 DEF DataInv
<1>3. CASE live' = live
  BY <1>1, <1>2, <1>3, StillTame DEF MovePcs
<1>4. ASSUME NEW f \in File, live[step] # NoDir, live' = SetFile(step, f, Torn)
      PROVE  Tame
  BY <1>1, <1>4, FileTame DEF MovePcs
<1>5. ASSUME live[step] # NoDir, NEW c \in TornConfigs, live' = SetConfig(step, c)
      PROVE  Tame
  BY <1>1, <1>5, TornTyped, ConfigTame DEF MovePcs
<1>6. CASE pc \in {"biteFiles", "biteConfig"} /\ TornWrite
  <2>1. step = "bite" /\ live[step] # NoDir
    BY <1>6 DEF IInv, CommandInv, DirInv
  <2>2. pc = "biteFiles" => BiteFiles[at] \in File
    BY ListsTyped DEF IInv, PlaceInv
  <2> QED BY <1>2, <1>4, <1>5, <1>6, <2>1, <2>2 DEF TornWrite
<1>7. CASE pc \in {"genFiles", "genConfig", "publish"} /\ TornWrite
  <2>1. live[step] # NoDir /\ <<"spec", RC>> \in File
    BY <1>7, FileFacts DEF IInv, DirInv
  <2>2. pc = "genFiles" => TeardownFiles[at] \in File
    BY ListsTyped DEF IInv, PlaceInv
  <2> QED BY <1>2, <1>4, <1>5, <1>7, <2>1, <2>2 DEF TornWrite, PublishedIn
<1>8. pc \in {"biteFiles", "biteConfig", "genFiles", "genConfig", "publish"} \/ ~TornWrite
  BY DEF TornWrite
<1> QED BY <1>2, <1>3, <1>6, <1>7, <1>8 DEF Die

-----------------------------------------------------------------------------
(* The steps that are not: a command begins, moves its directory aside, or *)
(* ends.                                                                   *)

DepotStep == [D!Next]_(D!vars)

\* No directory comes to hold a promised run it did not hold, and only the end of
\* a command promises one.
Settled ==
  /\ \A t \in Step : live'[t] # NoDir /\ Alice(live'[t]) \in acked =>
                      live[t] # NoDir /\ Alice(live'[t]) = Alice(live[t])
  /\ acked' \subseteq acked \/ Finish

\* The depot is as before when the directories, or what they hold, are.
LEMMA DepotStutters ==
  ASSUME moved' = moved, acked' = acked, \A s \in Step \ {"bite"} : Seen(s)' = Seen(s)
  PROVE  DepotStep
<1>1. held' = held /\ attic' = attic
  BY HeldKept DEF attic, Holds, HasConfig, InNumbered
<1> QED BY <1>1 DEF DepotStep, D!vars

\* A command ends, or nothing happens to the files.
LEMMA EndKeeps ==
  ASSUME RInv, UNCHANGED <<live, debug, moved, acked, run, cmd, step, config>>,
         (pc' = "idle" /\ pc # "repoint") \/ (pc' = pc /\ signalled' = signalled)
  PROVE  RInv' /\ DepotStep
<1>1. DepotStep
  BY DepotStutters DEF Seen, Rewriting
<1>2. NumberInv' /\ OwnInv'
  BY DEF RInv, NumberInv, OwnInv, Idle, States, Alice, Data
<1>3. FreeInv'
  BY DEF RInv, FreeInv, Busy, Idle, States, Alice, Data, MovePcs
<1>4. DataInv'
  BY Zenon DEF RInv, DataInv, Data
<1>5. GapInv'
  BY DEF RInv, GapInv
<1> QED BY <1>1, <1>2, <1>3, <1>4, <1>5 DEF RInv

\* A command of any kind begins: nothing on disk is of its number yet.
LEMMA StartKeeps ==
  ASSUME IInv, RInv,
         NEW c \in {"bite", "spawn", "generate", "cleanup"}, NEW s \in Step,
         NEW p \in {"biteFiles", "resolve", "genConfigRead", "removeDebug"},
         Start(c, s, p),
         UNCHANGED <<debug, moved>>, acked' \subseteq acked,
         \A t \in Step : live'[t] = live[t] \/ (t = "bite" /\ live'[t] = Ensured(live[t])),
         p = "resolve" \/ States(live'[s]) \cap acked' = {}
  PROVE  RInv'
<1>1. /\ run' = run + 1 /\ run \in Nat /\ acked \subseteq Run
      /\ Absent \notin Run /\ Absent <= run
      /\ pc' = p /\ cmd' = c /\ step' = s
  BY StateValues DEF Start, Goto, IInv, Absent
<1>2. Alice(EmptyDir) = Absent /\ Data(EmptyDir) = Absent
  BY FileFacts DEF EmptyDir, Alice, Data
<1>3. \A t \in Step : States(live'[t]) \subseteq States(live[t]) \cup {Absent}
  BY <1>2, DirTyped DEF Ensured, States
<1>4. \A t \in Step : /\ \A r \in States(live'[t]) \cup States(debug[t]) : r \in Int /\ r <= run
                      /\ \A i \in DOMAIN moved[t] : Alice(moved[t][i]) \in Int
                                                    /\ Alice(moved[t][i]) <= run
  <2>1. \A t \in Step : \A r \in States(live[t]) \cup States(debug[t]) : r \in Int /\ r <= run
    BY StateValues DEF RInv, NumberInv, IInv
  <2>2. \A t \in Step : \A i \in DOMAIN moved[t] : Alice(moved[t][i]) \in Int
    BY StateValues DEF IInv
  <2>3. Absent \in Int
    BY DEF Absent
  <2> QED BY <1>1, <1>3, <2>1, <2>2, <2>3 DEF RInv, NumberInv
<1>5. NumberInv'
  <2>1. \A r \in Int : r <= run => r <= run' /\ r # run'
    BY <1>1
  <2>2. \A r \in acked' : r \in Int /\ r <= run
    <3>1. acked' \subseteq acked /\ acked \subseteq Int
      BY <1>1, StateValues DEF IInv
    <3> QED BY <3>1 DEF RInv, NumberInv
  <2> QED BY <1>4, <2>1, <2>2 DEF NumberInv, States, Alice, Data
<1>6. OwnInv'
  <2>1. \A r \in Int : r <= run => r # run'
    BY <1>1
  <2> QED BY <1>4, <2>1 DEF OwnInv, States, Alice, Data
<1>7. FreeInv'
  <2>1. \A t \in Step : live'[t] # NoDir => Data(live'[t]) \notin acked'
    BY <1>1, <1>2 DEF RInv, FreeInv, Ensured
  <2>2. live'["bite"] # NoDir => Alice(live'["bite"]) \notin acked'
    BY <1>1, <1>2 DEF RInv, FreeInv, Ensured, Step
  <2> QED BY <1>1, <2>1, <2>2 DEF FreeInv, Busy, MovePcs, States, Alice, Data
<1>8. DataInv'
  BY <1>1 DEF DataInv
<1>9. GapInv'
  BY <1>1 DEF GapInv
<1> QED BY <1>5, <1>6, <1>7, <1>8, <1>9 DEF RInv

LEMMA StartBiteDepot ==
  ASSUME IInv, RInv, StartBite
  PROVE  RInv' /\ DepotStep
<1>1. /\ Start("bite", "bite", "biteFiles")
      /\ UNCHANGED <<debug, moved, config, acked>>
      /\ live' = [live EXCEPT !["bite"] = Ensured(@)]
      /\ "bite" \in Step /\ live \in [Step -> DirOrNone]
  BY DEF StartBite, Step, IInv, TypeOK, DirsOK
<1>2. /\ live'["bite"] = Ensured(live["bite"])
      /\ \A t \in Step \ {"bite"} : live'[t] = live[t]
  BY <1>1
<1>3. States(live'["bite"]) \cap acked' = {}
  <2>1. Alice(EmptyDir) = Absent /\ Data(EmptyDir) = Absent
    BY FileFacts DEF EmptyDir, Alice, Data
  <2>2. Absent \notin acked
    BY StateValues DEF IInv
  <2> QED BY <1>1, <1>2, <2>1, <2>2 DEF RInv, FreeInv, States, Ensured
<1>4. RInv'
  BY <1>1, <1>2, <1>3, StartKeeps
<1>5. \A s \in Step \ {"bite"} : Seen(s)' = Seen(s)
  BY <1>1, <1>2, SeenLive, SeenLiveNext DEF Start, Goto, Idle
<1> QED BY <1>1, <1>4, <1>5, DepotStutters

LEMMA StartSpawnDepot ==
  ASSUME IInv, RInv, StartSpawn
  PROVE  RInv' /\ DepotStep
<1>1. PICK s \in Step : Start("spawn", s, "resolve")
  BY DEF StartSpawn
<1>2. UNCHANGED <<live, debug, moved, config, acked>>
  BY DEF StartSpawn, dirs
<1>3. RInv'
  BY <1>1, <1>2, StartKeeps
<1>4. \A t : Seen(t)' = Seen(t)
  BY <1>1, <1>2, SeenLive, SeenLiveNext DEF Start, Goto, Idle
<1> QED BY <1>2, <1>3, <1>4, DepotStutters

\* What a directory holds is its snapshot's run.
LEMMA HoldsFacts ==
  ASSUME IInv, NEW s \in Step \ {"bite"}
  PROVE  /\ held[s] \in acked \cup {Absent} /\ Absent \notin acked
         /\ \A r \in acked : Holds(Seen(s), r) <=> held[s] = r
<1>1. Absent \notin acked
  BY StateValues DEF IInv
<1> QED BY <1>1 DEF held, Holds

\* A run leaves the depot when it is struck off, wherever it is.
LEMMA TakenOver ==
  ASSUME IInv, NEW a \in acked, acked' = acked \ {a}, moved' = moved,
         \A t \in Step \ {"bite"} : \A r \in acked' : Holds(Seen(t)', r) <=> Holds(Seen(t), r)
  PROVE  DepotStep
<1>1. attic' = attic \ {a}
  BY DEF attic, InNumbered, Holds, HasConfig
<1>2. ASSUME NEW t \in Step \ {"bite"}
      PROVE  held'[t] = IF held[t] = a THEN Absent ELSE held[t]
  <2>1. /\ held[t] \in acked \cup {Absent} /\ Absent \notin acked
        /\ \A r \in acked : Holds(Seen(t), r) <=> held[t] = r
    BY HoldsFacts
  <2>2. held'[t] = IF \E r \in acked' : Holds(Seen(t)', r) THEN Alice(Seen(t)') ELSE Absent
    BY DEF held, Alice
  <2>3. CASE held[t] = a \/ held[t] = Absent
    <3>1. ~\E r \in acked' : Holds(Seen(t)', r)
      BY <2>1, <2>3
    <3> QED BY <2>2, <2>3, <3>1
  <2>4. CASE held[t] # a /\ held[t] # Absent
    <3>1. held[t] \in acked' /\ Holds(Seen(t)', held[t])
      BY <2>1, <2>4
    <3>2. held'[t] = Alice(Seen(t)')
      BY <2>2, <3>1
    <3> QED BY <2>4, <3>1, <3>2 DEF Holds, Alice
  <2> QED BY <2>3, <2>4
<1>3. held' = [t \in Step \ {"bite"} |-> IF held[t] = a THEN Absent ELSE held[t]]
  <2>1. held' = [t \in Step \ {"bite"} |-> held'[t]]
    BY DEF held
  <2> HIDE DEF held
  <2> QED BY <1>2, <2>1
<1>4. D!TakeOver(a)
  BY <1>1, <1>3 DEF D!TakeOver
<1>5. a \in Run
  BY StateValues DEF IInv
<1> QED BY <1>4, <1>5 DEF DepotStep, D!Next

\* A helper command takes the run of its directory over.
LEMMA StartHelperDepot ==
  ASSUME IInv, RInv, StartGenerate \/ StartCleanUp
  PROVE  RInv' /\ DepotStep
<1>1. PICK c \in {"generate", "cleanup"}, s \in Step, p \in {"genConfigRead", "removeDebug"} :
        Start(c, s, p) /\ acked' = StillKept(s)
  BY DEF StartGenerate, StartCleanUp, Step
<1>2. UNCHANGED <<live, debug, moved>>
  BY DEF StartGenerate, StartCleanUp, dirs
<1>3. RInv'
  <2>1. acked' \subseteq acked
    BY <1>1 DEF StillKept
  <2>2. States(live'[s]) \cap acked' = {}
    <3>1. live[s] # NoDir => Alice(live[s]) \notin acked'
      BY <1>1 DEF StillKept, Alice
    <3>2. live[s] # NoDir => Data(live[s]) \notin acked'
      BY <2>1 DEF RInv, FreeInv
    <3> QED BY <1>2, <3>1, <3>2 DEF States
  <2> QED BY <1>1, <1>2, <2>1, <2>2, StartKeeps
<1>4. \A t : Seen(t)' = Seen(t)
  BY <1>1, <1>2, SeenLive, SeenLiveNext DEF Start, Goto, Idle
<1>5. CASE acked' = acked
  BY <1>2, <1>3, <1>4, <1>5, DepotStutters
<1>6. CASE acked' # acked
  <2> DEFINE a == Alice(live[s])
  <2>1. a \in acked /\ acked' = acked \ {a}
    BY <1>1, <1>6 DEF StillKept, Alice
  <2>2. \A t, r : Holds(Seen(t)', r) <=> Holds(Seen(t), r)
    BY <1>4 DEF Holds, HasConfig
  <2> HIDE DEF a
  <2> QED BY <1>2, <1>3, <2>1, <2>2, TakenOver
<1> QED BY <1>5, <1>6

\* A death in the rewriting of a config leaves the files, and none.
LEMMA SpoilFacts ==
  ASSUME IInv, RInv, pc = "repoint", Die
  PROVE  LET from == DirFrom(step) IN
         /\ from \in Step /\ live[from] # NoDir /\ live'[from] # NoDir
         /\ live'[from].file = live[from].file /\ live'[from].config.state # "full"
         /\ \A t \in Step \ {from} : live'[t] = live[t]
         /\ acked' = acked \ {Alice(live[from])} /\ pc' = "idle"
         /\ UNCHANGED <<debug, moved, cmd, step, run>>
<1> DEFINE from == DirFrom(step)
<1>1. /\ from \in Step /\ live[from] # NoDir /\ live[from].config.state # "full"
      /\ live \in [Step -> DirOrNone]
  BY FromFacts DEF IInv, TypeOK, DirsOK, CommandOK, DirInv, RInv, GapInv, NoConfig
<1>2. /\ acked' = acked \ {Alice(live[from])} /\ pc' = "idle"
      /\ UNCHANGED <<debug, moved, cmd, step, run>>
  BY <1>1 DEF Die, StillKept, Alice, args
<1>3. CASE live' = live
  BY <1>1, <1>2, <1>3
<1>4. CASE TornWrite
  <2>1. PICK c \in TornConfigs : live' = SetConfig(from, c)
    BY <1>4 DEF TornWrite
  <2>2. /\ live'[from].file = live[from].file /\ live'[from].config = c /\ live'[from] # NoDir
        /\ \A t \in Step \ {from} : live'[t] = live[t]
    BY <1>1, <2>1, TornTyped, SetConfigTyped, SetOthers, DirTyped
  <2>3. c.state # "full"
    BY TornTyped
  <2> QED BY <1>1, <1>2, <2>2, <2>3
<1> QED BY <1>3, <1>4 DEF Die

\* So that the run of that directory, if it was promised, leaves the depot.
LEMMA SpoilDepot ==
  ASSUME IInv, RInv, pc = "repoint", Die
  PROVE  RInv' /\ DepotStep
<1> DEFINE from == DirFrom(step)
<1> DEFINE a == Alice(live[from])
<1>1. /\ from \in Step /\ live[from] # NoDir /\ live'[from] # NoDir
      /\ live'[from].file = live[from].file /\ live'[from].config.state # "full"
      /\ \A t \in Step \ {from} : live'[t] = live[t]
      /\ acked' = acked \ {a} /\ pc' = "idle"
      /\ UNCHANGED <<debug, moved, cmd, step, run>>
  BY SpoilFacts
<1>2. RInv'
  <2>1. /\ \A t \in Step : States(live'[t]) = States(live[t])
        /\ \A t \in Step : live'[t] # NoDir =>
             live[t] # NoDir /\ Alice(live'[t]) = Alice(live[t]) /\ Data(live'[t]) = Data(live[t])
    BY <1>1 DEF States, Alice, Data
  <2>2. NumberInv'
    BY <1>1, <2>1 DEF RInv, NumberInv, Idle, States, Alice, Data
  <2>3. OwnInv' /\ DataInv' /\ GapInv'
    BY <1>1 DEF OwnInv, DataInv, GapInv, Idle
  <2>4. FreeInv'
    BY <1>1, <2>1 DEF RInv, FreeInv, Busy, Idle, MovePcs, Step, Alice, Data
  <2> QED BY <2>2, <2>3, <2>4 DEF RInv
<1>3. \A t \in Step \ {from} : Seen(t)' = Seen(t)
  BY <1>1, SeenLive, SeenLiveNext
<1>4. \A t, r : t = from => ~Holds(Seen(t)', r)
  BY <1>1, SeenLiveNext DEF Holds, HasConfig
<1>5. \A r : Holds(Seen(from), r) => r = a
  <2>1. live[from] \in Dir /\ config \in Config
    BY <1>1 DEF IInv, TypeOK, DirsOK, CommandOK, DirOrNone
  <2>2. Seen(from).file = live[from].file
    BY <2>1, WithConfig DEF Seen
  <2> QED BY <2>2 DEF Holds, Alice
<1> HIDE DEF a, from
<1>6. \A t \in Step : \A r \in acked' : Holds(Seen(t)', r) <=> Holds(Seen(t), r)
  <2>1. ASSUME NEW t \in Step \ {from}, NEW r PROVE Holds(Seen(t)', r) <=> Holds(Seen(t), r)
    BY <1>3, <2>1 DEF Holds, HasConfig
  <2> QED BY <1>1, <1>4, <1>5, <2>1
<1>7. DepotStep
  <2>1. CASE a \in acked
    BY <1>1, <1>6, <2>1, TakenOver
  <2>2. CASE a \notin acked
    <3>1. acked' = acked
      BY <1>1, <2>2
    <3>2. held' = held
      BY <1>6, <3>1, HeldKept
    <3>3. attic' = attic
      BY <1>1, <3>1 DEF attic, InNumbered, Holds, HasConfig
    <3> QED BY <3>1, <3>2, <3>3 DEF DepotStep, D!vars
  <2> QED BY <2>1, <2>2
<1> QED BY <1>2, <1>7

\* The directory of a spawn is moved aside, with the run it holds.
LEMMA ResolveDepot ==
  ASSUME IInv, RInv, Resolve
  PROVE  RInv' /\ DepotStep
<1>1. /\ ~Idle /\ pc = "resolve" /\ cmd = "spawn" /\ step \in Step \ {"bite"}
      /\ live \in [Step -> DirOrNone]
      /\ moved \in [Step -> Seq(Dir)]
  BY DEF Resolve, Idle, IInv, TypeOK, DirsOK, CommandOK, CommandInv
<1>2. pc' = "localize" /\ UNCHANGED <<debug, acked, cmd, step, run, config>>
  BY DEF Resolve, Goto, args
<1>3. /\ live'[step] = NoDir
      /\ \A t \in Step \ {step} : live'[t] = live[t] /\ moved'[t] = moved[t]
      /\ IF live[step] = NoDir THEN moved'[step] = moved[step]
         ELSE moved'[step] = Append(moved[step], live[step])
  <2>1. CASE live[step] = NoDir
    BY <2>1 DEF Resolve
  <2>2. CASE live[step] # NoDir
    BY <1>1, <2>2 DEF Resolve, MoveAside
  <2> QED BY <2>1, <2>2
<1>4. \A e : (\E i \in DOMAIN moved'[step] : moved'[step][i] = e)
              <=> (\E i \in DOMAIN moved[step] : moved[step][i] = e)
                    \/ (live[step] # NoDir /\ e = live[step])
  <2>1. CASE live[step] = NoDir
    BY <1>3, <2>1
  <2>2. CASE live[step] # NoDir
    <3> DEFINE m == moved[step]
    <3>1. m \in Seq(Dir) /\ live[step] \in Dir /\ moved'[step] = Append(m, live[step])
      BY <1>1, <1>3, <2>2 DEF DirOrNone
    <3>2. /\ DOMAIN moved'[step] = 1 .. Len(m) + 1 /\ DOMAIN m = 1 .. Len(m) /\ Len(m) \in Nat
          /\ \A i \in 1 .. Len(m) : moved'[step][i] = m[i]
          /\ moved'[step][Len(m) + 1] = live[step]
      BY <3>1
    <3>3. /\ 1 .. Len(m) + 1 = (1 .. Len(m)) \cup {Len(m) + 1}
      BY <3>2
    <3> QED BY <2>2, <3>2, <3>3
  <2> QED BY <2>1, <2>2
<1>5. NumberInv' /\ OwnInv'
  <2>1. \A i \in DOMAIN moved'[step] : Alice(moved'[step][i]) <= run /\ Alice(moved'[step][i]) # run
    <3>1. ASSUME NEW i \in DOMAIN moved'[step], NEW e, e = moved'[step][i]
          PROVE  Alice(e) <= run /\ Alice(e) # run
      <4>1. \/ \E j \in DOMAIN moved[step] : moved[step][j] = e
            \/ live[step] # NoDir /\ e = live[step]
        BY <1>4, <3>1
      <4> QED BY <1>1, <4>1 DEF RInv, NumberInv, OwnInv, States
    <3> QED BY <3>1
  <2>2. \A s \in Step : States(live'[s]) \subseteq States(live[s]) /\ debug' = debug
    BY <1>2, <1>3 DEF States
  <2>3. NumberInv'
    BY <1>1, <1>2, <1>3, <2>1, <2>2 DEF RInv, NumberInv, Idle, States, Alice, Data
  <2>4. ASSUME NEW s \in Step
        PROVE  run \notin States(live[s]) /\ \A i \in DOMAIN moved'[s] : Alice(moved'[s][i]) # run
    BY <1>1, <1>3, <2>1 DEF RInv, OwnInv
  <2>5. OwnInv'
    BY <1>2, <2>2, <2>4 DEF OwnInv, States, Alice, Data
  <2> QED BY <2>3, <2>5
<1>6. FreeInv'
  BY <1>1, <1>2, <1>3 DEF RInv, FreeInv, Busy, MovePcs, States, Alice, Data, Step
<1>7. DataInv'
  BY <1>2 DEF DataInv
<1>8. GapInv' /\ \A s : Seen(s) = live[s] /\ Seen(s)' = live'[s]
  BY <1>1, <1>2, SeenLive, SeenLiveNext DEF GapInv
<1>9. \A r : InNumbered(r)' <=> InNumbered(r) \/ Holds(live[step], r)
  <2>1. ASSUME NEW r, NEW s \in Step
        PROVE  (\E i \in DOMAIN moved'[s] : Holds(moved'[s][i], r))
                 <=> (\E i \in DOMAIN moved[s] : Holds(moved[s][i], r)) \/ (s = step /\ Holds(live[s], r))
    <3>1. CASE s # step
      BY <1>3, <3>1
    <3>2. CASE s = step
      <4>1. Holds(live[s], r) => live[s] # NoDir
        BY DEF Holds, HasConfig
      <4> QED BY <1>4, <3>2, <4>1
    <3> QED BY <3>1, <3>2
  <2>2. ASSUME NEW r
        PROVE  InNumbered(r)' <=> \E s \in Step : \E i \in DOMAIN moved'[s] : Holds(moved'[s][i], r)
    BY DEF InNumbered, Holds, HasConfig
  <2>3. ASSUME NEW r
        PROVE  InNumbered(r) <=> \E s \in Step : \E i \in DOMAIN moved[s] : Holds(moved[s][i], r)
    BY DEF InNumbered
  <2> QED BY <1>1, <2>1, <2>2, <2>3
<1>10. DepotStep
  <2>1. /\ held[step] \in acked \cup {Absent} /\ Absent \notin acked
        /\ \A r \in acked : Holds(live[step], r) <=> held[step] = r
    BY <1>1, <1>8, HoldsFacts
  <2>2. \A t \in Step \ {"bite"} : held'[t] = IF t = step THEN Absent ELSE held[t]
    BY <1>1, <1>2, <1>3, <1>8 DEF held, Holds, HasConfig
  <2>3. held' = [t \in Step \ {"bite"} |-> held'[t]] /\ held = [t \in Step \ {"bite"} |-> held[t]]
    BY DEF held
  <2>4. attic' = {r \in acked : InNumbered(r) \/ Holds(live[step], r)}
    BY <1>2, <1>9 DEF attic
  <2>5. CASE held[step] = Absent
    <3>1. held' = held
      BY <2>2, <2>3, <2>5
    <3>2. attic' = attic
      BY <2>1, <2>4, <2>5 DEF attic
    <3> QED BY <1>2, <3>1, <3>2 DEF DepotStep, D!vars
  <2>6. CASE held[step] # Absent
    <3>1. held' = [held EXCEPT ![step] = Absent]
      BY <1>1, <2>2, <2>3
    <3>2. attic' = attic \cup {held[step]}
      BY <2>1, <2>4, <2>6 DEF attic
    <3>3. D!Aside(step)
      BY <1>2, <2>6, <3>1, <3>2 DEF D!Aside
    <3> QED BY <1>1, <3>3 DEF DepotStep, D!Next
  <2> QED BY <2>5, <2>6
<1> QED BY <1>5, <1>6, <1>7, <1>8, <1>10 DEF RInv

\* The stop file of a run is removed.
LEMMA FinishDepot ==
  ASSUME IInv, RInv, Finish
  PROVE  RInv' /\ DepotStep
<1>1. /\ Busy /\ pc = "finish" /\ pc' = "idle" /\ cmd = "spawn" /\ step \in Step \ {"bite"}
      /\ run \in Run /\ Absent \notin Run /\ Absent # run
      /\ UNCHANGED <<live, debug, moved, cmd, step, run, config, signalled>>
  BY StateValues
  DEF Finish, Goto, Busy, Idle, dirs, args, IInv, TypeOK, CommandOK, CommandInv
<1>2. CASE ~signalled
  <2>1. acked' = acked
    BY <1>2, Zenon DEF Finish
  <2> QED BY <1>1, <2>1, EndKeeps
<1>3. CASE signalled
  <2>1. acked' = acked \cup {run}
    BY <1>3, Zenon DEF Finish
  <2>2. /\ run \notin acked /\ States(live[step]) \cap acked = {}
        /\ \A s \in Step : /\ s # step => run \notin States(live[s])
                           /\ \A i \in DOMAIN moved[s] : Alice(moved[s][i]) # run
    BY <1>1 DEF RInv, NumberInv, FreeInv, OwnInv, Busy
  <2>3. live[step] # NoDir /\ Wrote(live[step]) /\ live[step].config.state = "full"
    BY <1>1, <1>3 DEF IInv, ArtifactInv
  <2>4. Holds(live[step], run)
    BY <2>3 DEF Wrote, Holds, HasConfig
  <2>5. Data(live[step]) = Absent
    BY <1>1, <1>3 DEF RInv, DataInv
  <2>6. NumberInv' /\ OwnInv'
    <3>1. \A r \in acked' : r <= run
      <4>1. run <= run
        BY <1>1, StateValues DEF IInv
      <4> QED BY <2>1, <4>1 DEF RInv, NumberInv
    <3>2. NumberInv'
      BY <1>1, <3>1 DEF RInv, NumberInv, Idle, States, Alice, Data
    <3>3. OwnInv'
      BY <1>1 DEF OwnInv, Idle
    <3> QED BY <3>2, <3>3
  <2>7. FreeInv'
    <3>1. \A s \in Step : live[s] # NoDir => Data(live[s]) \notin acked \cup {run}
      <4>1. ASSUME NEW s \in Step \ {step}, live[s] # NoDir
            PROVE  Data(live[s]) \notin acked \cup {run}
        BY <2>2, <4>1 DEF RInv, FreeInv, States
      <4>2. Data(live[step]) \notin acked \cup {run}
        BY <1>1, <2>3, <2>5 DEF RInv, FreeInv
      <4> QED BY <4>1, <4>2
    <3>2. live["bite"] # NoDir => Alice(live["bite"]) \notin acked \cup {run}
      BY <1>1, <2>2 DEF RInv, FreeInv, States, Step
    <3> QED BY <1>1, <2>1, <3>1, <3>2 DEF FreeInv, Busy, Idle, MovePcs, Alice, Data
  <2>8. DataInv'
    BY <1>1, Zenon DEF RInv, DataInv, Data
  <2>9. GapInv' /\ \A s : Seen(s) = live[s] /\ Seen(s)' = live[s]
    BY <1>1, SeenLive, SeenLiveNext DEF GapInv
  <2>10. attic' = attic
    <3>1. ~InNumbered(run)
      BY <2>2 DEF InNumbered, Holds, Alice
    <3>2. \A r : InNumbered(r)' <=> InNumbered(r)
      BY <1>1 DEF InNumbered, Holds, HasConfig
    <3> QED BY <2>1, <3>1, <3>2 DEF attic
  <2>11. held[step] = Absent
    BY <1>1, <2>2, <2>3, <2>9 DEF held, Holds, States, Alice
  <2>12. held' = [held EXCEPT ![step] = run]
    <3>1. \A s : \A r : Holds(Seen(s)', r) <=> Holds(live[s], r)
      BY <2>9 DEF Holds, HasConfig
    <3>2. held'[step] = run
      BY <1>1, <2>1, <2>4, <2>9, <3>1 DEF held, Holds
    <3>3. ASSUME NEW s \in Step \ {"bite", step} PROVE held'[s] = held[s]
      <4>1. ~Holds(live[s], run)
        BY <2>2 DEF Holds, HasConfig, States, Alice
      <4> QED BY <1>1, <2>1, <2>9, <3>1, <4>1 DEF held
    <3>4. held' = [t \in Step \ {"bite"} |-> held'[t]] /\ held = [t \in Step \ {"bite"} |-> held[t]]
      BY DEF held
    <3> HIDE DEF held
    <3> QED BY <1>1, <3>2, <3>3, <3>4
  <2>13. D!Complete(step, run)
    BY <2>1, <2>2, <2>10, <2>11, <2>12 DEF D!Complete
  <2>14. DepotStep
    BY <1>1, <2>13 DEF DepotStep, D!Next
  <2> QED BY <2>6, <2>7, <2>8, <2>9, <2>14 DEF RInv
<1> QED BY <1>2, <1>3

-----------------------------------------------------------------------------
\* A tame step keeps the invariant and is none of the depot's.
LEMMA TameDepot ==
  ASSUME IInv, RInv, Tame, DataInv'
  PROVE  RInv' /\ DepotStep
<1>1. NumberInv' /\ OwnInv' /\ FreeInv'
  BY TameKeeps DEF RInv
<1>2. held' = held /\ attic' = attic /\ acked' = acked
  BY TameStutters DEF RInv
<1> QED BY <1>1, <1>2 DEF Tame, RInv, DepotStep, D!vars

\* The initial directories are an empty depot.
LEMMA InitDepot == Init => RInv /\ D!Init
<1> SUFFICES ASSUME Init PROVE RInv /\ D!Init
  OBVIOUS
<1>1. /\ \A s \in Step : live[s] = NoDir /\ debug[s] = NoDir /\ moved[s] = <<>>
      /\ pc = "idle" /\ acked = {} /\ cmd = "none"
  BY DEF Init
<1>2. NumberInv /\ OwnInv /\ FreeInv
  BY <1>1 DEF NumberInv, OwnInv, FreeInv, Busy, Idle, MovePcs, States, Step
<1>3. DataInv /\ GapInv
  BY <1>1 DEF DataInv, GapInv
<1>4. attic = {} /\ held = [s \in Step \ {"bite"} |-> Absent]
  BY <1>1 DEF attic, held
<1> QED BY <1>1, <1>2, <1>3, <1>4 DEF RInv, D!Init

\* Every step keeps the invariant, and is one of the depot's or none.
LEMMA StepDepot == IInv /\ RInv /\ [Next]_vars => RInv' /\ DepotStep
<1> SUFFICES ASSUME IInv, RInv, [Next]_vars PROVE RInv' /\ DepotStep
  OBVIOUS
<1>1. CASE Command
  BY <1>1, StartBiteDepot, StartSpawnDepot, StartHelperDepot DEF Command
<1>2. CASE BiteFile \/ BiteConfig
  BY <1>2, BiteTame, TameDepot
<1>3. CASE BiteReady \/ Startup \/ LoopEnds \/ Teardown \/ GenConfigRead
  <2>1. Busy
    BY <1>3 DEF Busy, Idle, BiteReady, Startup, LoopEnds, Teardown, GenConfigRead
  <2>2. pc # "repoint"
    BY <1>3 DEF BiteReady, Startup, LoopEnds, Teardown, GenConfigRead
  <2> QED BY <1>3, <2>1, <2>2, StillSteps, TameDepot
<1>4. CASE Localize \/ Repoint \/ Load
  BY <1>4, LocalizeTame, RepointTame, LoadTame, TameDepot
<1>5. CASE GenFile \/ GenConfig
  BY <1>5, GenFileTame, GenConfigTame, TameDepot
<1>6. CASE RemoveDebug \/ RenameDir \/ CreateDir \/ MoveConfig \/ MoveFile
  BY <1>6, CleanDirsTame, MoveConfigTame, MoveFileTame, TameDepot
<1>7. CASE Publish
  BY <1>7, PublishTame, TameDepot
<1>8. CASE Resolve
  BY <1>8, ResolveDepot
<1>9. CASE Finish
  BY <1>9, FinishDepot
<1>10. CASE Die
  <2>1. CASE pc = "repoint"
    BY <1>10, <2>1, SpoilDepot
  <2>2. CASE Busy /\ pc # "repoint"
    BY <1>10, <2>2, DieTame, TameDepot
  <2>3. CASE ~Busy
    <3>1. pc = "resolve"
      BY <1>10, <2>3 DEF Die, Busy
    <3>2. UNCHANGED <<live, debug, moved, acked, run, cmd, step, config>> /\ pc' = "idle"
      BY <1>10, <3>1 DEF Die, TornWrite, args
    <3> QED BY <3>1, <3>2, EndKeeps
  <2> QED BY <2>1, <2>2, <2>3
<1>11. CASE TouchStop \/ Rest \/ UNCHANGED vars
  <2>1. /\ UNCHANGED <<live, debug, moved, acked, run, cmd, step, config>>
        /\ pc' = pc /\ signalled' = signalled
    BY <1>11 DEF TouchStop, Rest, vars, dirs, args
  <2> QED BY <2>1, EndKeeps
<1> QED
  BY <1>1, <1>2, <1>3, <1>4, <1>5, <1>6, <1>7, <1>8, <1>9, <1>10, <1>11 DEF Next, Process

\* The strengthening is an invariant: whose state is in which directory, and
\* that no run the user was told of is where a command works.
THEOREM StatesKnown == Spec => []RInv
<1>1. Init => RInv
  BY InitDepot
<1>2. IInv /\ RInv /\ [Next]_vars => RInv'
  BY StepDepot
<1> QED BY <1>1, <1>2, Inductive, PTL DEF Spec

\* The commands, cut short anywhere, implement the depot.
THEOREM ImplementsDepot == Spec => DepotSpec
<1>1. Init => D!Init
  BY InitDepot
<1>2. IInv /\ RInv /\ [Next]_vars => [D!Next]_(D!vars)
  BY StepDepot DEF DepotStep
<1> QED BY <1>1, <1>2, Inductive, StatesKnown, PTL DEF Spec, DepotSpec, D!Spec

\* What a depot of these steps and runs holds.
DepotInv ==
  /\ held \in [Step \ {"bite"} -> Run \cup {Absent}] /\ attic \subseteq Run
  /\ D!AllKept

LEMMA DepotInvStep == DepotInv /\ [D!Next]_(D!vars) => DepotInv'
<1> SUFFICES ASSUME DepotInv, [D!Next]_(D!vars) PROVE DepotInv'
  OBVIOUS
<1>0. Absent \notin Run
  BY StepBoundsAssumption DEF Absent, Run
<1>1. ASSUME NEW s \in Step \ {"bite"}, D!Aside(s) PROVE DepotInv'
  BY <1>0, <1>1 DEF D!Aside, DepotInv, D!AllKept
<1>2. ASSUME NEW s \in Step \ {"bite"}, NEW r \in Run, D!Complete(s, r) PROVE DepotInv'
  BY <1>0, <1>2 DEF D!Complete, DepotInv, D!AllKept
<1>3. ASSUME NEW s \in Step \ {"bite"}, NEW r \in Run, D!Restore(s, r) PROVE DepotInv'
  BY <1>0, <1>3 DEF D!Restore, DepotInv, D!AllKept
<1>4. ASSUME NEW r \in Run, D!TakeOver(r) PROVE DepotInv'
  BY <1>0, <1>4 DEF D!TakeOver, DepotInv, D!AllKept
<1>6. ASSUME NEW s \in Step \ {"bite"}, D!Spoil(s) PROVE DepotInv'
  <2>1. held[s] \in Run /\ D!TakeOver(held[s])
    BY <1>6 DEF D!Spoil, DepotInv
  <2> QED BY <1>4, <2>1
<1>5. CASE D!Leave \/ UNCHANGED D!vars
  BY <1>5 DEF D!Leave, D!vars, DepotInv, D!AllKept
<1> QED BY <1>1, <1>2, <1>3, <1>4, <1>5, <1>6 DEF D!Next

LEMMA DepotStart == D!Init => DepotInv
BY DEF D!Init, DepotInv, D!AllKept

\* A depot keeps what it promised: every run that is not the user's is held by a
\* directory or was moved aside.
LEMMA DepotKeeps == D!Spec => []D!AllKept
<1>1. DepotInv => D!AllKept
  BY DEF DepotInv
<1> QED BY <1>1, DepotStart, DepotInvStep, PTL DEF D!Spec

\* What that says of the directories.
LEMMA KeptThere == IInv /\ D!AllKept => NoArtifactLost
<1> SUFFICES ASSUME IInv, D!AllKept, NEW r \in acked
             PROVE  InNumbered(r) \/ \E s \in Step \ {"bite"} : Holds(Seen(s), r)
  BY DEF NoArtifactLost
<1>1. r \in attic \/ \E s \in Step \ {"bite"} : held[s] = r
  BY DEF D!AllKept
<1> QED BY <1>1, HoldsFacts DEF attic

\* The artifacts of every run whose teardown was signalled and completed stay
\* on disk whatever is started, dies or panics later, until a helper command is
\* run on their directory or a process dies while it rewrites the config there
\* (utils.rs:524-530): what Depot promises, read of the directories.
THEOREM NothingLost == Spec => []NoArtifactLost
<1>1. Spec => []D!AllKept
  BY ImplementsDepot, DepotKeeps, PTL DEF DepotSpec
<1> QED BY <1>1, KeptThere, Inductive, PTL

-----------------------------------------------------------------------------
(* Bundles, and the depot.                                                 *)

\* A step in the command's own directory settles nothing.
LEMMA TameSettled ==
  ASSUME IInv, RInv, Tame
  PROVE  Settled
<1>1. Local \cap acked = {} /\ acked' = acked
  BY LocalFacts DEF Tame, RInv
<1>2. ASSUME NEW t \in Step, live'[t] # NoDir, Alice(live'[t]) \in acked
      PROVE  live[t] # NoDir /\ Alice(live'[t]) = Alice(live[t])
  <2>1. CASE t = step
    <3>1. Alice(live'[t]) \in Local
      BY <1>2, <2>1 DEF Tame, States
    <3> QED BY <1>1, <1>2, <3>1
  <2>2. CASE t # step
    <3>1. Same(t)
      BY <2>2 DEF Tame
    <3> QED BY <1>2, <3>1 DEF Same, Alice
  <2> QED BY <2>1, <2>2
<1> QED BY <1>1, <1>2 DEF Settled

\* Nor does one that leaves the directories, or takes one away.
LEMMA StillSettled ==
  ASSUME \A t \in Step : live'[t] = live[t] \/ live'[t] = NoDir,
         acked' \subseteq acked \/ Finish
  PROVE  Settled
BY DEF Settled

\* So every step only ever promises or takes away.
LEMMA StepSettled == IInv /\ RInv /\ [Next]_vars => Settled
<1> SUFFICES ASSUME IInv, RInv, [Next]_vars PROVE Settled
  OBVIOUS
<1>0. live \in [Step -> DirOrNone] /\ "bite" \in Step /\ Absent \notin acked
  BY StateValues DEF IInv, TypeOK, DirsOK, Step
<1>1. CASE StartBite
  <2>1. acked' = acked /\ live' = [live EXCEPT !["bite"] = Ensured(@)]
    BY <1>1 DEF StartBite
  <2>2. Alice(EmptyDir) = Absent
    BY FileFacts DEF EmptyDir, Alice
  <2> QED BY <1>0, <2>1, <2>2 DEF Ensured, Settled
<1>2. CASE StartSpawn \/ StartGenerate \/ StartCleanUp
  <2>1. live' = live /\ acked' \subseteq acked
    BY <1>2 DEF StartSpawn, StartGenerate, StartCleanUp, StillKept, dirs
  <2> QED BY <2>1, StillSettled
<1>3. CASE BiteFile \/ BiteConfig
  BY <1>3, BiteTame, TameSettled
<1>4. CASE \/ BiteReady \/ Startup \/ LoopEnds \/ Teardown \/ GenConfigRead \/ Finish
           \/ TouchStop \/ Rest \/ UNCHANGED vars
  <2>1. live' = live /\ (acked' = acked \/ Finish)
    BY <1>4
    DEF BiteReady, Startup, LoopEnds, Teardown, GenConfigRead, Finish, TouchStop, Rest, Panic, vars, dirs
  <2> QED BY <2>1, StillSettled
<1>5. CASE Resolve
  <2>1. acked' = acked /\ \A t \in Step : live'[t] = live[t] \/ live'[t] = NoDir
    BY <1>0, <1>5 DEF Resolve, MoveAside
  <2> QED BY <2>1, StillSettled
<1>6. CASE Localize \/ Repoint \/ Load
  BY <1>6, LocalizeTame, RepointTame, LoadTame, TameSettled
<1>7. CASE GenFile \/ GenConfig
  BY <1>7, GenFileTame, GenConfigTame, TameSettled
<1>8. CASE RemoveDebug \/ RenameDir \/ CreateDir \/ MoveConfig \/ MoveFile
  BY <1>8, CleanDirsTame, MoveConfigTame, MoveFileTame, TameSettled
<1>9. CASE Publish
  BY <1>9, PublishTame, TameSettled
<1>10. CASE Die
  <2>1. CASE pc = "repoint"
    BY <1>10, <2>1, SpoilFacts DEF Settled, Alice
  <2>2. CASE Busy /\ pc # "repoint"
    BY <1>10, <2>2, DieTame, TameSettled
  <2>3. CASE ~Busy
    <3>1. live' = live /\ acked' = acked
      BY <1>10, <2>3 DEF Die, TornWrite, Busy
    <3> QED BY <3>1, StillSettled
  <2> QED BY <2>1, <2>2, <2>3
<1> QED BY <1>1, <1>2, <1>3, <1>4, <1>5, <1>6, <1>7, <1>8, <1>9, <1>10 DEF Next, Command, Process

\* The number of commands grows when one begins, and only then does one run.
LEMMA RunGrows ==
  ASSUME [Next]_vars
  PROVE  \/ Idle /\ run' = run + 1
         \/ run' = run /\ (Idle => Idle')
<1>1. CASE Command
  BY <1>1 DEF Command, StartBite, StartSpawn, StartGenerate, StartCleanUp, Start
<1>2. CASE Process \/ LoopEnds \/ Die
  <2>1. run' = run /\ ~Idle
    BY <1>2
    DEF Process, LoopEnds, Die, BiteFile, BiteConfig, BiteReady, Resolve, Localize, Repoint, Load,
        Startup, Teardown, GenConfigRead, GenFile, GenConfig, RemoveDebug, RenameDir, CreateDir,
        MoveConfig, MoveFile, Publish, Finish, Panic, args, Idle
  <2> QED BY <2>1
<1>3. CASE TouchStop \/ Rest \/ UNCHANGED vars
  BY <1>3 DEF TouchStop, Rest, vars, args, Idle
<1> QED BY <1>1, <1>2, <1>3 DEF Next

\* A promised run is in the directory of one step only.
LoneInv ==
  \A s, t \in Step : s # t /\ live[s] # NoDir /\ live[t] # NoDir /\ Alice(live[s]) \in acked
    => Alice(live[t]) # Alice(live[s])

\* So is a bundle's, and what it holds is of an earlier command.
CargoInv ==
  bundle.dir # NoDir =>
    /\ \A r \in States(bundle.dir) : r <= run /\ (~Idle => r # run)
    /\ Data(bundle.dir) \notin acked
    /\ bundle.step = "bite" => Alice(bundle.dir) \notin acked
    /\ Alice(bundle.dir) \in acked =>
         \A t \in Step \ {bundle.step} : live[t] # NoDir => Alice(live[t]) # Alice(bundle.dir)

\* What a step that promises a run finds.
LEMMA FinishFacts ==
  ASSUME IInv, RInv, Finish
  PROVE  /\ live' = live /\ acked' \subseteq acked \cup {run} /\ ~Idle /\ step \in Step
         /\ \A s \in Step \ {step} : run \notin States(live[s])
<1>1. pc = "finish" /\ ~Idle /\ cmd = "spawn" /\ step \in Step /\ live' = live
  BY DEF Finish, Idle, dirs, IInv, TypeOK, CommandOK, CommandInv
<1>2. acked' \subseteq acked \cup {run}
  BY DEF Finish
<1> QED BY <1>1, <1>2 DEF RInv, OwnInv

\* No step puts a promised run into a second directory: copies are made under the
\* number of the command that makes them.
LEMMA LoneKept == IInv /\ RInv /\ LoneInv /\ [Next]_vars => LoneInv'
<1> SUFFICES ASSUME IInv, RInv, LoneInv, [Next]_vars,
                    NEW s \in Step, NEW t \in Step, s # t, live'[s] # NoDir, live'[t] # NoDir,
                    Alice(live'[s]) \in acked', Alice(live'[t]) = Alice(live'[s])
             PROVE  FALSE
  BY DEF LoneInv, Alice
<1>1. Settled
  BY StepSettled
<1>2. CASE Alice(live'[s]) \in acked
  <2>1. /\ live[s] # NoDir /\ Alice(live'[s]) = Alice(live[s])
        /\ live[t] # NoDir /\ Alice(live'[t]) = Alice(live[t])
    BY <1>1, <1>2 DEF Settled
  <2> QED BY <1>2, <2>1 DEF LoneInv
<1>3. CASE Alice(live'[s]) \notin acked
  <2>1. Finish
    BY <1>1, <1>3 DEF Settled
  <2>2. Alice(live[s]) = run /\ Alice(live[t]) = run /\ live[s] # NoDir /\ live[t] # NoDir
    BY <1>3, <2>1, FinishFacts
  <2>3. s # step \/ t # step
    OBVIOUS
  <2> QED BY <2>1, <2>2, <2>3, FinishFacts DEF States
<1> QED BY <1>2, <1>3

\* Nor one that is in a bundle.
LEMMA CargoKept ==
  IInv /\ BundleInv /\ RInv /\ CargoInv /\ [Next]_vars /\ bundle' = bundle => CargoInv'
<1> SUFFICES ASSUME IInv, BundleInv, RInv, CargoInv, [Next]_vars, bundle' = bundle, bundle.dir # NoDir
             PROVE  CargoInv'
  BY DEF CargoInv
<1>1. Settled
  BY StepSettled
<1>2. /\ \A r \in States(bundle.dir) : r \in Int /\ r <= run /\ (~Idle => r # run)
      /\ run \in Nat
      /\ Alice(bundle.dir) \in States(bundle.dir) /\ Data(bundle.dir) \in States(bundle.dir)
  <2>1. bundle.dir \in Dir
    BY DEF BundleInv, Bundles, DirOrNone
  <2> QED BY <2>1, StateValues DEF CargoInv, IInv, States
<1>3. \A r \in States(bundle.dir) : r <= run' /\ (~Idle' => r # run')
  <2>1. CASE Idle /\ run' = run + 1
    BY <1>2, <2>1
  <2>2. CASE run' = run /\ (Idle => Idle')
    BY <1>2, <2>2
  <2> QED BY <2>1, <2>2, RunGrows
<1>4. \A r \in States(bundle.dir) : r \in acked' => r \in acked
  <2>1. CASE acked' \subseteq acked
    BY <2>1
  <2>2. CASE Finish
    BY <1>2, <2>2, FinishFacts
  <2> QED BY <1>1, <2>1, <2>2 DEF Settled
<1>5. /\ Data(bundle.dir) \notin acked'
      /\ bundle.step = "bite" => Alice(bundle.dir) \notin acked'
  BY <1>2, <1>4 DEF CargoInv
<1>6. ASSUME Alice(bundle.dir) \in acked', NEW t \in Step \ {bundle.step}, live'[t] # NoDir,
             Alice(live'[t]) = Alice(bundle.dir)
      PROVE  FALSE
  <2>1. Alice(bundle.dir) \in acked
    BY <1>2, <1>4, <1>6
  <2>2. live[t] # NoDir /\ Alice(live'[t]) = Alice(live[t])
    BY <1>1, <1>6, <2>1 DEF Settled
  <2> QED BY <1>6, <2>1, <2>2 DEF CargoInv
<1> QED BY <1>3, <1>5, <1>6 DEF CargoInv, States, Alice, Data

-----------------------------------------------------------------------------
\* The runs an unpacking leaves in its directory.
LEMMA UnpackStates ==
  ASSUME ~Reuse, IInv, BundleInv, UnpackAndSpawn \/ UnpackFails
  PROVE  LET s == bundle.step IN
         /\ s \in Step /\ bundle.dir # NoDir /\ live'[s] # NoDir
         /\ \A t \in Step \ {s} : live'[t] = live[t]
         /\ Alice(live'[s]) \in {Absent, Torn, Alice(bundle.dir)}
         /\ Data(live'[s]) \in {Absent, Torn, Data(bundle.dir)}
         /\ live[s] # NoDir => ~HasConfig(live[s])
<1> DEFINE s == bundle.step
<1> DEFINE b == Ensured(live[s])
<1> DEFINE c == bundle.dir
<1> DEFINE e == live'[s]
<1>1. /\ s \in Step /\ c # NoDir /\ e # NoDir
      /\ \A t \in Step \ {s} : live'[t] = live[t]
      /\ ~HasConfig(b) /\ (live[s] # NoDir => b = live[s])
  BY UnpackFiles
<1>2. /\ \A f \in File : b.file[f] \in {Absent, Torn, c.file[f]}
      /\ \A f \in File : e.file[f] \in {Torn, b.file[f], c.file[f]}
  BY UnpackFiles
<1>3. <<"alice", RC>> \in File /\ <<"data", RC>> \in File
  BY FileFacts
<1> HIDE DEF b, c, e, s
<1>4. Alice(e) \in {Absent, Torn, Alice(c)} /\ Data(e) \in {Absent, Torn, Data(c)}
  BY <1>2, <1>3 DEF Alice, Data
<1> QED BY <1>1, <1>4 DEF c, e, s

\* What the invariants ask of the number of a new command.
LEMMA Newer ==
  ASSUME IInv, RInv, run' = run + 1
  PROVE  /\ \A s \in Step : /\ \A r \in States(live[s]) \cup States(debug[s]) : r <= run' /\ r # run'
                            /\ \A i \in DOMAIN moved[s] : Alice(moved[s][i]) <= run' /\ Alice(moved[s][i]) # run'
         /\ \A r \in acked : r <= run' /\ r # run'
         /\ run \in Nat /\ Absent <= run' /\ Torn <= run' /\ Absent # run' /\ Torn # run'
<1>1. run \in Nat /\ \A r \in Int : r <= run => r <= run' /\ r # run'
  BY StateValues DEF IInv
<1>2. \A s \in Step : \A r \in States(live[s]) \cup States(debug[s]) : r \in Int /\ r <= run
  BY StateValues DEF IInv, RInv, NumberInv
<1>3. \A s \in Step : \A i \in DOMAIN moved[s] : Alice(moved[s][i]) \in Int /\ Alice(moved[s][i]) <= run
  BY StateValues DEF IInv, RInv, NumberInv
<1>4. \A r \in acked : r \in Int /\ r <= run
  <2>1. acked \subseteq Int
    BY StateValues DEF IInv
  <2> QED BY <2>1 DEF RInv, NumberInv
<1>5. Absent \in Int /\ Absent <= run /\ Torn \in Int /\ Torn <= run
  BY <1>1 DEF Absent, Torn
<1> QED BY <1>1, <1>2, <1>3, <1>4, <1>5

\* The directories' invariants, after an unpacking.
LEMMA UnpackKeeps ==
  ASSUME ~Reuse, IInv, BundleInv, RInv, LoneInv, CargoInv, UnpackAndSpawn \/ UnpackFails
  PROVE  RInv' /\ LoneInv' /\ CargoInv'
<1> DEFINE s == bundle.step
<1>1. /\ s \in Step /\ bundle.dir # NoDir /\ live'[s] # NoDir
      /\ \A t \in Step \ {s} : live'[t] = live[t]
      /\ Alice(live'[s]) \in {Absent, Torn, Alice(bundle.dir)}
      /\ Data(live'[s]) \in {Absent, Torn, Data(bundle.dir)}
  BY UnpackStates
<1>2. /\ Idle /\ UNCHANGED <<debug, moved, config, acked, bundle>> /\ run' = run + 1
      /\ \/ pc' = "resolve" /\ cmd' = "spawn" /\ step' \in Step \ {"bite"}
         \/ pc' = "idle"
  BY UnpackEffects DEF IInv
<1>3. /\ \A t \in Step : /\ \A r \in States(live[t]) \cup States(debug[t]) : r <= run' /\ r # run'
                         /\ \A i \in DOMAIN moved[t] : Alice(moved[t][i]) <= run' /\ Alice(moved[t][i]) # run'
      /\ \A r \in acked : r <= run' /\ r # run'
      /\ run \in Nat /\ Absent <= run' /\ Torn <= run' /\ Absent # run' /\ Torn # run'
  BY <1>2, Newer
<1>4. /\ \A r \in States(bundle.dir) : r <= run' /\ r # run'
      /\ Alice(bundle.dir) \in States(bundle.dir) /\ Data(bundle.dir) \in States(bundle.dir)
  <2>1. bundle.dir \in Dir /\ bundle.dir # NoDir
    BY <1>1 DEF BundleInv, Bundles, DirOrNone
  <2>2. \A r \in States(bundle.dir) : r \in Int /\ r <= run
    BY <2>1, StateValues DEF CargoInv, IInv, States
  <2> QED BY <1>2, <1>3, <2>1, <2>2 DEF States
<1>5. States(live'[s]) \subseteq {Absent, Torn} \cup States(bundle.dir)
  BY <1>1, <1>4 DEF States
<1>6. Absent \notin acked /\ Torn \notin acked
  BY StateValues DEF IInv
<1> HIDE DEF s
<1>7. \A t \in Step : \A r \in States(live'[t]) : r <= run' /\ r # run'
  <2>1. \A r \in States(live'[s]) : r <= run' /\ r # run'
    BY <1>3, <1>4, <1>5
  <2> QED BY <1>1, <1>3, <2>1
<1>8. NumberInv' /\ OwnInv'
  <2>1. NumberInv'
    BY <1>2, <1>3, <1>7 DEF NumberInv, Idle, States, Alice, Data
  <2>2. OwnInv'
    BY <1>2, <1>3, <1>7 DEF OwnInv, Idle, States, Alice, Data
  <2> QED BY <2>1, <2>2
<1>9. FreeInv'
  <2>1. \A t \in Step : live'[t] # NoDir => Data(live'[t]) \notin acked
    <3>1. Data(live'[s]) \notin acked
      BY <1>1, <1>6 DEF CargoInv
    <3> QED BY <1>1, <3>1 DEF RInv, FreeInv
  <2>2. live'["bite"] # NoDir => Alice(live'["bite"]) \notin acked
    <3>1. CASE s = "bite"
      <4>1. bundle.step = "bite"
        BY <3>1 DEF s
      <4> QED BY <1>1, <1>6, <3>1, <4>1 DEF CargoInv
    <3>2. CASE s # "bite"
      BY <1>1, <3>2 DEF RInv, FreeInv, Step
    <3> QED BY <3>1, <3>2
  <2> QED BY <1>2, <2>1, <2>2 DEF FreeInv, Busy, Idle, MovePcs, States, Alice, Data
<1>10. DataInv'
  BY <1>2 DEF DataInv
<1>11. GapInv'
  BY <1>2 DEF GapInv
<1>12. Alice(live'[s]) \in acked =>
         \A t \in Step \ {s} : live[t] # NoDir => Alice(live[t]) # Alice(live'[s])
  BY <1>1, <1>6 DEF CargoInv, s
<1>13. LoneInv'
  <2> SUFFICES ASSUME NEW t \in Step, NEW u \in Step, t # u, live'[t] # NoDir, live'[u] # NoDir,
                      Alice(live'[t]) \in acked, Alice(live'[u]) = Alice(live'[t])
               PROVE  FALSE
    BY <1>2 DEF LoneInv, Alice
  <2>1. CASE t # s /\ u # s
    BY <1>1, <2>1 DEF LoneInv
  <2>2. CASE t = s
    BY <1>1, <1>12, <2>2
  <2>3. CASE u = s
    BY <1>1, <1>12, <2>3
  <2> QED BY <2>1, <2>2, <2>3
<1>14. CargoInv'
  <2>1. \A t \in Step \ {s} : live'[t] # NoDir => live[t] # NoDir /\ Alice(live'[t]) = Alice(live[t])
    BY <1>1
  <2> QED BY <1>2, <1>4, <2>1 DEF CargoInv, States, Alice, Data, s
<1> QED BY <1>8, <1>9, <1>10, <1>11, <1>13, <1>14 DEF RInv

\* To the depot it gives back a run that was moved aside, or nothing.
LEMMA UnpackDepot ==
  ASSUME ~Reuse, IInv, BundleInv, RInv, CargoInv, D!AllKept, UnpackAndSpawn \/ UnpackFails
  PROVE  DepotStep
<1> DEFINE s == bundle.step
<1>1. /\ s \in Step /\ bundle.dir # NoDir /\ live'[s] # NoDir
      /\ \A t \in Step \ {s} : live'[t] = live[t]
      /\ Alice(live'[s]) \in {Absent, Torn, Alice(bundle.dir)}
      /\ live[s] # NoDir => ~HasConfig(live[s])
  BY UnpackStates
<1>2. UNCHANGED <<moved, acked>> /\ \A t : Seen(t) = live[t] /\ Seen(t)' = live'[t]
  <2>1. pc # "repoint" /\ pc' # "repoint"
    BY UnpackEffects DEF IInv, Idle
  <2> QED BY <2>1, UnpackEffects, SeenLive, SeenLiveNext DEF IInv
<1>3. attic' = attic
  BY <1>2 DEF attic, InNumbered, Holds, HasConfig
<1>4. Absent \notin acked /\ Torn \notin acked /\ acked \subseteq Run
  BY StateValues DEF IInv
<1>5. CASE s = "bite"
  BY <1>1, <1>2, <1>5, DepotStutters
<1>6. CASE s # "bite"
  <2>1. \A t \in Step \ {"bite", s} : held'[t] = held[t]
    BY <1>1, <1>2 DEF held, Holds, HasConfig
  <2>2. held[s] = Absent
    BY <1>1, <1>2, <1>6 DEF held, Holds, HasConfig
  <2>3. held' = [t \in Step \ {"bite"} |-> held'[t]] /\ held = [t \in Step \ {"bite"} |-> held[t]]
    BY DEF held
  <2>4. held'[s] = IF \E r \in acked : Holds(live'[s], r) THEN Alice(live'[s]) ELSE Absent
    BY <1>1, <1>2, <1>6 DEF held, Holds, HasConfig, Alice
  <2>5. CASE ~\E r \in acked : Holds(live'[s], r)
    <3>1. held'[s] = held[s]
      BY <2>2, <2>4, <2>5
    <3>2. held' = held
      <4> HIDE DEF held, s
      <4> QED BY <2>1, <2>3, <3>1
    <3> QED BY <1>2, <1>3, <3>2 DEF DepotStep, D!vars
  <2>6. CASE \E r \in acked : Holds(live'[s], r)
    <3>1. PICK r \in acked : Holds(live'[s], r)
      BY <2>6
    <3>2. Alice(live'[s]) = r /\ Alice(bundle.dir) = r
      BY <1>1, <1>4, <3>1 DEF Holds, Alice
    <3>3. r \in attic
      <4>1. r \in attic \/ \E t \in Step \ {"bite"} : held[t] = r
        BY DEF D!AllKept
      <4>2. ASSUME NEW t \in Step \ {"bite"}, held[t] = r PROVE FALSE
        <5>1. Holds(live[t], r) /\ t # s
          BY <1>2, <1>4, <2>2, <4>2, HoldsFacts
        <5>2. live[t] # NoDir /\ Alice(live[t]) = Alice(bundle.dir)
          BY <1>2, <3>2, <5>1 DEF Holds, HasConfig, Alice
        <5> QED BY <1>1, <3>2, <5>1, <5>2 DEF CargoInv
      <4> QED BY <4>1, <4>2
    <3>4. held'[s] = r
      BY <2>4, <2>6, <3>2
    <3>5. held' = [held EXCEPT ![s] = r]
      <4> HIDE DEF held, s
      <4> QED BY <1>1, <1>6, <2>1, <2>3, <3>4
    <3>6. D!Restore(s, r)
      BY <1>2, <1>3, <2>2, <3>3, <3>5 DEF D!Restore
    <3>7. D!Next
      <4>1. s \in Step \ {"bite"} /\ r \in Run
        BY <1>1, <1>4, <1>6
      <4> HIDE DEF s
      <4> QED BY <3>6, <4>1 DEF D!Next
    <3> QED BY <3>7 DEF DepotStep
  <2> QED BY <2>5, <2>6
<1> QED BY <1>5, <1>6

-----------------------------------------------------------------------------
\* Packing leaves the directories as they are; a bundle of a promised run is of
\* the one directory that has it.
LEMMA PackKeeps ==
  ASSUME IInv, BundleInv, RInv, LoneInv, Pack
  PROVE  RInv' /\ LoneInv' /\ CargoInv' /\ DepotStep
<1>1. /\ Idle /\ pc' = "idle" /\ run' = run + 1
      /\ UNCHANGED <<live, debug, moved, cmd, step, config, signalled, acked>>
      /\ \E s \in Step : live[s] # NoDir /\ bundle'.dir = live[s] /\ bundle'.step = s
  BY PackEffects DEF IInv, dirs
<1>2. /\ \A t \in Step : /\ \A r \in States(live[t]) \cup States(debug[t]) : r <= run' /\ r # run'
                         /\ \A i \in DOMAIN moved[t] : Alice(moved[t][i]) <= run' /\ Alice(moved[t][i]) # run'
      /\ \A r \in acked : r <= run' /\ r # run'
  BY <1>1, Newer
<1>3. RInv'
  <2>1. NumberInv' /\ OwnInv'
    BY <1>1, <1>2 DEF NumberInv, OwnInv, Idle, States, Alice, Data
  <2>2. FreeInv'
    BY <1>1 DEF RInv, FreeInv, Busy, Idle, MovePcs, States, Alice, Data
  <2>3. DataInv'
    BY <1>1 DEF DataInv
  <2>4. GapInv'
    BY <1>1 DEF GapInv
  <2> QED BY <2>1, <2>2, <2>3, <2>4 DEF RInv
<1>4. LoneInv'
  BY <1>1 DEF LoneInv, Alice
<1>5. CargoInv'
  <2>1. PICK s \in Step : live[s] # NoDir /\ bundle'.dir = live[s] /\ bundle'.step = s
    BY <1>1
  <2>2. \A r \in States(live[s]) : r <= run' /\ r # run'
    BY <1>2
  <2>3. Data(live[s]) \notin acked /\ (s = "bite" => Alice(live[s]) \notin acked)
    BY <2>1 DEF RInv, FreeInv
  <2>4. Alice(live[s]) \in acked => \A t \in Step \ {s} : live[t] # NoDir => Alice(live[t]) # Alice(live[s])
    BY <2>1 DEF LoneInv
  <2> QED BY <1>1, <2>1, <2>2, <2>3, <2>4 DEF CargoInv, States, Alice, Data
<1>6. DepotStep
  <2>1. \A s : Seen(s)' = Seen(s)
    BY <1>1, SeenLive, SeenLiveNext DEF Idle
  <2> QED BY <1>1, <2>1, DepotStutters
<1> QED BY <1>3, <1>4, <1>5, <1>6

\* A new base path is an empty depot; the bundle is all that comes along.
LEMMA ElsewhereKeeps ==
  ASSUME IInv, BundleInv, RInv, CargoInv, Elsewhere
  PROVE  RInv' /\ LoneInv' /\ CargoInv' /\ DepotStep
<1>1. /\ \A s \in Step : live'[s] = NoDir /\ debug'[s] = NoDir /\ moved'[s] = <<>>
      /\ acked' = {} /\ pc' = "idle" /\ cmd' = "none"
      /\ run' = run /\ bundle' = bundle /\ Idle
  BY DEF Elsewhere
<1>2. RInv'
  <2>1. NumberInv' /\ OwnInv' /\ DataInv'
    BY <1>1 DEF NumberInv, OwnInv, DataInv, Idle, States
  <2>2. FreeInv'
    BY <1>1 DEF FreeInv, Busy, Idle, MovePcs, Step
  <2>3. GapInv'
    BY <1>1 DEF GapInv
  <2> QED BY <2>1, <2>2, <2>3 DEF RInv
<1>3. LoneInv'
  BY <1>1 DEF LoneInv
<1>4. CargoInv'
  <2>1. ~Idle' => FALSE
    BY <1>1 DEF Idle
  <2> QED BY <1>1, <2>1 DEF CargoInv, States, Alice, Data
<1>5. D!Leave
  <2>1. attic' = {}
    BY <1>1 DEF attic
  <2>2. held' = [s \in Step \ {"bite"} |-> Absent]
    BY <1>1 DEF held
  <2> QED BY <1>1, <2>1, <2>2 DEF D!Leave
<1>6. DepotStep
  BY <1>5 DEF DepotStep, D!Next
<1> QED BY <1>2, <1>3, <1>4, <1>6

LEMMA BundleStepDepot ==
  ~Reuse /\ IInv /\ BundleInv /\ RInv /\ LoneInv /\ CargoInv /\ DepotInv /\ [BundleNext]_bundleVars
    => (RInv /\ LoneInv /\ CargoInv /\ DepotInv)' /\ DepotStep
<1> SUFFICES ASSUME ~Reuse, IInv, BundleInv, RInv, LoneInv, CargoInv, DepotInv, [BundleNext]_bundleVars
             PROVE  (RInv /\ LoneInv /\ CargoInv /\ DepotInv)' /\ DepotStep
  OBVIOUS
<1>1. RInv' /\ LoneInv' /\ CargoInv' /\ DepotStep
  <2>1. CASE [Next]_vars /\ UNCHANGED <<bundle, packs>>
    BY <2>1, StepDepot, LoneKept, CargoKept
  <2>2. CASE Pack
    BY <2>2, PackKeeps
  <2>3. CASE UnpackAndSpawn \/ UnpackFails
    BY <2>3, UnpackKeeps, UnpackDepot DEF DepotInv
  <2>4. CASE Elsewhere
    BY <2>4, ElsewhereKeeps
  <2> QED BY <2>1, <2>2, <2>3, <2>4, HereFacts
<1>2. DepotInv'
  BY <1>1, DepotInvStep DEF DepotStep
<1> QED BY <1>1, <1>2

LEMMA BundleDepotInductive ==
  ~Reuse /\ BundleSpec => [](IInv /\ BundleInv /\ RInv /\ LoneInv /\ CargoInv /\ DepotInv)
<1> SUFFICES ASSUME ~Reuse
             PROVE  BundleSpec => [](IInv /\ BundleInv /\ RInv /\ LoneInv /\ CargoInv /\ DepotInv)
  OBVIOUS
<1>1. BundleInit => RInv /\ LoneInv /\ CargoInv /\ DepotInv
  <2> SUFFICES ASSUME BundleInit PROVE RInv /\ LoneInv /\ CargoInv /\ DepotInv
    OBVIOUS
  <2>1. Init /\ bundle.dir = NoDir
    BY DEF BundleInit, NoBundle
  <2>2. LoneInv
    BY <2>1 DEF Init, LoneInv
  <2> QED BY <2>1, <2>2, InitDepot, DepotStart DEF CargoInv
<1>2. IInv /\ BundleInv /\ RInv /\ LoneInv /\ CargoInv /\ DepotInv /\ [BundleNext]_bundleVars
        => (RInv /\ LoneInv /\ CargoInv /\ DepotInv)'
  BY BundleStepDepot
<1> QED BY <1>1, <1>2, BundleInductive, PTL DEF BundleSpec

\* With bundles packed, unpacked and taken elsewhere, cut short anywhere, the
\* commands still implement the depot: an unpacking gives back a run that was
\* moved aside, or nothing.
THEOREM BundleImplementsDepot == ~Reuse /\ BundleSpec => DepotSpec
<1> SUFFICES ASSUME ~Reuse PROVE BundleSpec => DepotSpec
  OBVIOUS
<1>1. BundleInit => D!Init
  BY InitDepot DEF BundleInit
<1>2. IInv /\ BundleInv /\ RInv /\ LoneInv /\ CargoInv /\ DepotInv /\ [BundleNext]_bundleVars
        => [D!Next]_(D!vars)
  BY BundleStepDepot DEF DepotStep
<1> QED BY <1>1, <1>2, BundleDepotInductive, PTL DEF BundleSpec, DepotSpec, D!Spec

\* No bundle costs the user a completed step: with bundles too, only a helper
\* command and a death in the rewriting of its config do.
THEOREM BundleNothingLost == ~Reuse /\ BundleSpec => []NoArtifactLost
<1>1. IInv /\ DepotInv => NoArtifactLost
  BY KeptThere DEF DepotInv
<1> QED BY <1>1, BundleDepotInductive, PTL

=============================================================================
