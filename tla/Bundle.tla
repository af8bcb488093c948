-------------------------------- MODULE Bundle --------------------------------
(***************************************************************************)
(* Bundles: `pack` writes a step's directory and ready.json into one file, *)
(* `spawn --bundle` writes them out where the network is to be started     *)
(* (bundle.rs).  Both may die, or find the disk full, between and inside   *)
(* two entries; nothing else happens meanwhile, so that each is one step.  *)
(*                                                                         *)
(* The user may go on in another base path with the bundle alone.          *)
(***************************************************************************)
EXTENDS StepDirs

CONSTANT MaxPacks  \* bound: pack commands

ASSUME MaxPacksAssumption == MaxPacks \in Nat

VARIABLES
  bundle,  \* the bundle: what was packed, and the entries that are in the file
  packs    \* pack commands so far

bundleVars == <<vars, bundle, packs>>

NoBundle == [dir |-> NoDir, step |-> "bite", ready |-> Absent, whole |-> FALSE]

ConfigEntry == <<"config", RC>>
OriginalEntry == <<"original", RC>>

\* The entries of a directory, and those of them that are written together: the
\* files of a chain, or the configs.
Entries(d) ==
  {f \in File : d.file[f] # Absent}
    \cup {e \in {ConfigEntry} : d.config.state # "none"}
    \cup {e \in {OriginalEntry} : d.original.state # "none"}

Groups == {{f \in File : f[2] = c} : c \in Chains} \cup {{ConfigEntry, OriginalEntry}}

BundleInit == Init /\ bundle = NoBundle /\ packs = 0

\* A command of which only the outcome is seen.
Once == Idle /\ run < MaxRuns /\ run' = run + 1 /\ pc' = "idle"

-----------------------------------------------------------------------------
\* The file is created, and an earlier bundle gone, before a directory that
\* cannot be read, or a death, ends the command; ready.json comes last.
Pack ==
  /\ packs < MaxPacks
  /\ packs' = packs + 1
  /\ Once
  /\ \E s \in Step :
       /\ live[s] # NoDir
       /\ \E whole \in BOOLEAN :
            bundle' = [dir |-> live[s], step |-> s, ready |-> ready, whole |-> whole]
  /\ UNCHANGED <<dirs, stop, cmd, step, publish, bites, at, config, signalled, acked, announced>>

\* Variant: a file that is there is left as it is.
WrittenIfNew(d, f, S, torn) ==
  IF d.file[f] # Absent THEN d.file[f]
  ELSE IF f \in torn THEN Torn ELSE IF f \in S THEN bundle.dir.file[f] ELSE Absent

\* The file f of d after the entries S were written over it, those of torn in part.
Written(d, f, S, torn) ==
  IF f \in torn THEN Torn ELSE IF f \in S THEN bundle.dir.file[f] ELSE d.file[f]

Overlay(d, S, torn, part) ==
  LET c == bundle.dir
      WrittenConfig(e, old, new) == IF e \in torn THEN part ELSE IF e \in S THEN new ELSE old
  IN
  [file |-> [f \in File |-> Written(d, f, S, torn)],
   boots |-> [x \in Chains |-> IF <<"spec", x>> \in S THEN c.boots[x] ELSE d.boots[x]],
   config |-> WrittenConfig(ConfigEntry, d.config, c.config),
   original |-> WrittenConfig(OriginalEntry, d.original, c.original)]

\* A directory without a config, of nothing but what this bundle was packed from.
Fits(d) ==
  d # NoDir => /\ ~HasConfig(d)
               /\ \A f \in File : d.file[f] \in {Absent, Torn, bundle.dir.file[f]}

Unpacking ==
  /\ bundle.dir # NoDir
  /\ ~Reuse => Fits(live[bundle.step])

Unpacked(S, torn, part) == [live EXCEPT ![bundle.step] = Overlay(Ensured(@), S, torn, part)]
AllUnpacked == Unpacked(Entries(bundle.dir), {}, NoConfig)

\* Over the files that ready.json announces an unpacking ends the announcement,
\* and so does another ready.json.
StillAnnounced == IF bundle.step = "bite" THEN 0 ELSE announced

\* All of it is unpacked, and a network spawned; a ready.json in it replaces the
\* one of a bite made here.
UnpackAndSpawn ==
  /\ Unpacking /\ bundle.whole
  /\ live' = AllUnpacked
  /\ IF bundle.ready = Absent THEN ready' = ready /\ announced' = StillAnnounced
     ELSE ready' = bundle.ready /\ announced' = 0
  /\ \E s \in Step \ {"bite"} : live'[DirFrom(s)] # NoDir /\ Start("spawn", s, "resolve")
  /\ UNCHANGED <<debug, moved, config, bites, acked, bundle, packs>>

\* The bundle ends too early, or the command does: in the step's directory, or
\* after it, when ready.json may have been replaced.
UnpackFails ==
  /\ Unpacking /\ Once
  /\ bundle.whole \/ live[bundle.step] = NoDir
  /\ \/ /\ \E G \in SUBSET Groups :
             LET S == Entries(bundle.dir) \cap UNION G
                 missing == Entries(bundle.dir) \ S
             IN
             \E torn \in {{}} \cup {{e} : e \in missing}, part \in TornConfigs :
               live' = Unpacked(S, torn, part)
        /\ ready' = ready /\ announced' = StillAnnounced
     \/ /\ bundle.ready # Absent
        /\ live' = AllUnpacked
        /\ ready' \in {bundle.ready, Torn} /\ announced' = 0
  /\ UNCHANGED <<debug, moved, stop, cmd, step, publish, bites, at, config, signalled,
                 acked, bundle, packs>>

\* The user goes on in a new base path.
Elsewhere ==
  /\ Idle /\ bundle.dir # NoDir /\ \E s \in Step : live[s] # NoDir
  /\ live' = [s \in Step |-> NoDir] /\ debug' = live'
  /\ moved' = [s \in Step |-> <<>>]
  /\ ready' = Absent /\ stop' = FALSE
  /\ acked' = {} /\ announced' = 0
  /\ pc' = "idle" /\ cmd' = "none" /\ step' = "bite" /\ at' = 1
  /\ config' = NoConfig /\ publish' = FALSE /\ signalled' = FALSE
  /\ UNCHANGED <<run, bites, bundle, packs>>

-----------------------------------------------------------------------------
Here == Next /\ UNCHANGED <<bundle, packs>>
BundleNext == Here \/ Pack \/ UnpackAndSpawn \/ UnpackFails \/ Elsewhere

\* As in StepDirs: a command runs on by itself.
BundleSpec ==
  /\ BundleInit /\ [][BundleNext]_bundleVars
  /\ WF_bundleVars(Process /\ UNCHANGED <<bundle, packs>>)

Bundles == [dir : DirOrNone, step : Step, ready : {Torn, Absent} \cup Run, whole : BOOLEAN]
BundleTypeOK == TypeOK /\ bundle \in Bundles /\ packs \in 0 .. MaxPacks

\* "Everything needed to spawn has to travel together" (bundle.rs:4): a step that
\* could start a network when it was packed, and was packed whole, can start one
\* where it is unpacked, also over what an unpacking that died left there.
UnpackedStepLoads ==
  [][UnpackAndSpawn /\ Loads(bundle.dir) => Loads(live'[bundle.step])]_bundleVars

\* "The bite bundle is left untouched" (README.md:213), and reusable "multiple
\* times" (README.md:22): in one base path a bite that could start a network
\* can start the next one too, unless a process dies while it rewrites the
\* config (WholeConfigLeft shows what that leads to).
BiteLeftUntouched == [][BiteKept \/ Elsewhere]_bundleVars

=============================================================================
