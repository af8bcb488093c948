------------------------------- MODULE Options --------------------------------
(***************************************************************************)
(* The options of `bite` and `spawn`: how the command line, the config     *)
(* file and the environment are merged (resolve.rs, config.rs), what is    *)
(* refused, and what main.rs makes of the rest.                            *)
(*                                                                         *)
(* An option is a name and the chain it is about (the relay chain for those *)
(* about none).  Its value is where it was taken from: values of different *)
(* origins differ, and nothing else of them matters here.                  *)
(***************************************************************************)
EXTENDS Naturals, FiniteSets

CONSTANTS
  RC,       \* the relay chain
  Paras,    \* parachain ids
  MaxGiven  \* bound: options given, on the command line and in the file together

ASSUME OptionsAssumption == RC \notin Paras /\ MaxGiven \in Nat

RelayOption == {"runtime", "sync_url", "bite_at"} \X {RC}
Flag == {"and_spawn", "with_monitor", "apply_upgrade", "keep_messaging"} \X {RC}

Command == ({"dg_relay", "dg_para"} \X {RC}) \cup ({"command"} \X ({RC} \cup Paras))

CliOption ==
  ({"network", "parachains", "base_path", "publish", "dg_relay", "dg_para"} \X {RC})
    \cup RelayOption \cup Flag
    \cup ({"upgrade"} \X ({RC} \cup Paras)) \cup ({"cores"} \X Paras)

FileOption ==
  (CliOption \ ({"network", "parachains"} \X {RC}))
    \cup Command \cup ({"runtime", "bite_at", "rpc"} \X Paras)

Option == CliOption \cup FileOption

\* What SpawnOverrides has.
SpawnOption == {"base_path", "with_monitor", "apply_upgrade", "publish"} \X {RC}

VARIABLES
  cmd,        \* "bite" or "spawn"
  cli, file,  \* the options given by each
  hasFile,    \* was --config given?
  off,        \* the flags in the file say false
  unusable,   \* the origins whose commands, images and binaries can't be used
  env,        \* is ZOMBIE_BITE_BASE_PATH set?
  cliNet, fileNet,      \* what the network is: public, custom%..., or neither
  cliEntry, fileEntry,  \* what the lists say of each parachain
  pc,         \* "given", "accepted", "refused", "panicked" or "done"
  setting,    \* the resolved options
  bitten,     \* the resolved parachains
  spawned, monitored, carried, applied, published  \* what came of it

inputs == <<cmd, cli, file, hasFile, off, unusable, env, cliNet, fileNet, cliEntry, fileEntry>>
outcome == <<spawned, monitored, carried, applied, published>>
vars == <<inputs, pc, setting, bitten, outcome>>

\* The subsets of S with up to n members.
UpTo(n, S) == {{}} \cup {{f[i] : i \in 1 .. n} : f \in [1 .. n -> S]}

Network == {"public", "custom", "wrong"}

\* Where a typo in a command can be.
Typos == {o \in {"cli", "file"} : (IF o = "cli" THEN cli ELSE file) \cap Command # {}}

Init ==
  /\ cmd \in {"bite", "spawn"}
  /\ cli \in UpTo(MaxGiven, IF cmd = "bite" THEN CliOption ELSE SpawnOption)
  /\ hasFile \in BOOLEAN /\ env \in BOOLEAN
  /\ file \in IF hasFile THEN UpTo(MaxGiven - Cardinality(cli), FileOption) ELSE {{}}
  /\ off \in IF file \cap Flag # {} THEN BOOLEAN ELSE {FALSE}
  /\ unusable \in {{}} \cup {{o} : o \in Typos}
  /\ cliNet \in IF <<"network", RC>> \in cli THEN Network ELSE {"public"}
  /\ fileNet \in IF hasFile THEN Network ELSE {"public"}
  /\ cliEntry \in IF <<"parachains", RC>> \in cli
                  THEN [Paras -> {"absent", "listed", "invalid"}] ELSE [Paras -> {"absent"}]
  /\ fileEntry \in IF hasFile
                   THEN [Paras -> {"absent", "listed", "disabled", "invalid"}] ELSE [Paras -> {"absent"}]
  /\ pc = "given"
  /\ setting = [k \in Option |-> "default"] /\ bitten = {}
  /\ spawned = FALSE /\ monitored = FALSE /\ carried = {} /\ applied = {} /\ published = FALSE

-----------------------------------------------------------------------------
(* The merge.                                                              *)

InCli(k) == k \in cli
InFile(k) == hasFile /\ k \in file

\* The parachains the config file has an enabled entry for.
FileParas == {p \in Paras : fileEntry[p] = "listed"}

\* A custom%... that can't be split, or an entry without an id: those of the file
\* are looked at even if its list is not used.
BadParas == \E p \in Paras : "invalid" \in {cliEntry[p], fileEntry[p]}

\* A list on the command line replaces the file's.
Bitten == IF <<"parachains", RC>> \in cli THEN {p \in Paras : cliEntry[p] = "listed"} ELSE FileParas

NetworkOf == IF <<"network", RC>> \in cli THEN cliNet ELSE fileNet

\* The file's, or else the command line's; and the other way round.
FileOrCli(k) == IF InFile(k) THEN "file" ELSE IF InCli(k) THEN "cli" ELSE "default"
CliOrFile(k) == IF InCli(k) THEN "cli" ELSE IF InFile(k) THEN "file" ELSE "default"

\* A custom relay brings its url, and ignores what the file says of the relay
\* chain; so does any relay when the command line says anything of it.
RelaySetting(k) ==
  IF NetworkOf = "custom"
  THEN IF k[1] = "sync_url" THEN "network" ELSE IF InCli(k) THEN "cli" ELSE "default"
  ELSE IF RelayOption \cap cli # {} THEN IF InCli(k) THEN "cli" ELSE "default"
  ELSE CliOrFile(k)

\* get_base_path.
BasePath(k) ==
  IF CliOrFile(k) # "default" THEN CliOrFile(k) ELSE IF env THEN "env" ELSE "default"

\* Upgrades and cores are tables by parachain id; the file's entries count if
\* they are enabled, whatever list is used.
Table(k) == IF k[2] \in FileParas THEN CliOrFile(k) ELSE IF InCli(k) THEN "cli" ELSE "default"

\* A parachain named on the command line has none of the file's bite_at,
\* rpc_endpoint and runtime_override.
ParaSetting(k) ==
  IF InFile(k) /\ k[2] \in FileParas /\ <<"parachains", RC>> \notin cli THEN "file" ELSE "default"

BiteSetting(k) ==
  CASE k = <<"network", RC>> -> IF InCli(k) THEN "cli" ELSE IF hasFile THEN "file" ELSE "default"
    [] k = <<"parachains", RC>> -> IF InCli(k) THEN "cli" ELSE IF hasFile THEN "file" ELSE "default"
    [] k = <<"with_monitor", RC>> -> IF InCli(k) THEN "cli" ELSE "default"
    [] k = <<"base_path", RC>> -> BasePath(k)
    [] k \in RelayOption -> RelaySetting(k)
    [] k[2] \in Paras /\ k[1] \in {"upgrade", "cores", "command"} -> Table(k)
    [] k[2] \in Paras /\ k[1] \in {"runtime", "bite_at", "rpc"} -> ParaSetting(k)
    [] OTHER -> CliOrFile(k)

SpawnSetting(k) ==
  CASE k \notin SpawnOption -> "default"
    [] k = <<"base_path", RC>> -> BasePath(k)
    [] k = <<"with_monitor", RC>> -> FileOrCli(k)  \* unwrap_or(with_monitor)
    [] OTHER -> CliOrFile(k)

Settings == [k \in Option |-> IF cmd = "bite" THEN BiteSetting(k) ELSE SpawnSetting(k)]

\* Is the option on, or set to something?
On(s, k) == s[k] \in {"cli", "env"} \/ (s[k] = "file" /\ ~(off /\ k \in Flag))

Carries(s) == {c \in {RC} \cup Paras : On(s, <<"upgrade", c>>)}

-----------------------------------------------------------------------------
(* What is refused.                                                        *)

\* A typo shall not show only after the sync.
NotUsable(s) == \E k \in Command : s[k] \in unusable

\* Variant: only what the command line says is looked at.
NeedsSpawnIfInCli(s) ==
  {<<"publish", RC>>, <<"apply_upgrade", RC>>} \cap cli # {} /\ ~On(s, <<"and_spawn", RC>>)

\* validate.
NeedsSpawn(s) ==
  (On(s, <<"publish", RC>>) \/ On(s, <<"apply_upgrade", RC>>)) /\ ~On(s, <<"and_spawn", RC>>)
NeedsUpgrade(s) == On(s, <<"apply_upgrade", RC>>) /\ Carries(s) = {}

\* Cores are given to bitten parachains only.
StrayCores(s) == \E p \in Paras \ Bitten : On(s, <<"cores", p>>)

\* --with-monitor goes with --and-spawn, both on the command line.
MonitorAlone == InCli(<<"with_monitor", RC>>) /\ ~InCli(<<"and_spawn", RC>>)

Refused(s) ==
  cmd = "bite" /\ \/ MonitorAlone
                  \/ NetworkOf = "wrong"
                  \/ BadParas
                  \/ NotUsable(s)
                  \/ StrayCores(s)
                  \/ NeedsSpawn(s)
                  \/ NeedsUpgrade(s)

Resolve ==
  /\ pc = "given"
  /\ IF Refused(Settings)
     THEN pc' = "refused" /\ UNCHANGED <<setting, bitten>>
     ELSE pc' = "accepted" /\ setting' = Settings /\ bitten' = IF cmd = "bite" THEN Bitten ELSE {}
  /\ UNCHANGED <<inputs, outcome>>

\* A block to bite at needs an endpoint to read its header from.
NoEndpoint(p) == On(setting, <<"bite_at", p>>) /\ ~On(setting, <<"rpc", p>>)

BitePanics ==
  /\ pc = "accepted" /\ cmd = "bite"
  /\ \E p \in bitten : NoEndpoint(p)
  /\ pc' = "panicked"
  /\ UNCHANGED <<inputs, setting, bitten, outcome>>

\* What a bite, and the spawn after it, do with the options: the upgrades of the
\* chains there are, the monitor always.
Bite ==
  /\ pc = "accepted" /\ cmd = "bite"
  /\ ~ \E p \in bitten : NoEndpoint(p)
  /\ pc' = "done"
  /\ spawned' = On(setting, <<"and_spawn", RC>>)
  /\ monitored' = spawned'
  /\ carried' = Carries(setting) \cap ({RC} \cup bitten)
  /\ applied' = IF spawned' /\ On(setting, <<"apply_upgrade", RC>>) THEN carried' ELSE {}
  /\ published' = (spawned' /\ On(setting, <<"publish", RC>>))
  /\ UNCHANGED <<inputs, setting, bitten>>

\* A spawn applies what the bite it starts from carried.
Spawn ==
  /\ pc = "accepted" /\ cmd = "spawn"
  /\ pc' = "done"
  /\ spawned' = TRUE
  /\ monitored' = On(setting, <<"with_monitor", RC>>)
  /\ \E u \in SUBSET ({RC} \cup Paras) :
       carried' = u /\ applied' = IF On(setting, <<"apply_upgrade", RC>>) THEN u ELSE {}
  /\ published' = On(setting, <<"publish", RC>>)
  /\ UNCHANGED <<inputs, setting, bitten>>

Over == pc \in {"refused", "panicked", "done"} /\ UNCHANGED vars

Next == Resolve \/ BitePanics \/ Bite \/ Spawn \/ Over

Spec == Init /\ [][Next]_vars

\* "CLI args override config file values" (cli.rs:17, 99): what is given on the
\* command line is what an accepted command uses, whatever the file and the
\* environment say; but for the url of a custom relay, which has it in its name,
\* and for the monitor of a spawn, where the file wins.
CommandLineWins ==
  pc = "accepted" =>
    \A k \in cli :
      \/ setting[k] = "cli"
      \/ k = <<"sync_url", RC>> /\ NetworkOf = "custom"
      \/ k = <<"with_monitor", RC>> /\ cmd = "spawn" /\ k \in file

\* "Reject option combinations that can't be carried out" (resolve.rs:108): what
\* was accepted, from either origin, has been done in the end: the bootnodes
\* are published, the monitor runs, there is a network for the upgrades to be
\* applied on, and the cores are of parachains that were bitten.
AskedIsDone ==
  pc = "done" =>
    /\ On(setting, <<"publish", RC>>) => published
    /\ On(setting, <<"with_monitor", RC>>) => monitored
    /\ On(setting, <<"apply_upgrade", RC>>) => spawned
    /\ cmd = "bite" => {p \in Paras : On(setting, <<"cores", p>>)} \subseteq bitten

\* "None/false/empty means not set, so the config file value (or the default) is
\* used" (resolve.rs:52-53), of every option about the relay chain of a public network.
FileFillsIn ==
  pc = "accepted" /\ cmd = "bite" /\ NetworkOf = "public" =>
    \A k \in file \ (cli \cup {<<"with_monitor", RC>>}) : k[2] = RC => setting[k] = "file"

=============================================================================
