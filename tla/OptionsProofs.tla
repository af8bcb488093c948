---------------------------- MODULE OptionsProofs -----------------------------
(***************************************************************************)
(* What holds of Options for any parachains, and any number of options of  *)
(* any origin: the command line wins, and what was accepted is done.       *)
(***************************************************************************)
EXTENDS Options, TLAPS

\* What the command line can say, and where nothing else can come from.
GivenInv ==
  /\ cmd \in {"bite", "spawn"}
  /\ cli \subseteq IF cmd = "bite" THEN CliOption ELSE SpawnOption

\* What was accepted is the merge, and was not to be refused.
AcceptedInv ==
  pc \in {"accepted", "done"} =>
    /\ setting = Settings /\ ~Refused(Settings)
    /\ cmd = "bite" => bitten = Bitten

\* What a command that is over has done is what its options say.
DoneInv ==
  pc = "done" =>
    /\ spawned <=> cmd = "spawn" \/ On(setting, <<"and_spawn", RC>>)
    /\ monitored <=> IF cmd = "spawn" THEN On(setting, <<"with_monitor", RC>>) ELSE spawned
    /\ published <=> spawned /\ On(setting, <<"publish", RC>>)

Inv == GivenInv /\ AcceptedInv /\ DoneInv

-----------------------------------------------------------------------------
(* The options, by the way they are merged.                                *)

\* The bounded choices of the model are subsets.
LEMMA UpToSubsets ==
  ASSUME NEW n \in Nat, NEW S, NEW g \in UpTo(n, S)
  PROVE  g \subseteq S
BY DEF UpTo

\* An option that exists on the command line is the relay chain's, or an upgrade
\* or the cores of a parachain.
LEMMA CliKinds ==
  /\ CliOption \subseteq Option /\ SpawnOption \subseteq Option
  /\ \A k \in CliOption :
       \/ k[2] = RC
       \/ k[2] \in Paras /\ k[1] \in {"upgrade", "cores"}
  /\ RC \notin Paras
BY OptionsAssumption DEF CliOption, SpawnOption, Option, RelayOption, Flag

\* What is given on the command line of a bite comes from there.
LEMMA BiteCli ==
  ASSUME NEW k \in CliOption, k \in cli,
         ~(k = <<"sync_url", RC>> /\ NetworkOf = "custom")
  PROVE  BiteSetting(k) = "cli"
<1>1. InCli(k) /\ CliOrFile(k) = "cli"
  BY DEF InCli, CliOrFile
<1>2. BasePath(k) = "cli" /\ Table(k) = "cli"
  BY <1>1 DEF BasePath, Table
<1>3. k \in RelayOption => RelaySetting(k) = "cli"
  BY <1>1 DEF RelaySetting, RelayOption
<1>4. ~(k[2] \in Paras /\ k[1] \in {"runtime", "bite_at", "rpc"})
  BY CliKinds
<1> QED BY <1>1, <1>2, <1>3, <1>4 DEF BiteSetting

\* So does what is given on that of a spawn, but for the monitor.
LEMMA SpawnCli ==
  ASSUME NEW k \in SpawnOption, k \in cli,
         ~(k = <<"with_monitor", RC>> /\ k \in file)
  PROVE  SpawnSetting(k) = "cli"
<1>1. CliOrFile(k) = "cli" /\ BasePath(k) = "cli"
  BY DEF InCli, CliOrFile, BasePath
<1>2. k = <<"with_monitor", RC>> => FileOrCli(k) = "cli"
  BY DEF FileOrCli, InFile, InCli
<1> QED BY <1>1, <1>2 DEF SpawnSetting

\* The flags of a bite that start something after it.
LEMMA FlagSettings ==
  /\ <<"and_spawn", RC>> \in Option /\ <<"with_monitor", RC>> \in Option
  /\ BiteSetting(<<"and_spawn", RC>>) = CliOrFile(<<"and_spawn", RC>>)
  /\ BiteSetting(<<"with_monitor", RC>>) =
       IF InCli(<<"with_monitor", RC>>) THEN "cli" ELSE "default"
BY OptionsAssumption DEF Option, CliOption, Flag, BiteSetting, RelayOption

-----------------------------------------------------------------------------
LEMMA InitInv == Init => Inv
<1> SUFFICES ASSUME Init PROVE Inv
  OBVIOUS
<1>1. cmd \in {"bite", "spawn"} /\ pc = "given" /\ MaxGiven \in Nat
  BY OptionsAssumption DEF Init
<1>2. cli \in UpTo(MaxGiven, IF cmd = "bite" THEN CliOption ELSE SpawnOption)
  BY Zenon DEF Init
<1>3. GivenInv
  BY <1>1, <1>2, UpToSubsets DEF GivenInv
<1> QED BY <1>1, <1>3 DEF Inv, AcceptedInv, DoneInv

\* The inputs stay what they are, and so does what is derived from them.
LEMMA SameInputs ==
  ASSUME UNCHANGED inputs
  PROVE  /\ Settings' = Settings /\ Bitten' = Bitten
         /\ Refused(Settings)' <=> Refused(Settings)
         /\ GivenInv' <=> GivenInv
<1>1. UNCHANGED <<cmd, cli, file, hasFile, off, unusable, env, cliNet, fileNet, cliEntry, fileEntry>>
  BY DEF inputs
<1>2. FileParas' = FileParas /\ NetworkOf' = NetworkOf /\ Bitten' = Bitten /\ (BadParas' <=> BadParas)
  BY <1>1 DEF FileParas, NetworkOf, Bitten, BadParas
<1>3. Settings' = Settings
  BY <1>1, <1>2
  DEF Settings, BiteSetting, SpawnSetting, BasePath, RelaySetting, Table, ParaSetting,
      CliOrFile, FileOrCli, InCli, InFile
<1>4. Refused(Settings)' <=> Refused(Settings)
  BY <1>1, <1>2, <1>3
  DEF Refused, MonitorAlone, NotUsable, StrayCores, NeedsSpawn, NeedsUpgrade, Carries, On, InCli
<1>5. GivenInv' <=> GivenInv
  BY <1>1 DEF GivenInv
<1> QED BY <1>2, <1>3, <1>4, <1>5

LEMMA StepInv == Inv /\ [Next]_vars => Inv'
<1> SUFFICES ASSUME Inv, [Next]_vars PROVE Inv'
  OBVIOUS
<1>1. UNCHANGED inputs
  BY DEF Next, Resolve, BitePanics, Bite, Spawn, Over, vars
<1>2. UNCHANGED <<cmd, off>>
  BY <1>1 DEF inputs
<1>3. GivenInv'
  BY <1>1, SameInputs DEF Inv
<1>4. CASE Resolve
  <2>1. AcceptedInv'
    <3>1. CASE Refused(Settings)
      BY <1>4, <3>1 DEF Resolve, AcceptedInv
    <3>2. CASE ~Refused(Settings)
      <4>1. setting' = Settings /\ bitten' = IF cmd = "bite" THEN Bitten ELSE {}
        BY <1>4, <3>2 DEF Resolve
      <4> QED BY <1>1, <1>2, <3>2, <4>1, SameInputs DEF AcceptedInv
    <3> QED BY <3>1, <3>2
  <2>2. DoneInv'
    BY <1>4 DEF Resolve, DoneInv
  <2> QED BY <1>3, <2>1, <2>2 DEF Inv
<1>5. CASE BitePanics
  <2>1. pc' = "panicked"
    BY <1>5 DEF BitePanics
  <2> QED BY <1>3, <2>1 DEF Inv, AcceptedInv, DoneInv
<1>6. CASE Bite \/ Spawn
  <2>1. pc = "accepted" /\ pc' = "done" /\ UNCHANGED <<setting, bitten>>
    BY <1>6 DEF Bite, Spawn, inputs
  <2>2. AcceptedInv'
    BY <1>1, <1>2, <2>1, SameInputs DEF Inv, AcceptedInv
  <2>3. DoneInv'
    <3>1. \A k : On(setting, k)' <=> On(setting, k)
      BY <1>2, <2>1 DEF On
    <3>2. CASE Bite
      <4>1. /\ cmd = "bite" /\ cmd' = "bite"
            /\ spawned' <=> On(setting, <<"and_spawn", RC>>)
            /\ monitored' <=> spawned'
            /\ published' <=> spawned' /\ On(setting, <<"publish", RC>>)
        BY <1>2, <3>2, Zenon DEF Bite
      <4> QED BY <3>1, <4>1, Zenon DEF DoneInv
    <3>3. CASE Spawn
      <4>1. /\ cmd = "spawn" /\ cmd' = "spawn" /\ spawned'
            /\ monitored' <=> On(setting, <<"with_monitor", RC>>)
            /\ published' <=> On(setting, <<"publish", RC>>)
        BY <1>2, <3>3, Zenon DEF Spawn
      <4> QED BY <3>1, <4>1, Zenon DEF DoneInv
    <3> QED BY <1>6, <3>2, <3>3
  <2> QED BY <1>3, <2>2, <2>3 DEF Inv
<1>7. CASE Over \/ UNCHANGED vars
  <2>1. UNCHANGED <<pc, setting, bitten, spawned, monitored, published>>
    BY <1>7 DEF Over, vars, outcome
  <2>2. AcceptedInv'
    BY <1>1, <1>2, <2>1, SameInputs DEF Inv, AcceptedInv
  <2>3. \A k : On(setting, k)' <=> On(setting, k)
    BY <1>2, <2>1 DEF On
  <2>4. DoneInv'
    BY <1>2, <2>1, <2>3, Zenon DEF Inv, DoneInv
  <2> QED BY <1>3, <2>2, <2>4 DEF Inv
<1> QED BY <1>4, <1>5, <1>6, <1>7 DEF Next

\* What was given, what was accepted and what was done belong together in every
\* reachable state.
THEOREM Inductive == Spec => []Inv
BY InitInv, StepInv, PTL DEF Spec

\* An option on the command line is used, whatever the config file and the
\* environment say, with the two exceptions of the code.
THEOREM CommandLineTakesOver == Spec => []CommandLineWins
<1>1. Inv => CommandLineWins
  <2> SUFFICES ASSUME Inv, pc = "accepted", NEW k \in cli,
                      ~(k = <<"sync_url", RC>> /\ NetworkOf = "custom"),
                      ~(k = <<"with_monitor", RC>> /\ cmd = "spawn" /\ k \in file)
               PROVE  setting[k] = "cli"
    BY DEF CommandLineWins
  <2>1. setting = Settings /\ cmd \in {"bite", "spawn"}
    BY DEF Inv, AcceptedInv, GivenInv
  <2>2. CASE cmd = "bite"
    <3>1. k \in CliOption /\ k \in Option
      BY <2>2, CliKinds DEF Inv, GivenInv
    <3> QED BY <2>1, <2>2, <3>1, BiteCli DEF Settings
  <2>3. CASE cmd = "spawn"
    <3>1. k \in SpawnOption /\ k \in Option
      BY <2>3, CliKinds DEF Inv, GivenInv
    <3> QED BY <2>1, <2>3, <3>1, SpawnCli DEF Settings
  <2> QED BY <2>1, <2>2, <2>3
<1> QED BY <1>1, Inductive, PTL

\* When an accepted command ends its bootnodes are published, its monitor has been
\* started, there is a network where an upgrade was to be applied, and its cores
\* are of bitten parachains.  Whether there is an upgrade to apply is not said.
THEOREM AcceptedIsDone == Spec => []AskedIsDone
<1>1. Inv => AskedIsDone
  <2> SUFFICES ASSUME Inv, pc = "done"
               PROVE  /\ On(setting, <<"publish", RC>>) => published
                      /\ On(setting, <<"with_monitor", RC>>) => monitored
                      /\ On(setting, <<"apply_upgrade", RC>>) => spawned
                      /\ cmd = "bite" => {p \in Paras : On(setting, <<"cores", p>>)} \subseteq bitten
    BY DEF AskedIsDone
  <2>1. /\ spawned <=> cmd = "spawn" \/ On(setting, <<"and_spawn", RC>>)
        /\ monitored <=> IF cmd = "spawn" THEN On(setting, <<"with_monitor", RC>>) ELSE spawned
        /\ published <=> spawned /\ On(setting, <<"publish", RC>>)
    BY Zenon DEF Inv, DoneInv
  <2>2. setting = Settings /\ ~Refused(setting) /\ (cmd = "bite" => bitten = Bitten)
    BY DEF Inv, AcceptedInv
  <2>3. CASE cmd = "spawn"
    BY <2>1, <2>3
  <2>4. CASE cmd = "bite"
    <3>1. ~NeedsSpawn(setting) /\ ~StrayCores(setting) /\ ~MonitorAlone
      BY <2>2, <2>4 DEF Refused
    <3>2. On(setting, <<"with_monitor", RC>>) => On(setting, <<"and_spawn", RC>>)
      <4>1. /\ setting[<<"and_spawn", RC>>] = CliOrFile(<<"and_spawn", RC>>)
            /\ setting[<<"with_monitor", RC>>] =
                 IF InCli(<<"with_monitor", RC>>) THEN "cli" ELSE "default"
        BY <2>2, <2>4, FlagSettings DEF Settings
      <4>2. InCli(<<"and_spawn", RC>>) => CliOrFile(<<"and_spawn", RC>>) = "cli"
        BY DEF CliOrFile
      <4> QED BY <3>1, <4>1, <4>2 DEF MonitorAlone, On
    <3>3. {p \in Paras : On(setting, <<"cores", p>>)} \subseteq bitten
      BY <2>2, <2>4, <3>1 DEF StrayCores
    <3> QED BY <2>1, <2>4, <3>1, <3>2, <3>3, Zenon DEF NeedsSpawn
  <2> QED BY <2>3, <2>4 DEF Inv, GivenInv
<1> QED BY <1>1, Inductive, PTL

=============================================================================
